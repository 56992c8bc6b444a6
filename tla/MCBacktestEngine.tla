--------------------------- MODULE MCBacktestEngine ---------------------------
(* Two fully correlated symbols; bars that stay, fall, reach both sides and   *)
(* open beyond a stop; a near and a far long signal and a short one. The      *)
(* longer candles start before the test, with and without a gap.              *)
EXTENDS BacktestEngine

CONSTANTS s1, s2

MCSymbols == <<s1, s2>>
Both == {s1, s2}
Run(loop, short, start, calendar) ==
    [loop |-> loop, short |-> short, start |-> start, calendar |-> calendar]
MCConfigs ==
    {Run("engine", TRUE, 1, [t \in 1..4 |-> {s1}]),
     Run("engine", FALSE, 3, [t \in 1..6 |-> {s1}])}
    \cup {Run("portfolio", TRUE, 1, c) :
        c \in {<<Both, Both, Both, Both>>, <<Both, Both, {s2}, Both>>,
               <<Both, {s1}, Both, {s2}, Both>>}}
Shape(o, l, h, c) == [open |-> o, low |-> l, high |-> h, close |-> c]
MCShapes == {Shape(100, 99, 101, 100), Shape(100, 93, 101, 95),
             Shape(96, 88, 112, 100), Shape(92, 91, 95, 94)}
Signal(d, s, t) == [direction |-> d, stop |-> s, target |-> t]
MCSignals == {Signal("LONG", 97, 104), Signal("LONG", 85, 120), Signal("SHORT", 115, 90)}
MCHourRows == {<<-4, -2, 0, 2>>, <<-4, 0, 2>>}
MCCorrelation == [p \in SUBSET {s1, s2} |-> 100]
=============================================================================
