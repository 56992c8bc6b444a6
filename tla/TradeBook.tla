------------------------------- MODULE TradeBook -------------------------------
(***************************************************************************)
(* What the PAPER runtime promises about each order, whatever crashes,     *)
(* exceptions and repetitions happen underneath: an order is submitted     *)
(* once, decided once, filled at most once into one position, which is     *)
(* closed at most once, and the account moves by exactly the P&L booked    *)
(* for it.  There is no process here, hence nothing to crash.              *)
(***************************************************************************)
EXTENDS Integers

CONSTANTS Orders, LimitOrders, PnLs, StartEquity, None

VARIABLES
    life,     \* how far each order has come
    booked,   \* the P&L booked for each closed position
    balance   \* the account's equity

bookVars == <<life, booked, balance>>

Lives == {"new", "submitted", "working", "rejected", "open", "closed"}

BookInit ==
    /\ life = [o \in Orders |-> "new"]
    /\ booked = [o \in Orders |-> None]
    /\ balance = StartEquity

Move(o, from, to) == life[o] = from /\ life' = [life EXCEPT ![o] = to]

Place(o) == Move(o, "new", "submitted") /\ UNCHANGED <<booked, balance>>

Work(o) ==
    /\ o \in LimitOrders
    /\ Move(o, "submitted", "working")
    /\ UNCHANGED <<booked, balance>>

Refuse(o) == Move(o, "submitted", "rejected") /\ UNCHANGED <<booked, balance>>

Open(o) ==
    /\ Move(o, "submitted", "open") \/ Move(o, "working", "open")
    /\ UNCHANGED <<booked, balance>>

Close(o, p) ==
    /\ Move(o, "open", "closed")
    /\ balance + p >= 0
    /\ balance' = balance + p
    /\ booked' = [booked EXCEPT ![o] = p]

BookNext ==
    \E o \in Orders :
        \/ Place(o) \/ Work(o) \/ Refuse(o) \/ Open(o)
        \/ \E p \in PnLs : Close(o, p)

BookSpec == BookInit /\ [][BookNext]_bookVars
=============================================================================
