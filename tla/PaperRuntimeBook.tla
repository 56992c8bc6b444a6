--------------------------- MODULE PaperRuntimeBook ---------------------------
(* PaperRuntime implements TradeBook: crashes, restarts, failed cycles and *)
(* repeated work are invisible in the book.                                *)
EXTENDS PaperRuntime

(* An order's row and its position, read together.  A FILLED order without *)
(* a position would be none of the lives of TradeBook.                     *)
Life(o) ==
    CASE order[o] = "ABSENT"   -> "new"
      [] order[o] = "PENDING"  -> "submitted"
      [] order[o] = "ACCEPTED" -> "working"
      [] order[o] = "REJECTED" -> "rejected"
      [] order[o] = "FILLED" /\ position[o] = "OPEN"   -> "open"
      [] order[o] = "FILLED" /\ position[o] = "CLOSED" -> "closed"
      [] OTHER -> "lost"

Book == INSTANCE TradeBook WITH
    life <- [o \in Orders |-> Life(o)],
    booked <- [o \in Orders |-> IF journal[o] = None THEN None ELSE journal[o].pnl],
    balance <- equity

(* Every behaviour of the runtime is a behaviour of the book.              *)
ImplementsTradeBook == Book!BookSpec
=============================================================================
