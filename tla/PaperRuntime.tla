----------------------------- MODULE PaperRuntime -----------------------------
(***************************************************************************)
(* One PAPER runtime process over its SQLite database: the cycle of        *)
(* RuntimeCycleOrchestrator.run, the order life cycle of                   *)
(* PaperTradingRuntime and PendingOrderManager, and the settlement of      *)
(* closed positions, with exceptions, crashes and restarts between any two *)
(* commits.                                                                *)
(*                                                                         *)
(* A step of this module ends at a commit, so a Crash between two steps is *)
(* a crash between two transactions.  Prices, quantities and timestamps    *)
(* are abstracted to the outcome of the comparison the code makes on them; *)
(* the realised P&L of an exit is any member of PnLs.                      *)
(***************************************************************************)
EXTENDS Integers, Sequences

CONSTANTS
    Orders,       \* ids of order requests (position_id = order_id)
    LimitOrders,  \* those of type LIMIT; the others are MARKET orders
    Cycles,       \* cycle ids
    PnLs,         \* realised P&L values an exit may have
    StartEquity,  \* initial_equity of build_paper_application
    None          \* no order, no cycle, no row

ASSUME OrderAssumption == LimitOrders \subseteq Orders
ASSUME EquityAssumption == StartEquity \in Nat \ {0} /\ PnLs \subseteq Int
ASSUME NoneAssumption ==
    /\ None \notin Orders \cup Cycles \cup PnLs
    /\ None \notin [pnl : PnLs, cycle : Cycles]

VARIABLES
    (* the database *)
    order,      \* orders.status
    fill,       \* orders with a row "fill:<order_id>" in fills
    position,   \* positions.status; CLOSED stands for STOPPED_OUT as well
    pending,    \* pending_orders.status
    equity,     \* account_state.equity
    ledger,     \* account_ledger, in insertion order
    journal,    \* trade_journal
    audit,      \* cycle_audits.status
    (* the process *)
    pc,         \* where RuntimeCycleOrchestrator.run is
    cycle,      \* the cycle it runs
    account,    \* Account.equity
    recovered,  \* _recovery_done_for_cycle
    closing,    \* PositionManagementResult: exits decided, not yet settled
    checking,   \* the pending orders the manager has still to check
    queue,      \* ExplicitPaperSelectionQueue
    batch,      \* the drained orders still to submit
    current     \* the order between two commits of its own handler

db == <<order, fill, position, pending, equity, ledger, journal, audit>>
loop == <<closing, checking, batch, current>>
vars == <<db, pc, cycle, account, recovered, queue, loop>>

OrderStatus == {"ABSENT", "PENDING", "ACCEPTED", "FILLED", "REJECTED"}
PositionStatus == {"ABSENT", "OPEN", "CLOSED"}
PendingStatus == {"ABSENT", "ACCEPTED", "REJECTED"}
AuditStatus == {"ABSENT", "STARTED", "COMPLETED", "FAILED"}
Stages == {"recover", "manage", "settle", "check", "remove",
           "submit", "execute", "enqueue"}
JournalEntry == [pnl : PnLs, cycle : Cycles]
LedgerEntry == [pos : Orders, pnl : PnLs, cycle : Cycles, before : Int, after : Int]

Running == pc \in Stages

(* The transitions SQLiteOrderRepository.save_result lets through.  A      *)
(* result whose status is the stored one must equal the stored result; two *)
(* FILLED results never do, each carries its own utc_now() as filled_at.   *)
Allowed(from, to) ==
    \/ from = "PENDING" /\ to \in {"ACCEPTED", "FILLED", "REJECTED"}
    \/ from = "ACCEPTED" /\ to \in {"FILLED", "REJECTED"}

Nothing == [o \in Orders |-> None]
-----------------------------------------------------------------------------
Init ==
    /\ order = [o \in Orders |-> "ABSENT"]
    /\ fill = {}
    /\ position = [o \in Orders |-> "ABSENT"]
    /\ pending = [o \in Orders |-> "ABSENT"]
    /\ equity = StartEquity
    /\ ledger = <<>>
    /\ journal = Nothing
    /\ audit = [c \in Cycles |-> "ABSENT"]
    /\ pc = "idle"
    /\ cycle = None
    /\ account = StartEquity
    /\ recovered = {}
    /\ closing = Nothing
    /\ checking = {}
    /\ queue = {}
    /\ batch = {}
    /\ current = None

(* The caller replaces the explicit selection.  Its list is a set here:    *)
(* the order in which a batch is submitted is left open.                   *)
Select(S) ==
    /\ pc = "idle"
    /\ queue' = S
    /\ UNCHANGED <<db, pc, cycle, account, recovered, loop>>

(* run(c).  A COMPLETED cycle is answered from its audit and changes       *)
(* nothing; STARTED and FAILED ones run again.                             *)
StartCycle(c) ==
    /\ pc = "idle"
    /\ audit[c] # "COMPLETED"
    /\ audit' = [audit EXCEPT ![c] = "STARTED"]
    /\ cycle' = c
    /\ pc' = "recover"
    /\ UNCHANGED <<order, fill, position, pending, equity, ledger, journal,
                   account, recovered, queue, loop>>

(* What the reconciler rebuilds: the position of an order that is FILLED,  *)
(* has its fill and has no position row, open or closed.                   *)
Missing(o) == order[o] = "FILLED" /\ o \in fill /\ position[o] = "ABSENT"

Recover ==
    /\ pc = "recover"
    /\ position' = [o \in Orders |->
           IF cycle \notin recovered /\ Missing(o) THEN "OPEN" ELSE position[o]]
    /\ recovered' = recovered \cup {cycle}
    /\ pc' = "manage"
    /\ UNCHANGED <<order, fill, pending, equity, ledger, journal, audit,
                   cycle, account, queue, loop>>

(* manage_open_positions: live prices close any of the open positions, in  *)
(* memory only.  Open positions that stay open are saved back unchanged    *)
(* (the composed ExitPolicy has no trailing stop).                         *)
Manage ==
    /\ pc = "manage"
    /\ closing' \in [Orders -> PnLs \cup {None}]
    /\ \A o \in Orders : closing'[o] # None => position[o] = "OPEN"
    /\ pc' = "settle"
    /\ UNCHANGED <<db, cycle, account, recovered, queue, checking, batch, current>>

Booked(o) == \E i \in 1..Len(ledger) : ledger[i].pos = o

(* The ledger already holds this settlement, and nothing was booked since. *)
Replayed(o) ==
    \E i \in 1..Len(ledger) :
        ledger[i].pos = o /\ ledger[i].pnl = closing[o] /\ ledger[i].after = equity

CanBook(o) ==
    /\ account = equity
    /\ equity + closing[o] >= 0
    /\ journal[o] = None

(* Mutant: the transaction leaves out save_equity.                         *)
SettleWithoutEquity(o) ==
    /\ pc = "settle"
    /\ closing[o] # None
    /\ ~Booked(o) /\ CanBook(o)
    /\ position' = [position EXCEPT ![o] = "CLOSED"]
    /\ ledger' = Append(ledger, [pos |-> o, pnl |-> closing[o], cycle |-> cycle,
                                 before |-> equity, after |-> equity + closing[o]])
    /\ journal' = [journal EXCEPT ![o] = [pnl |-> closing[o], cycle |-> cycle]]
    /\ account' = account + closing[o]
    /\ closing' = [closing EXCEPT ![o] = None]
    /\ UNCHANGED <<order, fill, pending, equity, audit, pc, cycle, recovered, queue,
                   checking, batch, current>>

(* Mutant: the closed position is not saved in the transaction.            *)
SettleWithoutClose(o) ==
    /\ pc = "settle"
    /\ closing[o] # None
    /\ ~Booked(o) /\ CanBook(o)
    /\ equity' = equity + closing[o]
    /\ ledger' = Append(ledger, [pos |-> o, pnl |-> closing[o], cycle |-> cycle,
                                 before |-> equity, after |-> equity + closing[o]])
    /\ journal' = [journal EXCEPT ![o] = [pnl |-> closing[o], cycle |-> cycle]]
    /\ account' = account + closing[o]
    /\ closing' = [closing EXCEPT ![o] = None]
    /\ UNCHANGED <<order, fill, position, pending, audit, pc, cycle, recovered, queue,
                   checking, batch, current>>

(* PositionSettlementService.settle: close, equity, ledger and journal in  *)
(* one transaction, then the in-memory account.  A settlement already in   *)
(* the ledger is answered from it.                                         *)
Settle(o) ==
    /\ pc = "settle"
    /\ closing[o] # None
    /\ IF Booked(o) THEN Replayed(o) ELSE CanBook(o)
    /\ IF Booked(o)
       THEN UNCHANGED <<position, equity, ledger, journal, account>>
       ELSE /\ position' = [position EXCEPT ![o] = "CLOSED"]
            /\ equity' = equity + closing[o]
            /\ ledger' = Append(ledger, [pos |-> o, pnl |-> closing[o], cycle |-> cycle,
                                         before |-> equity, after |-> equity + closing[o]])
            /\ journal' = [journal EXCEPT ![o] = [pnl |-> closing[o], cycle |-> cycle]]
            /\ account' = account + closing[o]
    /\ closing' = [closing EXCEPT ![o] = None]
    /\ UNCHANGED <<order, fill, pending, audit, pc, cycle, recovered, queue,
                   checking, batch, current>>

(* Mutant: rejected pending rows are read as well.                         *)
SettlementDoneAllRows ==
    /\ pc = "settle"
    /\ closing = Nothing
    /\ checking' = {o \in Orders : pending[o] # "ABSENT"}
    /\ pc' = "check"
    /\ UNCHANGED <<db, cycle, account, recovered, queue, closing, batch, current>>

(* All exits are settled; PendingOrderManager.check reads the active rows. *)
SettlementDone ==
    /\ pc = "settle"
    /\ closing = Nothing
    /\ checking' = {o \in Orders : pending[o] = "ACCEPTED"}
    /\ pc' = "check"
    /\ UNCHANGED <<db, cycle, account, recovered, queue, closing, batch, current>>

(* Mutants: the position is left to a later commit; a second FILLED result *)
(* is taken for a repetition of the first.                                 *)
ApplyFillWithoutPosition(o) ==
    /\ Allowed(order[o], "FILLED")
    /\ order' = [order EXCEPT ![o] = "FILLED"]
    /\ fill' = fill \cup {o}
    /\ position' = position

ReapplyFill(o) ==
    /\ Allowed(order[o], "FILLED") \/ order[o] = "FILLED"
    /\ order' = [order EXCEPT ![o] = "FILLED"]
    /\ fill' = fill \cup {o}
    /\ position' = [position EXCEPT ![o] = "OPEN"]

(* AtomicExecutionService.apply_fill: result, fill and position in one     *)
(* transaction.  The position is written with INSERT OR REPLACE, the only  *)
(* thing that keeps it from replacing a closed one is save_result.         *)
ApplyFill(o) ==
    /\ Allowed(order[o], "FILLED")
    /\ order' = [order EXCEPT ![o] = "FILLED"]
    /\ fill' = fill \cup {o}
    /\ position' = [position EXCEPT ![o] = "OPEN"]

(* check_limit found the limit crossed; the fill is committed, the pending *)
(* row is removed by the next commit.                                      *)
CheckFill(o) ==
    /\ pc = "check"
    /\ o \in checking
    /\ ApplyFill(o)
    /\ checking' = checking \ {o}
    /\ current' = o
    /\ pc' = "remove"
    /\ UNCHANGED <<pending, equity, ledger, journal, audit, cycle, account,
                   recovered, queue, closing, batch>>

RemovePending ==
    /\ pc = "remove"
    /\ pending' = [pending EXCEPT ![current] = "ABSENT"]
    /\ current' = None
    /\ pc' = "check"
    /\ UNCHANGED <<order, fill, position, equity, ledger, journal, audit, cycle,
                   account, recovered, queue, closing, checking, batch>>

(* check_limit found the limit not crossed (the row is saved again as it   *)
(* is) or got no valid price: the pending row is rejected for good, the    *)
(* orders row is not touched.                                              *)
CheckUnfilled(o, s) ==
    /\ pc = "check"
    /\ o \in checking
    /\ pending' = [pending EXCEPT ![o] = s]
    /\ checking' = checking \ {o}
    /\ UNCHANGED <<order, fill, position, equity, ledger, journal, audit, pc, cycle,
                   account, recovered, queue, closing, batch, current>>

(* No pending order is left to check.  The opportunity pipeline runs (it   *)
(* submits nothing) and _submit_selected_orders drains the queue.          *)
ChecksDone ==
    /\ pc = "check"
    /\ checking = {}
    /\ batch' = queue
    /\ queue' = {}
    /\ pc' = "submit"
    /\ UNCHANGED <<db, cycle, account, recovered, closing, checking, current>>
-----------------------------------------------------------------------------
(* Mutant: a rejected order may be submitted again.                        *)
SubmitRejected(o) ==
    /\ pc = "submit"
    /\ o \in batch
    /\ order[o] \in {"ABSENT", "REJECTED"}
    /\ order' = [order EXCEPT ![o] = "PENDING"]
    /\ current' = o
    /\ pc' = "execute"
    /\ UNCHANGED <<fill, position, pending, equity, ledger, journal, audit, cycle,
                   account, recovered, queue, closing, checking, batch>>

(* PaperTradingRuntime.submit of an order the database does not know.      *)
SubmitNew(o) ==
    /\ pc = "submit"
    /\ o \in batch
    /\ order[o] = "ABSENT"
    /\ order' = [order EXCEPT ![o] = "PENDING"]
    /\ current' = o
    /\ pc' = "execute"
    /\ UNCHANGED <<fill, position, pending, equity, ledger, journal, audit, cycle,
                   account, recovered, queue, closing, checking, batch>>

(* PaperExecutor.submit got a price and the order is marketable.           *)
ExecuteFill ==
    /\ pc = "execute"
    /\ ApplyFill(current)
    /\ batch' = batch \ {current}
    /\ current' = None
    /\ pc' = "submit"
    /\ UNCHANGED <<pending, equity, ledger, journal, audit, cycle, account,
                   recovered, queue, closing, checking>>

(* No valid price, or an invalid request.                                  *)
ExecuteReject ==
    /\ pc = "execute"
    /\ Allowed(order[current], "REJECTED")
    /\ order' = [order EXCEPT ![current] = "REJECTED"]
    /\ batch' = batch \ {current}
    /\ current' = None
    /\ pc' = "submit"
    /\ UNCHANGED <<fill, position, pending, equity, ledger, journal, audit, cycle,
                   account, recovered, queue, closing, checking>>

(* A LIMIT order that is not marketable: ACCEPTED first, pending row next. *)
ExecuteAccept ==
    /\ pc = "execute"
    /\ current \in LimitOrders
    /\ Allowed(order[current], "ACCEPTED")
    /\ order' = [order EXCEPT ![current] = "ACCEPTED"]
    /\ pc' = "enqueue"
    /\ UNCHANGED <<fill, position, pending, equity, ledger, journal, audit, cycle,
                   account, recovered, queue, loop>>

Enqueue ==
    /\ pc = "enqueue"
    /\ pending' = [pending EXCEPT ![current] = "ACCEPTED"]
    /\ batch' = batch \ {current}
    /\ current' = None
    /\ pc' = "submit"
    /\ UNCHANGED <<order, fill, position, equity, ledger, journal, audit, cycle,
                   account, recovered, queue, closing, checking>>

(* Mutant: the order stays in the batch.                                   *)
ResubmitForever(o) ==
    /\ pc = "submit"
    /\ o \in batch
    /\ order[o] \in {"ACCEPTED", "FILLED", "REJECTED"}
    /\ pending' = IF order[o] = "ACCEPTED"
                  THEN [pending EXCEPT ![o] = "ACCEPTED"] ELSE pending
    /\ UNCHANGED <<order, fill, position, equity, ledger, journal, audit, pc, cycle,
                   account, recovered, queue, loop>>

(* The same request again: its stored result is returned; an ACCEPTED one  *)
(* gets its pending row (back).                                            *)
Resubmit(o) ==
    /\ pc = "submit"
    /\ o \in batch
    /\ order[o] \in {"ACCEPTED", "FILLED", "REJECTED"}
    /\ pending' = IF order[o] = "ACCEPTED"
                  THEN [pending EXCEPT ![o] = "ACCEPTED"] ELSE pending
    /\ batch' = batch \ {o}
    /\ UNCHANGED <<order, fill, position, equity, ledger, journal, audit, pc, cycle,
                   account, recovered, queue, closing, checking, current>>

FinishCycle ==
    /\ pc = "submit"
    /\ batch = {}
    /\ audit' = [audit EXCEPT ![cycle] = "COMPLETED"]
    /\ pc' = "idle"
    /\ cycle' = None
    /\ UNCHANGED <<order, fill, position, pending, equity, ledger, journal,
                   account, recovered, queue, loop>>
-----------------------------------------------------------------------------
(* The except clause of run: the open transaction was rolled back, the     *)
(* audit becomes FAILED, and what the cycle held in memory is dropped --   *)
(* the drained orders with it.                                             *)
Fail ==
    /\ audit' = [audit EXCEPT ![cycle] = "FAILED"]
    /\ pc' = "idle"
    /\ cycle' = None
    /\ closing' = Nothing
    /\ checking' = {}
    /\ batch' = {}
    /\ current' = None
    /\ UNCHANGED <<order, fill, position, pending, equity, ledger, journal,
                   account, recovered, queue>>

(* settle refuses: the ledger holds another settlement of the position, the*)
(* account is out of step with account_state, equity would become negative,*)
(* or the journal holds another entry.                                     *)
SettleRefused(o) ==
    /\ pc = "settle"
    /\ closing[o] # None
    /\ ~(IF Booked(o) THEN Replayed(o) ELSE CanBook(o))
    /\ Fail

(* check_limit filled an order whose stored result does not take a fill:   *)
(* a crash had come between its fill and the removal of its pending row.   *)
CheckConflict(o) ==
    /\ pc = "check"
    /\ o \in checking
    /\ ~Allowed(order[o], "FILLED")
    /\ Fail

(* The order was persisted by a process that stopped before its result.    *)
SubmitStuck(o) ==
    /\ pc = "submit"
    /\ o \in batch
    /\ order[o] = "PENDING"
    /\ Fail

(* A known order id with another request.                                  *)
SubmitConflict(o) ==
    /\ pc = "submit"
    /\ o \in batch
    /\ order[o] # "ABSENT"
    /\ Fail

(* Any other exception: no live price for an open position, an error of    *)
(* the opportunity pipeline, or of SQLite in a transaction.                *)
StepFails == Running /\ Fail

Crash ==
    /\ pc # "down"
    /\ pc' = "down"
    /\ cycle' = None
    /\ account' = 0
    /\ recovered' = {}
    /\ closing' = Nothing
    /\ checking' = {}
    /\ queue' = {}
    /\ batch' = {}
    /\ current' = None
    /\ UNCHANGED db

(* build_paper_application: the account starts at the persisted equity.    *)
Restart ==
    /\ pc = "down"
    /\ account' = equity
    /\ pc' = "idle"
    /\ UNCHANGED <<db, cycle, recovered, queue, loop>>

CycleStep ==
    \/ Recover \/ Manage \/ SettlementDone \/ RemovePending \/ ChecksDone
    \/ ExecuteFill \/ ExecuteReject \/ ExecuteAccept \/ Enqueue \/ FinishCycle
    \/ \E o \in Orders :
          \/ Settle(o) \/ SettleRefused(o)
          \/ CheckFill(o) \/ CheckConflict(o)
          \/ \E s \in {"ACCEPTED", "REJECTED"} : CheckUnfilled(o, s)
          \/ SubmitNew(o) \/ Resubmit(o) \/ SubmitStuck(o)

Next ==
    \/ CycleStep
    \/ \E o \in Orders : SubmitConflict(o)
    \/ \E S \in SUBSET Orders : Select(S)
    \/ \E c \in Cycles : StartCycle(c)
    \/ StepFails
    \/ Crash
    \/ Restart

Spec == Init /\ [][Next]_vars

(* A cycle that runs keeps running.  Nobody owes a new cycle, a selection, *)
(* an exception, or the restart of a process.                              *)
FairSpec == Spec /\ WF_vars(CycleStep)
-----------------------------------------------------------------------------
(* Types of the rows and of the process state.                             *)
TypeOK ==
    /\ order \in [Orders -> OrderStatus]
    /\ fill \in SUBSET Orders
    /\ position \in [Orders -> PositionStatus]
    /\ pending \in [Orders -> PendingStatus]
    /\ equity \in Nat
    /\ ledger \in Seq(LedgerEntry)
    /\ journal \in [Orders -> JournalEntry \cup {None}]
    /\ audit \in [Cycles -> AuditStatus]
    /\ pc \in Stages \cup {"idle", "down"}
    /\ cycle \in Cycles \cup {None}
    /\ Running <=> cycle # None
    /\ account \in Nat
    /\ recovered \in SUBSET Cycles
    /\ closing \in [Orders -> PnLs \cup {None}]
    /\ checking \in SUBSET Orders
    /\ queue \in SUBSET Orders
    /\ batch \in SUBSET Orders
    /\ current \in Orders \cup {None}
    /\ pc \in {"remove", "execute", "enqueue"} <=> current # None

(* An order is FILLED exactly when its fill is recorded and exactly when   *)
(* its position exists: no crash or exception splits the transaction of    *)
(* apply_fill, so recovery never has an issue to report or a position to   *)
(* rebuild.                                                                *)
ExecutionConsistent ==
    \A o \in Orders :
        /\ order[o] = "FILLED" <=> o \in fill
        /\ order[o] = "FILLED" <=> position[o] # "ABSENT"

(* The ledger is a chain of equity transitions from the initial equity to  *)
(* the persisted one, each by the P&L of its settlement.                   *)
LedgerChain ==
    LET n == Len(ledger) IN
    /\ n = 0 => equity = StartEquity
    /\ n > 0 => ledger[1].before = StartEquity /\ ledger[n].after = equity
    /\ \A i \in 1..n : ledger[i].after = ledger[i].before + ledger[i].pnl
    /\ \A i \in 1..n-1 : ledger[i + 1].before = ledger[i].after

(* A closed position was settled exactly once, and the journal tells the   *)
(* same P&L and cycle as the ledger.                                       *)
SettledOnce ==
    /\ \A o \in Orders : position[o] = "CLOSED" <=> Booked(o)
    /\ \A o \in Orders : journal[o] # None => Booked(o)
    /\ \A i \in 1..Len(ledger) :
          journal[ledger[i].pos] = [pnl |-> ledger[i].pnl, cycle |-> ledger[i].cycle]
    /\ \A i, j \in 1..Len(ledger) : ledger[i].pos = ledger[j].pos => i = j

(* A live process holds the equity the database holds, whatever it was     *)
(* doing when it last stopped: the out-of-sync check of settle never fires.*)
AccountInSync == pc # "down" => account = equity

(* A pending row stands for an order that was accepted: it is still        *)
(* ACCEPTED, or FILLED with the removal of the row outstanding.            *)
PendingBacked ==
    \A o \in Orders : pending[o] # "ABSENT" =>
        o \in LimitOrders /\ order[o] \in {"ACCEPTED", "FILLED"}

(* The audit of the cycle that runs is STARTED: a completed cycle id is    *)
(* never executed again, by this process or by one started later.          *)
RunningIsStarted == Running => audit[cycle] = "STARTED"

(* An exit that was decided is of a position that is open and unsettled    *)
(* when its turn comes.                                                    *)
ClosingIsOpen ==
    \A o \in Orders : closing[o] # None =>
        pc = "settle" /\ position[o] = "OPEN"

(* Between two commits of one handler: the order in hand has the status    *)
(* the first commit gave it, and an order still to check has the pending   *)
(* row that put it there.                                                  *)
InProgress ==
    /\ pc = "execute" => order[current] = "PENDING"
    /\ pc = "enqueue" => order[current] = "ACCEPTED"
    /\ pc = "remove" => order[current] = "FILLED" /\ current \notin checking
    /\ \A o \in checking : pc \in {"check", "remove"} /\ pending[o] = "ACCEPTED"
    /\ \A o \in Orders : order[o] = "ACCEPTED" => o \in LimitOrders

(* The inductive invariant: everything above.                              *)
Inv ==
    /\ TypeOK /\ ExecutionConsistent /\ LedgerChain /\ SettledOnce
    /\ AccountInSync /\ PendingBacked /\ RunningIsStarted /\ ClosingIsOpen
    /\ InProgress

(* A closed position is never reopened or removed, by a repeated fill or   *)
(* by recovery.                                                            *)
NeverReopened ==
    [][\A o \in Orders : position[o] = "CLOSED" => position'[o] = "CLOSED"]_vars

(* The persisted equity moves only when an open position is closed, by one *)
(* ledger entry of that position appended to the entries already there.    *)
EquityOnlyBySettlement ==
    [][equity' # equity =>
          \E o \in Orders :
              /\ position[o] = "OPEN" /\ position'[o] = "CLOSED"
              /\ Len(ledger') = Len(ledger) + 1
              /\ SubSeq(ledger', 1, Len(ledger)) = ledger
              /\ ledger'[Len(ledger')].pos = o]_vars

(* A completed cycle id stays completed and nothing more is ever settled   *)
(* under it, by this process or by one started later.                      *)
CompletedIsFinal ==
    [][\A c \in Cycles : audit[c] = "COMPLETED" =>
          /\ audit'[c] = "COMPLETED"
          /\ \A i \in Len(ledger)+1 .. Len(ledger') : ledger'[i].cycle # c]_vars

(* A cycle that runs ends: completed, failed, or with its process.         *)
CycleEnds == Running ~> ~Running
=============================================================================
