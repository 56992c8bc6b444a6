-------------------------- MODULE PaperRuntimeProofs --------------------------
(* Proofs about PaperRuntime for any sets of orders, cycles and P&Ls.      *)
EXTENDS PaperRuntimeBook, SequenceTheorems, TLAPS

USE DEF Stages, Running

(* Appending to a sequence: its length, its old and its new entries.       *)
LEMMA AppendFacts ==
    ASSUME NEW S, NEW s \in Seq(S), NEW e \in S
    PROVE  /\ Append(s, e) \in Seq(S)
           /\ Len(s) \in Nat
           /\ Len(Append(s, e)) = Len(s) + 1
           /\ Append(s, e)[Len(s) + 1] = e
           /\ \A i \in 1..Len(s) : Append(s, e)[i] = s[i]
  OBVIOUS

(* The row settle appends, and that it is one.                             *)
Entry(o) == [pos |-> o, pnl |-> closing[o], cycle |-> cycle,
             before |-> equity, after |-> equity + closing[o]]

LEMMA EntryType ==
    ASSUME TypeOK, NEW o \in Orders, Settle(o)
    PROVE  /\ closing[o] \in PnLs /\ closing[o] \in Int /\ cycle \in Cycles
           /\ Entry(o) \in LedgerEntry
           /\ [pnl |-> closing[o], cycle |-> cycle] \in JournalEntry
<1>1. closing[o] \in PnLs
  BY DEF TypeOK, Settle
<1>2. closing[o] \in Int
  BY <1>1, EquityAssumption
<1>3. cycle \in Cycles
  BY NoneAssumption DEF TypeOK, Settle
<1>4. equity \in Int /\ equity + closing[o] \in Int
  BY <1>2 DEF TypeOK
<1>5. QED
  BY <1>1, <1>2, <1>3, <1>4 DEF Entry, LedgerEntry, JournalEntry

(* What a settlement that is not a repetition does to the books.           *)
LEMMA Books ==
    ASSUME TypeOK, NEW o \in Orders, Settle(o), ~Booked(o)
    PROVE  /\ ledger' = Append(ledger, Entry(o))
           /\ Len(ledger) \in Nat /\ Len(ledger') = Len(ledger) + 1
           /\ ledger'[Len(ledger) + 1] = Entry(o)
           /\ \A i \in 1..Len(ledger) : ledger'[i] = ledger[i]
           /\ ledger' \in Seq(LedgerEntry)
           /\ journal' = [journal EXCEPT ![o] = [pnl |-> closing[o], cycle |-> cycle]]
           /\ position' = [position EXCEPT ![o] = "CLOSED"]
           /\ account' = account + closing[o] /\ equity' = equity + closing[o]
           /\ account = equity /\ equity + closing[o] >= 0
<1>1. ledger' = Append(ledger, Entry(o))
  BY DEF Settle, Entry
<1>2. ledger \in Seq(LedgerEntry) /\ Entry(o) \in LedgerEntry
  BY EntryType DEF TypeOK
<1>3. /\ Len(ledger) \in Nat /\ Len(ledger') = Len(ledger) + 1
      /\ ledger'[Len(ledger) + 1] = Entry(o)
      /\ \A i \in 1..Len(ledger) : ledger'[i] = ledger[i]
      /\ ledger' \in Seq(LedgerEntry)
  BY <1>1, <1>2, AppendFacts
<1>4. QED
  BY <1>1, <1>3 DEF Settle, CanBook

(* Type correctness: the initial state, the except clause, every step.     *)
LEMMA InitType == Init => TypeOK
  BY OrderAssumption, EquityAssumption, NoneAssumption
     DEF Init, TypeOK, Nothing, OrderStatus, PositionStatus, PendingStatus, AuditStatus

LEMMA FailType == ASSUME TypeOK, Running, Fail PROVE TypeOK'
  BY NoneAssumption DEF TypeOK, Fail, Nothing, AuditStatus

LEMMA TypeStep == TypeOK /\ [Next]_vars => TypeOK'
<1> SUFFICES ASSUME TypeOK, [Next]_vars PROVE TypeOK'
  OBVIOUS
<1> USE DEF TypeOK, db, loop, OrderStatus, PositionStatus, PendingStatus, AuditStatus
<1>1. CASE Recover
  BY <1>1 DEF Recover
<1>2. CASE Manage
  BY <1>2 DEF Manage
<1>3. CASE SettlementDone
  BY <1>3 DEF SettlementDone
<1>4. CASE RemovePending
  BY <1>4 DEF RemovePending
<1>5. CASE ChecksDone
  BY <1>5 DEF ChecksDone
<1>6. CASE ExecuteFill
  BY <1>6 DEF ExecuteFill, ApplyFill
<1>7. CASE ExecuteReject
  BY <1>7 DEF ExecuteReject
<1>8. CASE ExecuteAccept
  BY <1>8 DEF ExecuteAccept
<1>9. CASE Enqueue
  BY <1>9 DEF Enqueue
<1>10. CASE FinishCycle
  BY <1>10, NoneAssumption DEF FinishCycle
<1>11. ASSUME NEW o \in Orders, Settle(o) PROVE TypeOK'
  <2>1. CASE Booked(o)
    BY <1>11, <2>1 DEF Settle
  <2>2. CASE ~Booked(o)
    <3>1. equity' \in Nat /\ account' \in Nat
      BY <1>11, <2>2, Books, EntryType
    <3>2. journal' \in [Orders -> JournalEntry \cup {None}]
      BY <1>11, <2>2, Books, EntryType
    <3>3. QED
      BY <1>11, <2>2, <3>1, <3>2, Books DEF Settle
  <2>3. QED
    BY <2>1, <2>2
<1>12. ASSUME NEW o \in Orders, CheckFill(o) PROVE TypeOK'
  BY <1>12, NoneAssumption DEF CheckFill, ApplyFill
<1>13. ASSUME NEW o \in Orders, NEW s \in {"ACCEPTED", "REJECTED"}, CheckUnfilled(o, s)
       PROVE TypeOK'
  BY <1>13 DEF CheckUnfilled
<1>14. ASSUME NEW o \in Orders, SubmitNew(o) PROVE TypeOK'
  BY <1>14, NoneAssumption DEF SubmitNew
<1>15. ASSUME NEW o \in Orders, Resubmit(o) PROVE TypeOK'
  BY <1>15 DEF Resubmit
<1>16. ASSUME NEW S \in SUBSET Orders, Select(S) PROVE TypeOK'
  BY <1>16 DEF Select
<1>17. ASSUME NEW c \in Cycles, StartCycle(c) PROVE TypeOK'
  BY <1>17, NoneAssumption DEF StartCycle
<1>18. CASE Running /\ Fail
  BY <1>18, FailType
<1>19. CASE Crash
  BY <1>19 DEF Crash, Nothing
<1>20. CASE Restart
  BY <1>20 DEF Restart
<1>21. CASE UNCHANGED vars
  BY <1>21 DEF vars
<1>22. QED
  BY <1>1, <1>2, <1>3, <1>4, <1>5, <1>6, <1>7, <1>8, <1>9, <1>10, <1>11, <1>12, <1>13,
     <1>14, <1>15, <1>16, <1>17, <1>18, <1>19, <1>20, <1>21
     DEF Next, CycleStep, StepFails, SettleRefused, CheckConflict, SubmitStuck,
         SubmitConflict

(* Orders, fills and positions.  Only the actions named below touch them;  *)
(* recovery finds nothing to rebuild.                                      *)
LEMMA RecoverFindsNothing ==
    ASSUME TypeOK, ExecutionConsistent, Recover PROVE position' = position
  BY DEF TypeOK, ExecutionConsistent, Recover, Missing

LEMMA ExecutionStep ==
    ASSUME TypeOK, ExecutionConsistent, SettledOnce, ClosingIsOpen, InProgress, [Next]_vars
    PROVE  ExecutionConsistent'
<1> USE DEF ExecutionConsistent
<1>1. CASE UNCHANGED <<order, fill, position>>
  BY <1>1
<1>2. CASE Recover
  BY <1>2, RecoverFindsNothing DEF Recover
<1>3. ASSUME NEW o \in Orders, Settle(o) PROVE ExecutionConsistent'
  BY <1>3 DEF Settle, TypeOK, ClosingIsOpen
<1>4. ASSUME NEW o \in Orders, CheckFill(o) PROVE ExecutionConsistent'
  BY <1>4 DEF CheckFill, ApplyFill, TypeOK
<1>5. CASE ExecuteFill
  BY <1>5 DEF ExecuteFill, ApplyFill, TypeOK
<1>6. ASSUME NEW o \in Orders, SubmitNew(o) PROVE ExecutionConsistent'
  BY <1>6 DEF SubmitNew, TypeOK
<1>7. CASE ExecuteReject
  BY <1>7 DEF ExecuteReject, TypeOK, InProgress
<1>8. CASE ExecuteAccept
  BY <1>8 DEF ExecuteAccept, TypeOK, InProgress
<1>9. QED
  BY <1>1, <1>2, <1>3, <1>4, <1>5, <1>6, <1>7, <1>8
     DEF Next, CycleStep, StepFails, SettleRefused, CheckConflict, SubmitStuck,
         SubmitConflict, Fail, Manage, SettlementDone, RemovePending, ChecksDone,
         Enqueue, FinishCycle, CheckUnfilled, Resubmit, Select, StartCycle, Crash,
         Restart, db, loop, vars

(* The ledger: what a settlement appends continues the chain.              *)
LEMMA LedgerStep ==
    ASSUME TypeOK, LedgerChain, [Next]_vars
    PROVE  LedgerChain'
<1> USE DEF LedgerChain
<1>1. CASE UNCHANGED <<equity, ledger>>
  BY <1>1
<1>2. ASSUME NEW o \in Orders, Settle(o) PROVE LedgerChain'
  <2>1. CASE Booked(o)
    BY <1>1, <1>2, <2>1 DEF Settle
  <2>2. CASE ~Booked(o)
    <3> DEFINE n == Len(ledger)
               e == Entry(o)
    <3>1. /\ n \in Nat /\ Len(ledger') = n + 1
          /\ ledger'[n + 1] = e
          /\ \A i \in 1..n : ledger'[i] = ledger[i]
          /\ equity' = e.after
          /\ e.before = equity
          /\ e.after = e.before + e.pnl
      BY <1>2, <2>2, Books DEF Entry
    <3> HIDE DEF e
    <3>4. n > 0 => ledger[n].after = equity /\ ledger[1].before = StartEquity
      BY DEF TypeOK
    <3>5. \A i \in 1..n : ledger[i].after = ledger[i].before + ledger[i].pnl
      OBVIOUS
    <3>6. \A i \in 1..n-1 : ledger[i + 1].before = ledger[i].after
      OBVIOUS
    <3> HIDE DEF n
    <3>7. ledger'[1].before = StartEquity
      <4>1. CASE n = 0
        BY <4>1, <3>1 DEF n
      <4>2. CASE n > 0
        BY <4>2, <3>1, <3>4
      <4>3. QED
        BY <4>1, <4>2, <3>1
    <3>8. \A i \in 1..n+1 : ledger'[i].after = ledger'[i].before + ledger'[i].pnl
      BY <3>1, <3>5
    <3>9. \A i \in 1..n : ledger'[i + 1].before = ledger'[i].after
      <4> SUFFICES ASSUME NEW i \in 1..n PROVE ledger'[i + 1].before = ledger'[i].after
        OBVIOUS
      <4>1. CASE i = n
        BY <4>1, <3>1, <3>4
      <4>2. CASE i # n
        <5>1. i \in 1..n-1 /\ i + 1 \in 1..n
          BY <4>2, <3>1
        <5>2. QED
          BY <5>1, <3>1, <3>6
      <4>3. QED
        BY <4>1, <4>2
    <3>10. QED
      BY <3>1, <3>7, <3>8, <3>9
  <2>3. QED
    BY <2>1, <2>2
<1>3. QED
  BY <1>1, <1>2
     DEF Next, CycleStep, StepFails, SettleRefused, CheckConflict, SubmitStuck,
         SubmitConflict, Fail, Manage, SettlementDone, RemovePending, ChecksDone,
         Enqueue, FinishCycle, CheckUnfilled, Resubmit, Select, StartCycle, Crash,
         Restart, Recover, CheckFill, ExecuteFill, SubmitNew, ExecuteReject,
         ExecuteAccept, ApplyFill, db, loop, vars

(* Closed, booked and journaled mean the same, once per position.          *)
LEMMA SettledStep ==
    ASSUME TypeOK, ExecutionConsistent, SettledOnce, ClosingIsOpen, [Next]_vars
    PROVE  SettledOnce'
<1>1. CASE UNCHANGED <<position, ledger, journal>>
  BY <1>1 DEF SettledOnce, Booked
<1>2. ASSUME NEW o \in Orders, Settle(o) PROVE SettledOnce'
  <2>1. position[o] = "OPEN" /\ ~Booked(o)
    BY <1>2 DEF Settle, ClosingIsOpen, SettledOnce
  <2> DEFINE n == Len(ledger)
  <2>2. /\ n \in Nat /\ Len(ledger') = n + 1
        /\ ledger'[n + 1].pos = o
        /\ ledger'[n + 1].pnl = closing[o] /\ ledger'[n + 1].cycle = cycle
        /\ \A i \in 1..n : ledger'[i] = ledger[i]
    <3>1. ledger'[n + 1] = Entry(o)
      BY <1>2, <2>1, Books
    <3>2. QED
      BY <1>2, <2>1, <3>1, Books DEF Entry
  <2>3. \A i \in 1..n : ledger[i].pos \in Orders /\ ledger[i].pos # o
    <3>1. \A i \in 1..n : ledger[i] \in LedgerEntry
      BY ElementOfSeq DEF TypeOK
    <3>2. QED
      BY <2>1, <3>1 DEF LedgerEntry, Booked
  <2>4. /\ journal'[o] = [pnl |-> closing[o], cycle |-> cycle]
        /\ position'[o] = "CLOSED"
        /\ \A x \in Orders \ {o} : journal'[x] = journal[x] /\ position'[x] = position[x]
    BY <1>2, <2>1, Books DEF TypeOK
  <2> HIDE DEF n
  <2>5. \A x \in Orders : Booked(x)' <=> Booked(x) \/ x = o
    BY <2>2 DEF Booked, n
  <2>6. \A x \in Orders : position'[x] = "CLOSED" <=> Booked(x)'
    BY <2>4, <2>5 DEF SettledOnce
  <2>7. \A x \in Orders : journal'[x] # None => Booked(x)'
    BY <2>4, <2>5 DEF SettledOnce
  <2>8. \A i \in 1..n+1 : journal'[ledger'[i].pos] =
              [pnl |-> ledger'[i].pnl, cycle |-> ledger'[i].cycle]
    BY <2>2, <2>3, <2>4 DEF SettledOnce, n
  <2>9. \A i, j \in 1..n+1 : ledger'[i].pos = ledger'[j].pos => i = j
    BY <2>2, <2>3 DEF SettledOnce, n
  <2>10. QED
    BY <2>2, <2>6, <2>7, <2>8, <2>9 DEF SettledOnce
<1>3. CASE Recover
  BY <1>1, <1>3, RecoverFindsNothing DEF Recover
<1>4. ASSUME NEW o \in Orders, ApplyFill(o), UNCHANGED <<ledger, journal>>
      PROVE SettledOnce'
  <2>1. position[o] = "ABSENT" /\ position'[o] = "OPEN"
    BY <1>4 DEF ApplyFill, Allowed, TypeOK, ExecutionConsistent, PositionStatus
  <2>2. \A x \in Orders : position'[x] = "CLOSED" <=> position[x] = "CLOSED"
    BY <1>4, <2>1 DEF ApplyFill, TypeOK
  <2>3. QED
    BY <1>4, <2>2 DEF SettledOnce, Booked
<1>5. ASSUME NEW o \in Orders, CheckFill(o) PROVE SettledOnce'
  BY <1>4, <1>5 DEF CheckFill
<1>6. CASE ExecuteFill
  BY <1>4, <1>6 DEF ExecuteFill, TypeOK
<1>7. QED
  BY <1>1, <1>2, <1>3, <1>5, <1>6
     DEF Next, CycleStep, StepFails, SettleRefused, CheckConflict, SubmitStuck,
         SubmitConflict, Fail, Manage, SettlementDone, RemovePending, ChecksDone,
         Enqueue, FinishCycle, CheckUnfilled, Resubmit, Select, StartCycle, Crash,
         Restart, SubmitNew, ExecuteReject, ExecuteAccept, db, loop, vars

(* The process's account follows the persisted equity.                     *)
LEMMA AccountStep ==
    ASSUME TypeOK, AccountInSync, [Next]_vars
    PROVE  AccountInSync'
<1> USE DEF AccountInSync
<1>1. ASSUME NEW o \in Orders, Settle(o) PROVE AccountInSync'
  BY <1>1, Books DEF Settle
<1>2. QED
  BY <1>1
     DEF Next, CycleStep, StepFails, SettleRefused, CheckConflict, SubmitStuck,
         SubmitConflict, Fail, Manage, SettlementDone, RemovePending, ChecksDone,
         Enqueue, FinishCycle, CheckUnfilled, Resubmit, Select, StartCycle, Crash,
         Restart, Recover, CheckFill, ExecuteFill, SubmitNew, ExecuteReject,
         ExecuteAccept, ApplyFill, db, loop, vars

(* Only a started cycle runs.                                              *)
LEMMA StartedStep ==
    ASSUME TypeOK, RunningIsStarted, [Next]_vars
    PROVE  RunningIsStarted'
<1> USE DEF RunningIsStarted
<1>1. ASSUME NEW c \in Cycles, StartCycle(c) PROVE RunningIsStarted'
  BY <1>1 DEF StartCycle, TypeOK
<1>2. QED
  BY <1>1
     DEF Next, CycleStep, StepFails, SettleRefused, CheckConflict, SubmitStuck,
         SubmitConflict, Fail, Manage, SettlementDone, RemovePending, ChecksDone,
         Enqueue, FinishCycle, CheckUnfilled, Resubmit, Select, Crash, Settle,
         Restart, Recover, CheckFill, ExecuteFill, SubmitNew, ExecuteReject,
         ExecuteAccept, ApplyFill, db, loop, vars

(* Exits in hand are of open positions.                                    *)
LEMMA ClosingStep ==
    ASSUME TypeOK, ClosingIsOpen, ExecutionConsistent, [Next]_vars
    PROVE  ClosingIsOpen'
<1> USE DEF ClosingIsOpen
<1>1. CASE closing' = Nothing
  BY <1>1 DEF Nothing
<1>2. CASE UNCHANGED <<closing, position, pc>>
  BY <1>2
<1>3. CASE Manage
  BY <1>3 DEF Manage, db
<1>4. ASSUME NEW o \in Orders, Settle(o) PROVE ClosingIsOpen'
  BY <1>4 DEF Settle, TypeOK
<1>5. CASE pc # "settle" /\ UNCHANGED closing
  BY <1>5
<1>6. QED
  BY <1>1, <1>2, <1>3, <1>4, <1>5
     DEF Next, CycleStep, StepFails, SettleRefused, CheckConflict, SubmitStuck,
         SubmitConflict, Fail, SettlementDone, RemovePending, ChecksDone,
         Enqueue, FinishCycle, CheckUnfilled, Resubmit, Select, StartCycle, Crash,
         Restart, Recover, CheckFill, ExecuteFill, SubmitNew, ExecuteReject,
         ExecuteAccept, db, loop, vars

(* Pending rows are of accepted limit orders.                              *)
LEMMA PendingStep ==
    ASSUME TypeOK, PendingBacked, InProgress, [Next]_vars
    PROVE  PendingBacked'
<1> USE DEF PendingBacked
<1>1. CASE UNCHANGED <<order, pending>>
  BY <1>1
<1>2. CASE RemovePending
  BY <1>2 DEF RemovePending, TypeOK
<1>3. ASSUME NEW o \in Orders, CheckFill(o) PROVE PendingBacked'
  BY <1>3 DEF CheckFill, ApplyFill, TypeOK
<1>4. ASSUME NEW o \in Orders, NEW s \in {"ACCEPTED", "REJECTED"}, CheckUnfilled(o, s)
      PROVE PendingBacked'
  BY <1>4 DEF CheckUnfilled, TypeOK, InProgress
<1>5. ASSUME NEW o \in Orders, SubmitNew(o) PROVE PendingBacked'
  BY <1>5 DEF SubmitNew, TypeOK
<1>6. CASE ExecuteFill
  BY <1>6 DEF ExecuteFill, ApplyFill, TypeOK, InProgress
<1>7. CASE ExecuteReject
  BY <1>7 DEF ExecuteReject, TypeOK, InProgress
<1>8. CASE ExecuteAccept
  BY <1>8 DEF ExecuteAccept, TypeOK, InProgress
<1>9. CASE Enqueue
  BY <1>9 DEF Enqueue, TypeOK, InProgress
<1>10. ASSUME NEW o \in Orders, Resubmit(o) PROVE PendingBacked'
  BY <1>10 DEF Resubmit, TypeOK, InProgress
<1>11. QED
  BY <1>1, <1>2, <1>3, <1>4, <1>5, <1>6, <1>7, <1>8, <1>9, <1>10
     DEF Next, CycleStep, StepFails, SettleRefused, CheckConflict, SubmitStuck,
         SubmitConflict, Fail, Manage, SettlementDone, ChecksDone, FinishCycle,
         Select, StartCycle, Crash, Restart, Recover, Settle, db, loop, vars

(* What one commit leaves for the next commit of the same handler.         *)
LEMMA InProgressStep ==
    ASSUME TypeOK, InProgress, [Next]_vars
    PROVE  InProgress'
<1> USE DEF InProgress
<1>1. CASE UNCHANGED <<order, pending, checking, pc, current>>
  BY <1>1
<1>2. ASSUME UNCHANGED <<order, pending>>, checking' = {},
             pc' \notin {"execute", "enqueue", "remove"}
      PROVE  InProgress'
  BY <1>2
<1>3. ASSUME UNCHANGED <<order, pending, checking>>,
             pc \notin {"check", "remove"},
             pc' \notin {"execute", "enqueue", "remove"}
      PROVE  InProgress'
  BY <1>3
<1>4. CASE SettlementDone
  BY <1>4 DEF SettlementDone, db
<1>5. CASE RemovePending
  BY <1>5 DEF RemovePending, TypeOK
<1>6. CASE ChecksDone
  BY <1>6 DEF ChecksDone, db
<1>7. ASSUME NEW o \in Orders, CheckFill(o) PROVE InProgress'
  BY <1>7 DEF CheckFill, ApplyFill, TypeOK
<1>8. ASSUME NEW o \in Orders, NEW s \in {"ACCEPTED", "REJECTED"}, CheckUnfilled(o, s)
      PROVE InProgress'
  BY <1>8 DEF CheckUnfilled, TypeOK
<1>9. ASSUME NEW o \in Orders, SubmitNew(o) PROVE InProgress'
  BY <1>9 DEF SubmitNew, TypeOK
<1>10. CASE ExecuteFill
  BY <1>10 DEF ExecuteFill, ApplyFill, TypeOK
<1>11. CASE ExecuteReject
  BY <1>11 DEF ExecuteReject, TypeOK
<1>12. CASE ExecuteAccept
  BY <1>12 DEF ExecuteAccept, TypeOK, loop
<1>13. CASE Enqueue
  BY <1>13 DEF Enqueue, TypeOK
<1>14. ASSUME NEW o \in Orders, Resubmit(o) PROVE InProgress'
  BY <1>14 DEF Resubmit, TypeOK
<1>15. CASE Running /\ Fail
  BY <1>2, <1>15 DEF Fail
<1>16. QED
  BY <1>1, <1>2, <1>3, <1>4, <1>5, <1>6, <1>7, <1>8, <1>9, <1>10, <1>11, <1>12,
     <1>13, <1>14, <1>15
     DEF Next, CycleStep, StepFails, SettleRefused, CheckConflict, SubmitStuck,
         SubmitConflict, Manage, FinishCycle, Select, StartCycle, Crash, Restart,
         Recover, Settle, db, loop, vars
-----------------------------------------------------------------------------
LEMMA InitInv == Init => Inv
<1> SUFFICES ASSUME Init PROVE Inv
  OBVIOUS
<1>1. TypeOK
  BY InitType
<1>2. LedgerChain /\ SettledOnce
  BY DEF Init, LedgerChain, SettledOnce, Booked, Nothing
<1>3. QED
  BY <1>1, <1>2
     DEF Init, Inv, ExecutionConsistent, AccountInSync, PendingBacked,
         RunningIsStarted, ClosingIsOpen, InProgress, Nothing

LEMMA InvStep == Inv /\ [Next]_vars => Inv'
<1> SUFFICES ASSUME Inv, [Next]_vars PROVE Inv'
  OBVIOUS
<1> USE DEF Inv
<1>1. TypeOK' /\ ExecutionConsistent' /\ LedgerChain' /\ SettledOnce'
  BY TypeStep, ExecutionStep, LedgerStep, SettledStep
<1>2. AccountInSync' /\ PendingBacked' /\ RunningIsStarted' /\ ClosingIsOpen'
        /\ InProgress'
  BY AccountStep, PendingStep, StartedStep, ClosingStep, InProgressStep
<1>3. QED
  BY <1>1, <1>2

(* Inv holds in every reachable state, for any number of orders, cycles,   *)
(* crashes and failures.                                                   *)
THEOREM Invariance == Spec => []Inv
  BY InitInv, InvStep, PTL DEF Spec

(* The state of the database and of the process always has its type.       *)
THEOREM TypeCorrect == Spec => []TypeOK
<1>1. Inv => TypeOK
  BY DEF Inv
<1>2. QED
  BY <1>1, Invariance, PTL

(* No crash or exception separates an order's result, fill and position:   *)
(* restart recovery never finds anything to repair.                        *)
THEOREM ExecutionAtomic == Spec => []ExecutionConsistent
<1>1. Inv => ExecutionConsistent
  BY DEF Inv
<1>2. QED
  BY <1>1, Invariance, PTL

(* The persisted equity is always what the ledger's chain of settlements   *)
(* leads to from the initial equity.                                       *)
THEOREM LedgerExplainsEquity == Spec => []LedgerChain
<1>1. Inv => LedgerChain
  BY DEF Inv
<1>2. QED
  BY <1>1, Invariance, PTL

(* Each closed position is in the ledger and the journal once, and alike.  *)
THEOREM SettlementExactlyOnce == Spec => []SettledOnce
<1>1. Inv => SettledOnce
  BY DEF Inv
<1>2. QED
  BY <1>1, Invariance, PTL

(* A live process never disagrees with the database about its equity.      *)
THEOREM AccountFollowsDatabase == Spec => []AccountInSync
<1>1. Inv => AccountInSync
  BY DEF Inv
<1>2. QED
  BY <1>1, Invariance, PTL

(* No pending row is ever of an order that is not an accepted limit order. *)
THEOREM PendingRowsBacked == Spec => []PendingBacked
<1>1. Inv => PendingBacked
  BY DEF Inv
<1>2. QED
  BY <1>1, Invariance, PTL
-----------------------------------------------------------------------------
(* A repeated fill or a recovery never touches a closed position.          *)
LEMMA ReopenStep ==
    ASSUME Inv, [Next]_vars
    PROVE  \A o \in Orders : position[o] = "CLOSED" => position'[o] = "CLOSED"
<1> USE DEF Inv
<1>1. CASE UNCHANGED position
  BY <1>1
<1>2. CASE Recover
  BY <1>2, RecoverFindsNothing
<1>3. ASSUME NEW o \in Orders, Settle(o) PROVE UNCHANGED position \/ position' = [position EXCEPT ![o] = "CLOSED"]
  BY <1>3 DEF Settle
<1>4. ASSUME NEW x \in Orders, ApplyFill(x)
      PROVE  \A o \in Orders : position[o] = "CLOSED" => position'[o] = "CLOSED"
  BY <1>4 DEF ApplyFill, Allowed, TypeOK, ExecutionConsistent
<1>5. QED
  BY <1>1, <1>2, <1>3, <1>4
     DEF Next, CycleStep, StepFails, SettleRefused, CheckConflict, SubmitStuck,
         SubmitConflict, Fail, Manage, SettlementDone, RemovePending, ChecksDone,
         Enqueue, FinishCycle, CheckUnfilled, Resubmit, Select, StartCycle, Crash,
         Restart, SubmitNew, ExecuteReject, ExecuteAccept, CheckFill, ExecuteFill,
         TypeOK, db, loop, vars

(* No step of a run, a crash or a restart reopens a closed position.       *)
THEOREM ClosedForGood == Spec => NeverReopened
<1>1. Inv /\ [Next]_vars =>
        [\A o \in Orders : position[o] = "CLOSED" => position'[o] = "CLOSED"]_vars
  BY ReopenStep
<1>2. QED
  BY <1>1, Invariance, PTL DEF Spec, NeverReopened

(* What one step does to the ledger: nothing, or one settlement.           *)
LEMMA LedgerMove ==
    ASSUME Inv, [Next]_vars
    PROVE  \/ UNCHANGED <<equity, ledger>>
           \/ \E o \in Orders : Settle(o) /\ ~Booked(o)
<1>1. ASSUME NEW o \in Orders, Settle(o), Booked(o) PROVE UNCHANGED <<equity, ledger>>
  BY <1>1 DEF Settle
<1>2. QED
  BY <1>1
     DEF Next, CycleStep, StepFails, SettleRefused, CheckConflict, SubmitStuck,
         SubmitConflict, Fail, Manage, SettlementDone, RemovePending, ChecksDone,
         Enqueue, FinishCycle, CheckUnfilled, Resubmit, Select, StartCycle, Crash,
         Restart, Recover, CheckFill, ExecuteFill, SubmitNew, ExecuteReject,
         ExecuteAccept, ApplyFill, db, loop, vars

(* The persisted equity moves only with an appended settlement.            *)
THEOREM EquityMovesBySettlement == Spec => EquityOnlyBySettlement
<1> DEFINE A == equity' # equity =>
          \E o \in Orders :
              /\ position[o] = "OPEN" /\ position'[o] = "CLOSED"
              /\ Len(ledger') = Len(ledger) + 1
              /\ SubSeq(ledger', 1, Len(ledger)) = ledger
              /\ ledger'[Len(ledger')].pos = o
<1>1. ASSUME Inv, [Next]_vars PROVE A
  <2> SUFFICES ASSUME equity' # equity PROVE A
    OBVIOUS
  <2>1. PICK o \in Orders : Settle(o) /\ ~Booked(o)
    BY <1>1, LedgerMove
  <2>2. /\ ledger \in Seq(LedgerEntry) /\ ledger' \in Seq(LedgerEntry)
        /\ Len(ledger) \in Nat /\ Len(ledger') = Len(ledger) + 1
        /\ ledger'[Len(ledger) + 1] = Entry(o)
        /\ \A i \in 1..Len(ledger) : ledger'[i] = ledger[i]
    BY <1>1, <2>1, Books DEF Inv, TypeOK
  <2>3. position[o] = "OPEN" /\ position'[o] = "CLOSED"
    BY <1>1, <2>1, Books DEF Inv, TypeOK, ClosingIsOpen, Settle
  <2>4. SubSeq(ledger', 1, Len(ledger)) = ledger
    <3>1. \A i \in 1..Len(ledger) : ledger'[i] \in LedgerEntry
      BY <2>2, ElementOfSeq
    <3>2. /\ SubSeq(ledger', 1, Len(ledger)) \in Seq(LedgerEntry)
          /\ Len(SubSeq(ledger', 1, Len(ledger))) = Len(ledger)
          /\ \A i \in 1..Len(ledger) : SubSeq(ledger', 1, Len(ledger))[i] = ledger'[i]
      BY <2>2, <3>1, SubSeqProperties
    <3>3. QED
      BY <2>2, <3>2, SeqEqual
  <2>5. QED
    BY <2>2, <2>3, <2>4 DEF Entry
<1>2. Inv /\ [Next]_vars => [A]_vars
  BY <1>1
<1>3. QED
  BY <1>2, Invariance, PTL DEF Spec, EquityOnlyBySettlement

(* A completed cycle id is final and never settles anything again.         *)
THEOREM CompletedCyclesFinal == Spec => CompletedIsFinal
<1> DEFINE A == \A c \in Cycles : audit[c] = "COMPLETED" =>
          /\ audit'[c] = "COMPLETED"
          /\ \A i \in Len(ledger)+1 .. Len(ledger') : ledger'[i].cycle # c
<1>1. ASSUME Inv, [Next]_vars PROVE A
  <2> SUFFICES ASSUME NEW c \in Cycles, audit[c] = "COMPLETED" PROVE
          /\ audit'[c] = "COMPLETED"
          /\ \A i \in Len(ledger)+1 .. Len(ledger') : ledger'[i].cycle # c
    OBVIOUS
  <2>1. Running => cycle # c /\ cycle \in Cycles
    BY <1>1 DEF Inv, RunningIsStarted, TypeOK
  <2>2. audit'[c] = "COMPLETED"
    BY <1>1, <2>1
       DEF Next, CycleStep, StepFails, SettleRefused, CheckConflict, SubmitStuck,
         SubmitConflict, Fail, Manage, SettlementDone, RemovePending, ChecksDone,
         Enqueue, FinishCycle, CheckUnfilled, Resubmit, Select, StartCycle, Crash,
         Restart, Recover, CheckFill, ExecuteFill, SubmitNew, ExecuteReject,
         ExecuteAccept, Settle, db, loop, vars, Inv, TypeOK
  <2>3. CASE UNCHANGED <<equity, ledger>>
    <3>1. Len(ledger) \in Nat
      BY <1>1 DEF Inv, TypeOK
    <3>2. QED
      BY <2>2, <2>3, <3>1
  <2>4. ASSUME NEW o \in Orders, Settle(o), ~Booked(o)
        PROVE \A i \in Len(ledger)+1 .. Len(ledger') : ledger'[i].cycle # c
    <3>1. /\ Len(ledger) \in Nat /\ Len(ledger') = Len(ledger) + 1
          /\ ledger'[Len(ledger) + 1] = Entry(o)
      BY <1>1, <2>4, Books DEF Inv
    <3>2. Entry(o).cycle # c
      BY <2>1, <2>4 DEF Entry, Settle
    <3>3. QED
      BY <3>1, <3>2
  <2>5. QED
    BY <1>1, <2>2, <2>3, <2>4, LedgerMove
<1>2. Inv /\ [Next]_vars => [A]_vars
  BY <1>1
<1>3. QED
  BY <1>2, Invariance, PTL DEF Spec, CompletedIsFinal
-----------------------------------------------------------------------------
(* The refinement.  Under Inv a life is never "lost".                      *)
BookedOf == [o \in Orders |-> IF journal[o] = None THEN None ELSE journal[o].pnl]

LEMMA BookInitial == Init => Book!BookInit
  BY DEF Init, Nothing, Book!BookInit, Life

(* A step that changes neither order rows, positions, the journal nor the  *)
(* equity is invisible in the book.                                        *)
LEMMA BookStutter ==
    ASSUME UNCHANGED <<order, position, journal, equity>>
    PROVE  UNCHANGED Book!bookVars
  BY DEF Book!bookVars, Life

(* One order's life changes and nothing else.                              *)
LEMMA BookMove ==
    ASSUME NEW o \in Orders, NEW from, NEW to,
           Life(o) = from, Life(o)' = to,
           \A x \in Orders \ {o} : Life(x)' = Life(x),
           UNCHANGED <<journal, equity>>
    PROVE  /\ Book!Move(o, from, to)
           /\ UNCHANGED <<BookedOf, equity>>
  BY DEF Book!Move, BookedOf

LEMMA BookFill ==
    ASSUME Inv, NEW o \in Orders, ApplyFill(o), UNCHANGED <<journal, equity>>
    PROVE  Book!Open(o)
<1>1. order[o] \in {"PENDING", "ACCEPTED"} /\ Life(o) \in {"submitted", "working"}
  BY DEF ApplyFill, Allowed, Life
<1>2. Life(o)' = "open" /\ \A x \in Orders \ {o} : Life(x)' = Life(x)
  BY DEF ApplyFill, Life, Inv, TypeOK
<1>3. QED
  BY <1>1, <1>2, BookMove DEF Book!Open, BookedOf

LEMMA BookSettle ==
    ASSUME Inv, NEW o \in Orders, Settle(o), ~Booked(o)
    PROVE  Book!Close(o, closing[o]) /\ closing[o] \in PnLs
<1> USE DEF Inv
<1>1. Life(o) = "open"
  BY DEF Settle, ClosingIsOpen, ExecutionConsistent, Life
<1>2. Life(o)' = "closed" /\ \A x \in Orders \ {o} : Life(x)' = Life(x)
  <2>1. order' = order /\ order[o] = "FILLED"
    BY DEF Settle, ClosingIsOpen, ExecutionConsistent
  <2>2. position' = [position EXCEPT ![o] = "CLOSED"]
    BY Books
  <2>3. QED
    BY <2>1, <2>2 DEF Life, TypeOK
<1>3. [x \in Orders |-> Life(x)]' = [[x \in Orders |-> Life(x)] EXCEPT ![o] = "closed"]
  BY <1>2
<1>4. BookedOf' = [BookedOf EXCEPT ![o] = closing[o]]
  <2>1. journal' = [journal EXCEPT ![o] = [pnl |-> closing[o], cycle |-> cycle]]
    BY Books
  <2>2. [pnl |-> closing[o], cycle |-> cycle] # None
    BY EntryType, NoneAssumption DEF JournalEntry
  <2>3. QED
    BY <2>1, <2>2 DEF BookedOf, TypeOK
<1>5. equity' = equity + closing[o] /\ equity + closing[o] >= 0 /\ closing[o] \in PnLs
  BY Books, EntryType
<1>6. QED
  BY <1>1, <1>3, <1>4, <1>5 DEF Book!Close, Book!Move, BookedOf

LEMMA BookStep == Inv /\ [Next]_vars => [Book!BookNext]_(Book!bookVars)
<1> SUFFICES ASSUME Inv, [Next]_vars PROVE [Book!BookNext]_(Book!bookVars)
  OBVIOUS
<1> USE DEF Inv
<1>1. CASE UNCHANGED <<order, position, journal, equity>>
  BY <1>1, BookStutter
<1>2. CASE Recover
  BY <1>1, <1>2, RecoverFindsNothing DEF Recover
<1>3. ASSUME NEW o \in Orders, Settle(o) PROVE [Book!BookNext]_(Book!bookVars)
  <2>1. ~Booked(o)
    BY <1>3 DEF Settle, ClosingIsOpen, SettledOnce
  <2>2. Book!Close(o, closing[o]) /\ closing[o] \in PnLs
    BY <1>3, <2>1, BookSettle
  <2>3. PICK p \in PnLs : p = closing[o]
    BY <2>2
  <2>4. Book!Close(o, p)
    BY <2>2, <2>3 DEF Book!Close
  <2>5. QED
    BY <2>4 DEF Book!BookNext
<1>4. ASSUME NEW o \in Orders, CheckFill(o) PROVE Book!BookNext
  BY <1>4, BookFill DEF CheckFill, Book!BookNext
<1>5. CASE ExecuteFill
  <2>1. PICK o \in Orders : o = current
    BY <1>5 DEF ExecuteFill, TypeOK
  <2>2. ApplyFill(o) /\ UNCHANGED <<journal, equity>>
    BY <1>5, <2>1 DEF ExecuteFill
  <2>3. QED
    BY <2>2, BookFill DEF Book!BookNext
<1>6. ASSUME NEW o \in Orders, SubmitNew(o) PROVE Book!BookNext
  <2>1. /\ Life(o) = "new" /\ Life(o)' = "submitted"
        /\ \A x \in Orders \ {o} : Life(x)' = Life(x)
    BY <1>6 DEF SubmitNew, Life, TypeOK
  <2>2. Book!Place(o)
    BY <1>6, <2>1, BookMove DEF SubmitNew, Book!Place, BookedOf
  <2>3. QED
    BY <2>2 DEF Book!BookNext
<1>7. CASE ExecuteReject
  <2>1. PICK o \in Orders : o = current
    BY <1>7 DEF ExecuteReject, TypeOK
  <2>2. /\ order[o] = "PENDING" /\ position' = position
        /\ order' = [order EXCEPT ![o] = "REJECTED"]
        /\ UNCHANGED <<journal, equity>>
    BY <1>7, <2>1 DEF ExecuteReject, InProgress
  <2>3. /\ Life(o) = "submitted" /\ Life(o)' = "rejected"
        /\ \A x \in Orders \ {o} : Life(x)' = Life(x)
    BY <2>2 DEF Life, TypeOK
  <2>4. Book!Refuse(o)
    BY <1>7, <2>1, <2>2, <2>3, BookMove DEF ExecuteReject, Book!Refuse, BookedOf
  <2>5. QED
    BY <2>4 DEF Book!BookNext
<1>8. CASE ExecuteAccept
  <2>1. PICK o \in Orders : o = current
    BY <1>8 DEF ExecuteAccept, TypeOK
  <2>2. /\ order[o] = "PENDING" /\ position' = position
        /\ order' = [order EXCEPT ![o] = "ACCEPTED"]
        /\ UNCHANGED <<journal, equity>>
    BY <1>8, <2>1 DEF ExecuteAccept, InProgress
  <2>3. /\ Life(o) = "submitted" /\ Life(o)' = "working"
        /\ \A x \in Orders \ {o} : Life(x)' = Life(x)
    BY <2>2 DEF Life, TypeOK
  <2>4. Book!Work(o)
    BY <1>8, <2>1, <2>2, <2>3, BookMove DEF ExecuteAccept, Book!Work, BookedOf
  <2>5. QED
    BY <2>4 DEF Book!BookNext
<1>9. QED
  BY <1>1, <1>2, <1>3, <1>4, <1>5, <1>6, <1>7, <1>8
     DEF Next, CycleStep, StepFails, SettleRefused, CheckConflict, SubmitStuck,
         SubmitConflict, Fail, Manage, SettlementDone, RemovePending, ChecksDone,
         Enqueue, FinishCycle, CheckUnfilled, Resubmit, Select, StartCycle, Crash,
         Restart, db, loop, vars

(* Whatever crashes, fails or is repeated, the runtime behaves as the      *)
(* trade book: one submission, one decision, one fill, one close per order.*)
THEOREM RuntimeImplementsBook == Spec => ImplementsTradeBook
  BY BookInitial, BookStep, Invariance, PTL DEF Spec, ImplementsTradeBook, Book!BookSpec
=============================================================================
