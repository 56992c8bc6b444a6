-------------------------- MODULE MarketHistoryProofs --------------------------
(***************************************************************************)
(* Proofs about MarketHistory, for any number of syncs, any calendar, any  *)
(* choice of runs and any days that Yahoo returns broken.                  *)
(***************************************************************************)
EXTENDS MarketHistory, FiniteSetTheorems, WellFoundedInduction, TLAPS

(***************************************************************************)
(* The inductive invariant.                                                *)
(***************************************************************************)

(* A running sync has rows, of a period of the calendar, between the fetch *)
(* and the record.                                                         *)
GateShape ==
    [pc : {"fetch", "put", "verify"}, kind : GateKinds, request : Requests, base : Nat,
     period : 1 .. MonthCount + 1, rows : SUBSET Days, left : SUBSET Days,
     partitions : SUBSET Partitions]
YahooShape ==
    [pc : {"fetch", "put", "verify", "finish"}, kind : YahooKinds, request : Ends, base : Nat,
     period : Nat, rows : SUBSET Days, left : SUBSET Days, partitions : SUBSET Partitions]
GateSyncs == {sync \in GateShape : sync.pc # "fetch" => sync.rows # {} /\ sync.period \in Months}
YahooSyncs ==
    {sync \in YahooShape : sync.pc \in {"put", "verify"} => sync.rows # {} /\ sync.period \in Years}
Syncs == GateSyncs \cup YahooSyncs

TypeInv ==
    /\ archived \in SUBSET Days
    /\ object \in [Keys -> SUBSET Days]
    /\ job \in [Jobs -> {Idle} \cup Syncs]
    /\ runs \in Seq(Summaries)

(* A published contract names one of its runs, a complete one; a plain run *)
(* of Gate only if there was no stitching one.                             *)
Published == 1 .. Len(runs)
ContractInv ==
    contract = NoContract \/
        /\ contract.status \in Qualified
        /\ contract.manifests \subseteq Published
        /\ contract.run \in contract.manifests
        /\ runs[contract.run].status \in Complete
        /\ runs[contract.run].kind \in GateKinds =>
               \A i \in contract.manifests :
                   runs[i].kind = "continuity" => runs[contract.run].kind = "continuity"

(* What a backtest has loaded and what it has yet to load are together     *)
(* what its run recorded.                                                  *)
BacktestInv ==
    \/ backtest.pc \in {"idle", "pending", "failed"}
    \/ /\ backtest.pc = "loading"
       /\ backtest = [pc |-> "loading", run |-> backtest.run, todo |-> backtest.todo,
                      loaded |-> backtest.loaded]
       /\ backtest.run \in Published
       /\ backtest.loaded \cup Observed(backtest.todo) = Observed(runs[backtest.run].partitions)
    \/ /\ backtest.pc = "complete"
       /\ backtest.run \in Published
       /\ backtest.loaded = Observed(runs[backtest.run].partitions)

Contiguous(summary) ==
    summary.kind \in GateKinds /\ summary.status = "COMPLETE" =>
        LET days == Observed(summary.partitions)
        IN  \A d \in Days : First(days) <= d /\ d <= Last(days) => d \in days
RunsInv == \A i \in Published : Contiguous(runs[i])

Inv == TypeInv /\ RunsInv /\ ContractInv /\ BacktestInv
-----------------------------------------------------------------------------
(***************************************************************************)
(* The calendar.                                                           *)
(***************************************************************************)

LEMMA ProductMonotone ==
    ASSUME NEW a \in Nat, NEW b \in Nat, NEW d \in Nat, a <= b
    PROVE  a * d <= b * d
<1>1. PICK k \in Nat : b = a + k
  <2>1. b - a \in Nat /\ b = a + (b - a)
    OBVIOUS
  <2>2. QED
    BY <2>1
<1>2. (a + k) * d = a * d + k * d
  BY SMTT(30)
<1>3. k * d \in Nat /\ a * d \in Nat
  BY SMTT(30)
<1>4. QED
  BY <1>1, <1>2, <1>3

(* The quotient is the number of whole periods before the day.             *)
LEMMA QuotientBelow ==
    ASSUME NEW x \in Nat, NEW d \in Nat \ {0}, NEW k \in Nat, x < k * d
    PROVE  x \div d \in Nat /\ x \div d < k
<1> DEFINE q == x \div d
<1>1. q \in Nat /\ x = d * q + (x % d) /\ x % d \in 0 .. (d - 1)
  BY SMTT(30)
<1>2. CASE k <= q
  <2>1. k * d <= q * d
    BY <1>1, <1>2, ProductMonotone
  <2>2. q * d = d * q /\ q * d \in Nat /\ k * d \in Nat
    BY <1>1, SMTT(30)
  <2>3. QED
    BY <1>1, <2>1, <2>2
<1>3. QED
  BY <1>1, <1>2

LEMMA QuotientMonotone ==
    ASSUME NEW x \in Nat, NEW y \in Nat, NEW d \in Nat \ {0}, x <= y
    PROVE  x \div d \in Nat /\ y \div d \in Nat /\ x \div d <= y \div d
<1> DEFINE q == y \div d
<1>1. q \in Nat /\ y = d * q + (y % d) /\ y % d \in 0 .. (d - 1)
  BY SMTT(30)
<1>2. (q + 1) * d = d * q + d /\ d * q \in Nat
  BY <1>1, SMTT(30)
<1>3. x < (q + 1) * d
  BY <1>1, <1>2
<1>4. x \div d < q + 1 /\ x \div d \in Nat
  BY <1>1, <1>3, QuotientBelow
<1>5. QED
  BY <1>1, <1>4

(* There are days, and each is of a month and of a year of the calendar.   *)
LEMMA Calendar ==
    /\ Horizon \in Nat \ {0}
    /\ \A d \in Days : MonthOf(d) \in Months /\ YearOf(d) \in Years
<1>1. Horizon \in Nat \ {0}
  BY SizesAssumption, SMTT(30) DEF Horizon
<1>2. ASSUME NEW d \in Days
      PROVE  MonthOf(d) \in Months /\ YearOf(d) \in Years
  <2>1. d - 1 \in Nat /\ d - 1 < MonthCount * DaysPerMonth /\ d - 1 <= Horizon - 1 /\ Horizon - 1 \in Nat
    BY <1>1 DEF Days, Horizon
  <2>2. (d - 1) \div DaysPerMonth \in Nat /\ (d - 1) \div DaysPerMonth < MonthCount
    BY <2>1, QuotientBelow, SizesAssumption
  <2>3. /\ (d - 1) \div DaysPerYear \in Nat
        /\ (Horizon - 1) \div DaysPerYear \in Nat
        /\ (d - 1) \div DaysPerYear <= (Horizon - 1) \div DaysPerYear
    BY <2>1, QuotientMonotone, SizesAssumption
  <2>4. MonthOf(d) \in Months
    BY <2>2, SizesAssumption DEF MonthOf, Months
  <2>5. YearOf(d) \in Years
    BY <2>3 DEF YearOf, Years
  <2>6. QED
    BY <2>4, <2>5
<1>3. QED
  BY <1>1, <1>2

(* A set of days, or of positions, that is not empty has a first and a last. *)
LEMMA Extremes ==
    ASSUME NEW n \in Nat, NEW S \in SUBSET (1 .. n), S # {}
    PROVE  /\ First(S) \in S /\ \A x \in S : First(S) <= x
           /\ Last(S) \in S /\ \A x \in S : Last(S) >= x
<1>1. IsWellFoundedOn(OpToRel(<, Nat), Nat)
  BY NatLessThanWellFounded
<1>2. S \subseteq Nat
  OBVIOUS
<1>3. PICK x \in S : \A y \in S : ~(<<y, x>> \in OpToRel(<, Nat))
  BY <1>1, <1>2, WFMin
<1>4. \A y \in S : x <= y
  <2>1. SUFFICES ASSUME NEW y \in S
                 PROVE  x <= y
    OBVIOUS
  <2>2. x \in Nat /\ y \in Nat /\ ~(y < x)
    BY <1>2, <1>3 DEF OpToRel
  <2>3. QED
    BY <2>2
<1>5. First(S) \in S /\ \A y \in S : First(S) <= y
  BY <1>3, <1>4 DEF First
<1> DEFINE Gaps == {n - y : y \in S}
<1>6. Gaps \subseteq Nat /\ Gaps # {}
  <2>1. \A y \in S : n - y \in Nat
    OBVIOUS
  <2>2. QED
    BY <2>1
<1>7. PICK g \in Gaps : \A h \in Gaps : ~(<<h, g>> \in OpToRel(<, Nat))
  BY <1>1, <1>6, WFMin
<1>8. PICK z \in S : g = n - z
  OBVIOUS
<1>9. ASSUME NEW y \in S
      PROVE  z >= y
  <2>1. n - y \in Gaps /\ n - y \in Nat
    BY <1>6
  <2>2. ~(n - y < g)
    BY <2>1, <1>6, <1>7 DEF OpToRel
  <2>3. QED
    BY <2>2, <1>8
<1>10. Last(S) \in S /\ \A y \in S : Last(S) >= y
  BY <1>8, <1>9 DEF Last
<1>11. QED
  BY <1>5, <1>10

(* Rows that are as many as the days from the first to the last are all of *)
(* them.                                                                   *)
LEMMA NothingMissing ==
    ASSUME NEW partitions \in SUBSET Partitions, partitions # {}, ~MissingInside(partitions)
    PROVE  LET days == Observed(partitions)
           IN  \A d \in Days : First(days) <= d /\ d <= Last(days) => d \in days
<1> DEFINE days == Observed(partitions)
<1>1. days \subseteq Days /\ days # {}
  <2>1. \A p \in partitions : p.days \in (SUBSET Days) \ {{}}
    BY DEF Partitions
  <2>2. QED
    BY <2>1 DEF Observed
<1>2. Horizon \in Nat
  BY Calendar
<1>3. /\ First(days) \in days /\ \A d \in days : First(days) <= d
      /\ Last(days) \in days /\ \A d \in days : Last(days) >= d
  BY <1>1, <1>2, Extremes DEF Days
<1>4. PICK a \in Days, b \in Days : a = First(days) /\ b = Last(days)
  BY <1>1, <1>3
<1>5. a \in Int /\ b \in Int /\ a <= b
  BY <1>3, <1>4 DEF Days
<1>6. ~(Cardinality(days) < b - a + 1)
  BY <1>4 DEF MissingInside
<1> HIDE DEF days
<1>7. IsFiniteSet(a .. b) /\ Cardinality(a .. b) = b - a + 1
  BY <1>5, FS_Interval
<1>8. days \in SUBSET (a .. b)
  BY <1>1, <1>3, <1>4, <1>5 DEF Days
<1>9. /\ IsFiniteSet(days) /\ Cardinality(days) <= Cardinality(a .. b)
      /\ Cardinality(a .. b) = Cardinality(days) => a .. b = days
  BY <1>7, <1>8, FS_Subset
<1>10. Cardinality(days) \in Nat
  BY <1>9, FS_CardinalityType
<1>11. a .. b = days
  BY <1>5, <1>6, <1>7, <1>9, <1>10
<1>12. \A d \in Days : a <= d /\ d <= b => d \in days
  BY <1>5, <1>11 DEF Days
<1>13. QED
  BY <1>4, <1>12 DEF days

(* A Gate sync that says COMPLETE recorded rows without a gap.             *)
LEMMA StatusIsHonest ==
    ASSUME NEW partitions \in SUBSET Partitions, NEW kind
    PROVE  /\ Status(partitions) \in Statuses
           /\ Contiguous([kind |-> kind, status |-> Status(partitions), partitions |-> partitions])
<1>1. Status(partitions) \in Statuses
  BY DEF Status, Statuses, Complete
<1>2. Status(partitions) = "COMPLETE" => partitions # {} /\ ~MissingInside(partitions)
  BY DEF Status
<1>3. QED
  BY <1>1, <1>2, NothingMissing DEF Contiguous

-----------------------------------------------------------------------------
(***************************************************************************)
(* The steps of a sync.                                                    *)
(***************************************************************************)

(* A range of Gate starts and ends on a day.                               *)
LEMMA RequestDays ==
    ASSUME NEW request \in Requests
    PROVE  request[1] \in Days /\ request[2] \in Days
  BY RequestsAssumption

LEMMA StartedIsSync ==
    ASSUME NEW kind \in Kinds, NEW base \in Nat, NEW request,
           request \in IF kind \in GateKinds THEN Requests ELSE Ends
    PROVE  Started(kind, request, base) \in Syncs
<1>1. CASE kind \in GateKinds
  <2>1. ListingFloor(kind, request)[1] \in Days
    BY <1>1, RequestDays, SizesAssumption DEF ListingFloor
  <2>2. MonthOf(ListingFloor(kind, request)[1]) \in Months
    BY <2>1, Calendar
  <2>3. MonthOf(ListingFloor(kind, request)[1]) \in 1 .. MonthCount + 1
    BY <2>2, SizesAssumption DEF Months
  <2>4. Started(kind, request, base) \in GateShape /\ Started(kind, request, base).pc = "fetch"
    BY <1>1, <2>3 DEF Started, GateShape
  <2>5. QED
    BY <2>4 DEF Syncs, GateSyncs
<1>2. CASE kind \in YahooKinds
  <2>1. kind \notin GateKinds
    BY <1>2 DEF GateKinds, YahooKinds
  <2>2. Started(kind, request, base) \in YahooShape /\ Started(kind, request, base).pc = "fetch"
    BY <1>2, <2>1 DEF Started, YahooShape
  <2>3. QED
    BY <2>2 DEF Syncs, YahooSyncs
<1>3. QED
  BY <1>1, <1>2 DEF Kinds

(* The rows of a year are some of the days.                                *)
LEMMA GroupIsSync ==
    ASSUME NEW sync \in YahooShape, NEW days \in SUBSET Days, days # {}
    PROVE  GroupYears(sync, days) \in Syncs
<1>1. PICK first \in days : first = First(days)
  BY Calendar, Extremes DEF Days
<1>2. PICK year \in Years : year = YearOf(first)
  BY <1>1, Calendar
<1>3. PICK rows \in SUBSET Days : rows = {d \in days : YearOf(d) = year}
  OBVIOUS
<1>4. rows # {}
  BY <1>1, <1>2, <1>3
<1>5. year \in Nat
  BY <1>2 DEF Years
<1>6. GroupYears(sync, days) =
        [sync EXCEPT !.pc = "put", !.period = year, !.rows = rows, !.left = days \ rows]
  BY <1>1, <1>2, <1>3 DEF GroupYears
<1>7. GroupYears(sync, days) \in YahooShape
  BY <1>3, <1>5, <1>6 DEF YahooShape
<1>8. GroupYears(sync, days).rows # {} /\ GroupYears(sync, days).period \in Years
  BY <1>2, <1>4, <1>6 DEF YahooShape
<1>9. QED
  BY <1>7, <1>8 DEF Syncs, YahooSyncs

(* A key of the bucket for what a sync has fetched.                        *)
LEMMA KeyOfRows ==
    ASSUME NEW j \in Jobs, job[j] \in Syncs, job[j].pc \in {"put", "verify"}
    PROVE  Key(j) \in Keys
<1>1. CASE job[j] \in GateSyncs
  <2>1. job[j].kind \in GateKinds /\ job[j].request \in Requests /\ job[j].period \in Months
    BY <1>1 DEF GateSyncs, GateShape
  <2>2. job[j].request[2] \in 0 .. Horizon /\ 0 \in 0 .. Horizon
    BY <2>1, RequestDays, Calendar DEF Days
  <2>3. PICK snapshot \in 0 .. Horizon :
          Key(j) = [month |-> job[j].period, snapshot |-> snapshot]
    BY <2>1, <2>2 DEF Key, PartitionKey
  <2>4. QED
    BY <2>1, <2>3 DEF Keys
<1>2. CASE job[j] \in YahooSyncs
  <2>1. job[j].kind \notin GateKinds /\ job[j].period \in Years
    BY <1>2 DEF YahooSyncs, YahooShape, GateKinds, YahooKinds
  <2>2. Key(j) = [year |-> job[j].period]
    BY <2>1 DEF Key, YearKey
  <2>3. QED
    BY <2>1, <2>2 DEF Keys
<1>3. QED
  BY <1>1, <1>2 DEF Syncs

(* A recorded partition has rows; the sync goes on.                        *)
LEMMA RecordedIsSync ==
    ASSUME NEW sync \in Syncs, sync.pc \in {"put", "verify"}, NEW key \in Keys
    PROVE  (IF Recorded(sync, key).kind \in GateKinds THEN NextMonth(Recorded(sync, key))
            ELSE RecordYear(Recorded(sync, key))) \in Syncs
<1>1. CASE sync \in GateSyncs
  <2>1. sync \in GateShape /\ sync.rows # {} /\ sync.period \in Months
    BY <1>1 DEF GateSyncs
  <2>2. [key |-> key, days |-> sync.rows] \in Partitions
    BY <2>1 DEF Partitions, GateShape
  <2>3. PICK recorded \in GateShape :
          /\ recorded = Recorded(sync, key)
          /\ recorded.period = sync.period
          /\ recorded.kind \in GateKinds
    <3>1. PICK partitions \in SUBSET Partitions :
            partitions = sync.partitions \cup {[key |-> key, days |-> sync.rows]}
      BY <2>1, <2>2 DEF GateShape
    <3>2. Recorded(sync, key) = [sync EXCEPT !.partitions = partitions, !.rows = {}]
      BY <3>1 DEF Recorded
    <3>3. [sync EXCEPT !.partitions = partitions, !.rows = {}] \in GateShape
      BY <2>1 DEF GateShape
    <3>4. /\ [sync EXCEPT !.partitions = partitions, !.rows = {}].kind = sync.kind
          /\ [sync EXCEPT !.partitions = partitions, !.rows = {}].period = sync.period
      BY <2>1 DEF GateShape
    <3>5. sync.kind \in GateKinds
      BY <2>1 DEF GateShape, GateKinds, YahooKinds
    <3>6. QED
      BY <3>2, <3>3, <3>4, <3>5
  <2>4. recorded.period + 1 \in 1 .. MonthCount + 1
    BY <2>1, <2>3, SizesAssumption DEF Months
  <2>5. NextMonth(recorded) \in GateShape /\ NextMonth(recorded).pc = "fetch"
    BY <2>4 DEF NextMonth, GateShape
  <2>6. QED
    BY <2>3, <2>5 DEF Syncs, GateSyncs
<1>2. CASE sync \in YahooSyncs
  <2>1. sync \in YahooShape /\ sync.rows # {}
    BY <1>2 DEF YahooSyncs
  <2>2. [key |-> key, days |-> sync.rows] \in Partitions
    BY <2>1 DEF Partitions, YahooShape
  <2>3. PICK recorded \in YahooShape :
          /\ recorded = Recorded(sync, key)
          /\ recorded.kind \notin GateKinds
    <3>1. PICK partitions \in SUBSET Partitions :
            partitions = sync.partitions \cup {[key |-> key, days |-> sync.rows]}
      BY <2>1, <2>2 DEF YahooShape
    <3>2. Recorded(sync, key) = [sync EXCEPT !.partitions = partitions, !.rows = {}]
      BY <3>1 DEF Recorded
    <3>3. [sync EXCEPT !.partitions = partitions, !.rows = {}] \in YahooShape
      BY <2>1 DEF YahooShape
    <3>4. /\ [sync EXCEPT !.partitions = partitions, !.rows = {}].kind = sync.kind
          /\ [sync EXCEPT !.partitions = partitions, !.rows = {}].period = sync.period
      BY <2>1 DEF YahooShape
    <3>5. sync.kind \notin GateKinds
      BY <2>1 DEF YahooShape, GateKinds, YahooKinds
    <3>6. QED
      BY <3>2, <3>3, <3>4, <3>5
  <2>4. CASE recorded.left = {}
    <3>1. /\ RecordYear(recorded) \in YahooShape
          /\ RecordYear(recorded).pc = "finish"
      BY <2>4 DEF RecordYear, YahooShape
    <3>2. QED
      BY <2>3, <3>1 DEF Syncs, YahooSyncs
  <2>5. CASE recorded.left # {}
    <3>1. recorded.left \in SUBSET Days
      BY DEF YahooShape
    <3>2. RecordYear(recorded) = GroupYears(recorded, recorded.left)
      BY <2>5 DEF RecordYear
    <3>3. QED
      BY <2>3, <2>5, <3>1, <3>2, GroupIsSync
  <2>6. QED
    BY <2>4, <2>5
<1>3. QED
  BY <1>1, <1>2 DEF Syncs

(***************************************************************************)
(* A step of the syncs leaves what was published as it was.                *)
(***************************************************************************)

LEMMA Unpublished ==
    ASSUME Inv, UNCHANGED <<runs, contract, backtest>>
    PROVE  RunsInv' /\ ContractInv' /\ BacktestInv' /\ runs' \in Seq(Summaries)
  BY DEF Inv, TypeInv, RunsInv, ContractInv, BacktestInv, Published

LEMMA OneMorePublished ==
    ASSUME Inv, UNCHANGED <<contract, backtest>>,
           NEW summary \in Summaries, Contiguous(summary), Publish(summary)
    PROVE  RunsInv' /\ ContractInv' /\ BacktestInv' /\ runs' \in Seq(Summaries)
<1>1. runs \in Seq(Summaries) /\ runs' = Append(runs, summary)
  BY DEF Inv, TypeInv, Publish
<1>2. /\ runs' \in Seq(Summaries)
      /\ Len(runs') = Len(runs) + 1 /\ Len(runs) \in Nat
      /\ \A i \in 1 .. Len(runs) : runs'[i] = runs[i]
      /\ runs'[Len(runs) + 1] = summary
  BY <1>1
<1>3. Published \subseteq Published' /\ \A i \in Published : runs'[i] = runs[i]
  BY <1>2 DEF Published
<1>4. RunsInv'
  <2>1. SUFFICES ASSUME NEW i \in Published'
                 PROVE  Contiguous(runs'[i])
    BY DEF RunsInv
  <2>2. CASE i \in Published
    BY <1>3, <2>2 DEF Inv, RunsInv
  <2>3. CASE i \notin Published
    <3>1. i = Len(runs) + 1
      BY <1>2, <2>1, <2>3 DEF Published
    <3>2. QED
      BY <1>2, <3>1
  <2>4. QED
    BY <2>2, <2>3
<1>5. ContractInv'
  <2>1. contract' = contract
    OBVIOUS
  <2>2. CASE contract = NoContract
    BY <2>1, <2>2 DEF ContractInv
  <2>3. CASE contract # NoContract
    <3>1. /\ contract.status \in Qualified
          /\ contract.manifests \subseteq Published
          /\ contract.run \in contract.manifests
          /\ runs[contract.run].status \in Complete
          /\ runs[contract.run].kind \in GateKinds =>
                 \A i \in contract.manifests :
                     runs[i].kind = "continuity" => runs[contract.run].kind = "continuity"
      BY <2>3 DEF Inv, ContractInv
    <3>2. \A i \in contract.manifests : runs'[i] = runs[i]
      BY <1>3, <3>1
    <3>3. QED
      BY <1>3, <2>1, <3>1, <3>2 DEF ContractInv
  <2>4. QED
    BY <2>2, <2>3
<1>6. BacktestInv'
  <2>1. backtest' = backtest
    OBVIOUS
  <2>2. BacktestInv
    BY DEF Inv
  <2>3. QED
    BY <1>3, <2>1, <2>2 DEF BacktestInv
<1>7. QED
  BY <1>2, <1>4, <1>5, <1>6

-----------------------------------------------------------------------------
(***************************************************************************)
(* Each action keeps the invariant.                                        *)
(***************************************************************************)

LEMMA InitStep == Init => Inv
<1>1. SUFFICES ASSUME Init
               PROVE  Inv
  OBVIOUS
<1>2. archived \in SUBSET Days /\ object \in [Keys -> SUBSET Days]
  BY <1>1 DEF Init, Absent
<1>3. job \in [Jobs -> {Idle} \cup Syncs]
  BY <1>1 DEF Init
<1>4. runs = <<>> /\ runs \in Seq(Summaries) /\ Published = {}
  BY <1>1 DEF Init, Published
<1>5. ContractInv /\ BacktestInv
  BY <1>1 DEF Init, ContractInv, BacktestInv, NoBacktest
<1>6. QED
  BY <1>2, <1>3, <1>4, <1>5 DEF Inv, TypeInv, RunsInv

LEMMA PublishFileStep ==
    ASSUME Inv, NEW d \in Days, PublishFile(d)
    PROVE  Inv'
<1>1. RunsInv' /\ ContractInv' /\ BacktestInv' /\ runs' \in Seq(Summaries)
  BY Unpublished DEF PublishFile
<1>2. QED
  BY <1>1 DEF PublishFile, Inv, TypeInv

(* A step of one sync that publishes nothing.                              *)
LEMMA SyncStep ==
    ASSUME Inv, NEW j \in Jobs, NEW sync \in {Idle} \cup Syncs,
           job' = [job EXCEPT ![j] = sync], object' \in [Keys -> SUBSET Days],
           UNCHANGED <<archived, runs, contract, backtest>>
    PROVE  Inv'
<1>1. RunsInv' /\ ContractInv' /\ BacktestInv' /\ runs' \in Seq(Summaries)
  BY Unpublished
<1>2. job' \in [Jobs -> {Idle} \cup Syncs] /\ archived' \in SUBSET Days
  BY DEF Inv, TypeInv
<1>3. QED
  BY <1>1, <1>2 DEF Inv, TypeInv

LEMMA DispatchStep ==
    ASSUME Inv, NEW j \in Jobs, NEW kind \in Kinds, NEW base \in Nat, NEW request,
           request \in IF kind \in GateKinds THEN Requests ELSE Ends,
           Dispatch(j, kind, request, base)
    PROVE  Inv'
<1>1. Started(kind, request, base) \in Syncs
  BY StartedIsSync
<1>2. QED
  BY <1>1, SyncStep DEF Dispatch, Inv, TypeInv

(* What a running sync was dispatched for.                                 *)
LEMMA RunningSync ==
    ASSUME Inv, NEW j \in Jobs, job[j] # Idle
    PROVE  /\ job[j] \in Syncs
           /\ job[j].kind \in Kinds /\ job[j].base \in Nat
           /\ job[j].request \in IF job[j].kind \in GateKinds THEN Requests ELSE Ends
           /\ job[j].partitions \in SUBSET Partitions
<1>1. job[j] \in Syncs
  BY DEF Inv, TypeInv
<1>2. CASE job[j] \in GateSyncs
  BY <1>1, <1>2 DEF GateSyncs, GateShape, Kinds
<1>3. CASE job[j] \in YahooSyncs
  <2>1. job[j] \in YahooShape
    BY <1>3 DEF YahooSyncs
  <2>2. job[j].kind \in YahooKinds /\ job[j].kind \notin GateKinds
    BY <2>1 DEF YahooShape, GateKinds, YahooKinds
  <2>3. QED
    BY <1>1, <2>1, <2>2 DEF YahooShape, Kinds
<1>4. QED
  BY <1>1, <1>2, <1>3 DEF Syncs

LEMMA RetryStep ==
    ASSUME Inv, NEW j \in Jobs, Retry(j)
    PROVE  Inv'
<1>1. job[j] # Idle
  BY DEF Retry
<1>2. Started(job[j].kind, job[j].request, job[j].base) \in Syncs
  BY <1>1, RunningSync, StartedIsSync
<1>3. job' = [job EXCEPT ![j] = Started(job[j].kind, job[j].request, job[j].base)]
  BY DEF Retry
<1>4. QED
  BY <1>2, <1>3, SyncStep DEF Retry, Inv, TypeInv

(* A sync that is at work is one of Gate or of Yahoo.                      *)
LEMMA GateAtWork ==
    ASSUME Inv, NEW j \in Jobs, job[j].pc # "idle", job[j].kind \in GateKinds
    PROVE  job[j] \in GateSyncs
<1>1. job[j] \in Syncs
  BY DEF Inv, TypeInv, Idle
<1>2. QED
  BY <1>1 DEF Syncs, YahooSyncs, YahooShape, GateKinds, YahooKinds

LEMMA YahooAtWork ==
    ASSUME Inv, NEW j \in Jobs, job[j].pc # "idle", job[j].kind \in YahooKinds
    PROVE  job[j] \in YahooSyncs
<1>1. job[j] \in Syncs
  BY DEF Inv, TypeInv, Idle
<1>2. QED
  BY <1>1 DEF Syncs, GateSyncs, GateShape, GateKinds, YahooKinds

LEMMA FetchMonthStep ==
    ASSUME Inv, NEW j \in Jobs, FetchMonth(j)
    PROVE  Inv'
<1>1. job[j] \in GateSyncs /\ job[j] \in GateShape
  <2>1. job[j] \in GateSyncs
    BY GateAtWork DEF FetchMonth
  <2>2. QED
    BY <2>1 DEF GateSyncs
<1>2. PICK rows \in FetchMonth5m(job[j].kind, job[j].request, job[j].period) :
        job' = [job EXCEPT ![j] = IF rows = {} THEN NextMonth(@)
                                  ELSE [@ EXCEPT !.pc = "put", !.rows = rows]]
  BY DEF FetchMonth
<1>3. rows \in SUBSET Days
  BY DEF FetchMonth5m, ArchiveRows, RestRows, DaysOf
<1>4. job[j].period \in Months
  <2>1. job[j].period \in 1 .. MonthCount + 1 /\ job[j].request \in Requests
    BY <1>1 DEF GateShape
  <2>2. LastMonth(j) \in Months
    BY <2>1, RequestDays, Calendar DEF LastMonth
  <2>3. job[j].period <= LastMonth(j)
    BY DEF FetchMonth
  <2>4. QED
    BY <2>1, <2>2, <2>3, SizesAssumption DEF Months
<1>5. CASE rows = {}
  <2>1. job[j].period + 1 \in 1 .. MonthCount + 1
    BY <1>4, SizesAssumption DEF Months
  <2>2. NextMonth(job[j]) \in GateShape /\ NextMonth(job[j]).pc = "fetch"
    BY <1>1, <2>1 DEF NextMonth, GateShape
  <2>3. NextMonth(job[j]) \in Syncs
    BY <2>2 DEF Syncs, GateSyncs
  <2>4. job' = [job EXCEPT ![j] = NextMonth(job[j])]
    BY <1>2, <1>5
  <2>5. QED
    BY <2>3, <2>4, SyncStep DEF FetchMonth, Inv, TypeInv
<1>6. CASE rows # {}
  <2>1. /\ [job[j] EXCEPT !.pc = "put", !.rows = rows] \in GateShape
        /\ [job[j] EXCEPT !.pc = "put", !.rows = rows].rows = rows
        /\ [job[j] EXCEPT !.pc = "put", !.rows = rows].period \in Months
    BY <1>1, <1>3, <1>4 DEF GateShape
  <2>2. PICK sync \in Syncs : sync = [job[j] EXCEPT !.pc = "put", !.rows = rows]
    BY <1>6, <2>1 DEF Syncs, GateSyncs
  <2>3. job' = [job EXCEPT ![j] = sync]
    BY <1>2, <1>6, <2>2
  <2>4. QED
    BY <2>2, <2>3, SyncStep DEF FetchMonth, Inv, TypeInv
<1>7. QED
  BY <1>5, <1>6

LEMMA FetchChartStep ==
    ASSUME Inv, NEW j \in Jobs, FetchChart(j)
    PROVE  Inv'
<1>1. job[j] \in YahooShape
  <2>1. job[j] \in YahooSyncs
    BY YahooAtWork DEF FetchChart
  <2>2. QED
    BY <2>1 DEF YahooSyncs
<1>2. PICK days \in Chart(job[j].kind, job[j].request) \ {{}} :
        job' = [job EXCEPT ![j] = GroupYears(@, days)]
  BY DEF FetchChart
<1>3. days \in SUBSET Days /\ days # {}
  BY DEF Chart
<1>4. GroupYears(job[j], days) \in Syncs
  BY <1>1, <1>3, GroupIsSync
<1>5. job' = [job EXCEPT ![j] = GroupYears(job[j], days)]
  BY <1>2
<1>6. QED
  BY <1>4, <1>5, SyncStep DEF FetchChart, Inv, TypeInv

LEMMA RecordStep ==
    ASSUME Inv, NEW j \in Jobs, job[j].pc \in {"put", "verify"}, Record(j),
           UNCHANGED <<archived, object, runs, contract, backtest>>
    PROVE  Inv'
<1>1. job[j] \in Syncs
  BY DEF Inv, TypeInv, Idle
<1>2. PICK key \in Keys : key = Key(j)
  BY <1>1, KeyOfRows
<1>3. PICK sync \in Syncs :
        sync = IF Recorded(job[j], key).kind \in GateKinds THEN NextMonth(Recorded(job[j], key))
               ELSE RecordYear(Recorded(job[j], key))
  BY <1>1, RecordedIsSync
<1>4. job' = [job EXCEPT ![j] = sync]
  BY <1>2, <1>3 DEF Record
<1>5. QED
  BY <1>4, SyncStep DEF Inv, TypeInv

LEMMA PutStep ==
    ASSUME Inv, NEW j \in Jobs, Put(j)
    PROVE  Inv'
<1>1. job[j] \in Syncs /\ job[j].pc = "put"
  BY DEF Inv, TypeInv, Idle, Put
<1>2. Key(j) \in Keys
  BY <1>1, KeyOfRows
<1>3. [job[j] EXCEPT !.pc = "verify"] \in Syncs /\ job[j].rows \in SUBSET Days
  <2>1. CASE job[j] \in GateSyncs
    <3>1. job[j] \in GateShape /\ job[j].rows # {} /\ job[j].period \in Months
      BY <1>1, <2>1 DEF GateSyncs
    <3>2. /\ [job[j] EXCEPT !.pc = "verify"] \in GateShape
          /\ [job[j] EXCEPT !.pc = "verify"].rows = job[j].rows
          /\ [job[j] EXCEPT !.pc = "verify"].period = job[j].period
          /\ job[j].rows \in SUBSET Days
      BY <3>1 DEF GateShape
    <3>3. QED
      BY <3>1, <3>2 DEF Syncs, GateSyncs
  <2>2. CASE job[j] \in YahooSyncs
    <3>1. job[j] \in YahooShape /\ job[j].rows # {} /\ job[j].period \in Years
      BY <1>1, <2>2 DEF YahooSyncs
    <3>2. /\ [job[j] EXCEPT !.pc = "verify"] \in YahooShape
          /\ [job[j] EXCEPT !.pc = "verify"].rows = job[j].rows
          /\ [job[j] EXCEPT !.pc = "verify"].period = job[j].period
          /\ job[j].rows \in SUBSET Days
      BY <3>1 DEF YahooShape
    <3>3. QED
      BY <3>1, <3>2 DEF Syncs, YahooSyncs
  <2>3. QED
    BY <1>1, <2>1, <2>2 DEF Syncs
<1>4. object' \in [Keys -> SUBSET Days]
  BY <1>2, <1>3 DEF Put, Inv, TypeInv
<1>5. job' = [job EXCEPT ![j] = [job[j] EXCEPT !.pc = "verify"]]
  BY DEF Put
<1>6. QED
  BY <1>3, <1>4, <1>5, SyncStep DEF Put

(* A sync that ends and publishes its summary.                             *)
LEMMA EndStep ==
    ASSUME Inv, NEW j \in Jobs, NEW summary \in Summaries, Contiguous(summary), Publish(summary),
           job' = [job EXCEPT ![j] = Idle], UNCHANGED <<archived, object, contract, backtest>>
    PROVE  Inv'
<1>1. RunsInv' /\ ContractInv' /\ BacktestInv' /\ runs' \in Seq(Summaries)
  BY OneMorePublished
<1>2. job' \in [Jobs -> {Idle} \cup Syncs]
  BY DEF Inv, TypeInv
<1>3. QED
  BY <1>1, <1>2 DEF Inv, TypeInv

LEMMA FinishStep ==
    ASSUME Inv, NEW j \in Jobs, Finish(j)
    PROVE  Inv'
<1>1. job[j] # Idle /\ job[j].kind \in GateKinds
  BY DEF Finish, Idle
<1>2. PICK partitions \in SUBSET Partitions, kind \in GateKinds :
        partitions = job[j].partitions /\ kind = job[j].kind
  BY <1>1, RunningSync
<1>3. Status(partitions) \in Statuses
  BY StatusIsHonest
<1>4. PICK summary \in Summaries :
        summary = [kind |-> kind, status |-> Status(partitions), partitions |-> partitions]
  BY <1>3 DEF Summaries, Kinds
<1>5. Contiguous(summary)
  BY <1>4, StatusIsHonest
<1>6. Publish(summary)
  BY <1>2, <1>4 DEF Finish
<1>7. QED
  BY <1>5, <1>6, EndStep DEF Finish

LEMMA FinishChartStep ==
    ASSUME Inv, NEW j \in Jobs, FinishChart(j)
    PROVE  Inv'
<1>1. job[j] \in YahooSyncs
  <2>1. job[j] \in Syncs /\ job[j].pc = "finish"
    BY DEF FinishChart, Inv, TypeInv, Idle
  <2>2. QED
    BY <2>1 DEF Syncs, GateSyncs, GateShape
<1>2. PICK partitions \in SUBSET Partitions, kind \in YahooKinds :
        partitions = job[j].partitions /\ kind = job[j].kind
  BY <1>1 DEF YahooSyncs, YahooShape
<1>3. PICK summary \in Summaries :
        summary = [kind |-> kind, status |-> "COMPLETE", partitions |-> partitions]
  BY DEF Summaries, Kinds, Statuses, Complete
<1>4. Contiguous(summary)
  BY <1>3 DEF Contiguous, GateKinds, YahooKinds
<1>5. Publish(summary)
  BY <1>2, <1>3 DEF FinishChart, MergeRepair
<1>6. QED
  BY <1>4, <1>5, EndStep DEF FinishChart

LEMMA FailStep ==
    ASSUME Inv, NEW j \in Jobs, Fail(j)
    PROVE  Inv'
<1>1. job[j].kind \in Kinds
  BY RunningSync DEF Fail
<1>2. CASE UNCHANGED runs
  BY <1>2, SyncStep DEF Fail, Inv, TypeInv
<1>3. CASE Publish([kind |-> job[j].kind, status |-> "ERROR", partitions |-> {}])
  <2>1. PICK summary \in Summaries :
          summary = [kind |-> job[j].kind, status |-> "ERROR", partitions |-> {}]
    BY <1>1 DEF Summaries, Statuses
  <2>2. Contiguous(summary)
    BY <2>1 DEF Contiguous
  <2>3. Publish(summary)
    BY <1>3, <2>1
  <2>4. QED
    BY <2>2, <2>3, EndStep DEF Fail
<1>4. QED
  BY <1>2, <1>3 DEF Fail

(* Of chosen runs, one that has a source's summary is taken.               *)
LEMMA ForemostIsOne ==
    ASSUME NEW sources, sources # {}
    PROVE  Foremost(sources) \in sources
<1>1. CASE \E k \in sources : runs[k].kind \in GateKinds
  BY <1>1 DEF Foremost
<1>2. CASE ~ \E k \in sources : runs[k].kind \in GateKinds
  BY <1>2 DEF Foremost
<1>3. QED
  BY <1>1, <1>2

LEMMA PreferredIsSource ==
    ASSUME NEW sources, sources # {}
    PROVE  Preferred(sources) \in sources
<1> DEFINE ready == {i \in sources : Ready(i)}
<1>1. (IF ready # {} THEN ready ELSE sources) # {} /\ (IF ready # {} THEN ready ELSE sources) \subseteq sources
  OBVIOUS
<1>2. QED
  BY <1>1, ForemostIsOne DEF Preferred

(* If a plain run stands for the Gate route then no stitching one is among *)
(* the chosen.                                                             *)
LEMMA MergeKeepsContinuity ==
    ASSUME NEW chosen \in SUBSET Published, Len(runs) \in Nat, NEW i \in Sources(chosen),
           runs[i].kind \in GateKinds
    PROVE  \A k \in chosen : runs[k].kind = "continuity" => runs[i].kind = "continuity"
<1>1. SUFFICES ASSUME NEW k \in chosen, runs[k].kind = "continuity"
               PROVE  runs[i].kind = "continuity"
  OBVIOUS
<1> DEFINE gate == OfKinds(chosen, GateKinds)
           stitched == OfKinds(gate, {"continuity"})
<1>2. i \in gate /\ i = MergeGateRuns(gate)
  BY DEF Sources, OfKinds
<1>3. k \in stitched /\ stitched \in SUBSET (1 .. Len(runs))
  BY <1>1 DEF OfKinds, GateKinds, Published
<1>4. Last(stitched) \in stitched
  BY <1>3, Extremes
<1>5. i = Last(stitched)
  BY <1>2, <1>3 DEF MergeGateRuns
<1>6. QED
  BY <1>4, <1>5 DEF OfKinds

LEMMA QualifyStep ==
    ASSUME Inv, NEW chosen \in SUBSET Published, Qualify(chosen)
    PROVE  Inv'
<1>1. Sources(chosen) # {}
  BY DEF Qualify, Qualification, Qualified
<1>2. PICK i \in Sources(chosen) : i = Preferred(Sources(chosen))
  BY <1>1, PreferredIsSource
<1>3. Qualification(chosen).run = i
  BY <1>1, <1>2 DEF Qualification
<1>4. Len(runs) \in Nat
  BY DEF Inv, TypeInv
<1>5. i \in chosen /\ runs[i].status \in Complete
  BY DEF Sources
<1>6. runs[i].kind \in GateKinds =>
        \A k \in chosen : runs[k].kind = "continuity" => runs[i].kind = "continuity"
  BY <1>4, MergeKeepsContinuity
<1>7. PICK status \in Qualified : status = Qualification(chosen).status
  BY DEF Qualify
<1>8. contract' = [status |-> status, run |-> i, manifests |-> chosen]
  BY <1>3, <1>7 DEF Qualify
<1>9. ContractInv'
  BY <1>5, <1>6, <1>8 DEF Qualify, ContractInv, Published
<1>10. BacktestInv'
  BY DEF Qualify, BacktestInv, NoBacktest
<1>11. QED
  BY <1>9, <1>10 DEF Qualify, Inv, TypeInv, RunsInv, Published

(* What is loaded and what is to be loaded make up what was recorded.      *)
LEMMA StartBacktestStep ==
    ASSUME Inv, StartBacktest
    PROVE  Inv'
<1>1. ContractInv' /\ RunsInv' /\ TypeInv'
  BY DEF StartBacktest, Inv, ContractInv, RunsInv, TypeInv, Published
<1>2. CASE contract.status = "QUALIFIED"
  <2>1. /\ contract.manifests \subseteq Published
        /\ contract.run \in contract.manifests
        /\ runs[contract.run].status \in Complete
    BY <1>2 DEF Inv, ContractInv, NoContract
  <2> DEFINE source == SourceOf(runs[contract.run].kind)
             of == {i \in contract.manifests : SourceOf(runs[i].kind) = source /\ runs[i].status \in Complete}
  <2>2. contract.run \in of /\ of \in SUBSET (1 .. Len(runs)) /\ Len(runs) \in Nat
    BY <2>1 DEF Published, Inv, TypeInv
  <2>3. PICK i \in Published : i = Last(of)
    BY <2>2, Extremes DEF Published
  <2>4. backtest' = [pc |-> "loading", run |-> i, todo |-> runs[i].partitions, loaded |-> {}]
    BY <1>2, <2>3 DEF StartBacktest, SelectSourceSummary
  <2>5. runs' = runs
    BY DEF StartBacktest
  <2>6. {} \cup Observed(runs[i].partitions) = Observed(runs[i].partitions)
    OBVIOUS
  <2>7. BacktestInv'
    BY <2>3, <2>4, <2>5, <2>6 DEF BacktestInv, Published
  <2>8. QED
    BY <1>1, <2>7 DEF Inv
<1>3. CASE contract.status # "QUALIFIED"
  <2>1. BacktestInv'
    BY <1>3 DEF StartBacktest, BacktestInv
  <2>2. QED
    BY <1>1, <2>1 DEF Inv
<1>4. QED
  BY <1>2, <1>3

LEMMA LoadStep ==
    ASSUME Inv, NEW p \in backtest.todo, Load(p)
    PROVE  Inv'
<1>1. ContractInv' /\ RunsInv' /\ TypeInv'
  BY DEF Load, Inv, ContractInv, RunsInv, TypeInv, Published
<1>2. CASE object[p.key] = p.days
  <2>1. /\ backtest = [pc |-> "loading", run |-> backtest.run, todo |-> backtest.todo,
                       loaded |-> backtest.loaded]
        /\ backtest.run \in Published
        /\ backtest.loaded \cup Observed(backtest.todo) = Observed(runs[backtest.run].partitions)
    BY DEF Load, Inv, BacktestInv
  <2>2. PICK run, todo, loaded :
          /\ run \in Published
          /\ backtest = [pc |-> "loading", run |-> run, todo |-> todo, loaded |-> loaded]
    BY <2>1
  <2>3. backtest' = [pc |-> "loading", run |-> run, todo |-> todo \ {p}, loaded |-> loaded \cup p.days]
    BY <1>2, <2>2 DEF Load
  <2>4. Observed(todo) = p.days \cup Observed(todo \ {p})
    BY <2>2 DEF Observed
  <2>5. (loaded \cup p.days) \cup Observed(todo \ {p}) = Observed(runs[run].partitions)
    BY <2>1, <2>2, <2>4
  <2>6. runs' = runs
    BY DEF Load
  <2>7. run \in Published /\ Published' = Published
    BY <2>2, <2>6 DEF Published
  <2>8. BacktestInv'
    BY <2>3, <2>5, <2>6, <2>7 DEF BacktestInv
  <2>9. QED
    BY <1>1, <2>8 DEF Inv
<1>3. CASE object[p.key] # p.days
  <2>1. BacktestInv'
    BY <1>3 DEF Load, BacktestInv
  <2>2. QED
    BY <1>1, <2>1 DEF Inv
<1>4. QED
  BY <1>2, <1>3

LEMMA FinishLoadingStep ==
    ASSUME Inv, FinishLoading
    PROVE  Inv'
<1>1. ContractInv' /\ RunsInv' /\ TypeInv'
  BY DEF FinishLoading, Inv, ContractInv, RunsInv, TypeInv, Published
<1>2. backtest.run \in Published /\ backtest.loaded = Observed(runs[backtest.run].partitions)
  BY DEF FinishLoading, Inv, BacktestInv, Observed
<1>3. runs' = runs
  BY DEF FinishLoading
<1>4. BacktestInv'
  BY <1>2, <1>3 DEF FinishLoading, BacktestInv, Published
<1>5. QED
  BY <1>1, <1>4 DEF Inv

LEMMA StutterStep ==
    ASSUME Inv, UNCHANGED vars
    PROVE  Inv'
  BY DEF vars, Inv, TypeInv, RunsInv, ContractInv, BacktestInv, Published

LEMMA NextStep ==
    ASSUME Inv, [Next]_vars
    PROVE  Inv'
<1>1. ASSUME NEW d \in Days, PublishFile(d)
      PROVE  Inv'
  BY <1>1, PublishFileStep
<1>2. ASSUME NEW j \in Jobs, NEW kind \in GateKinds, NEW request \in Requests, Dispatch(j, kind, request, 0)
      PROVE  Inv'
  BY <1>2, DispatchStep DEF Kinds
<1>3. ASSUME NEW j \in Jobs, NEW kind \in YahooKinds, NEW end \in Ends, Dispatch(j, kind, end, 0)
      PROVE  Inv'
  <2>1. kind \notin GateKinds /\ kind \in Kinds
    BY <1>3 DEF GateKinds, YahooKinds, Kinds
  <2>2. QED
    BY <1>3, <2>1, DispatchStep
<1>4. ASSUME NEW j \in Jobs, NEW end \in Ends, NEW base \in Repairable, Dispatch(j, "deep", end, base)
      PROVE  Inv'
  <2>1. "deep" \notin GateKinds /\ "deep" \in Kinds
    BY DEF GateKinds, YahooKinds, Kinds
  <2>2. base \in Nat
    BY <1>4 DEF Repairable
  <2>3. QED
    BY <1>4, <2>1, <2>2, DispatchStep
<1>5. ASSUME NEW j \in Jobs,
             \/ FetchMonth(j) \/ FetchChart(j) \/ ReuseVerified(j) \/ Put(j) \/ Verify(j)
             \/ Finish(j) \/ FinishChart(j) \/ Retry(j) \/ Fail(j)
      PROVE  Inv'
  <2>1. CASE ReuseVerified(j)
    BY <1>5, <2>1, RecordStep DEF ReuseVerified
  <2>2. CASE Verify(j)
    BY <1>5, <2>2, RecordStep DEF Verify
  <2>3. QED
    BY <1>5, <2>1, <2>2, FetchMonthStep, FetchChartStep, PutStep, FinishStep, FinishChartStep,
       RetryStep, FailStep
<1>6. ASSUME NEW chosen \in SUBSET (1 .. Len(runs)), Qualify(chosen)
      PROVE  Inv'
  BY <1>6, QualifyStep DEF Published
<1>7. ASSUME NEW p \in backtest.todo, Load(p)
      PROVE  Inv'
  BY <1>7, LoadStep
<1>8. QED
  BY <1>1, <1>2, <1>3, <1>4, <1>5, <1>6, <1>7, StartBacktestStep, FinishLoadingStep, StutterStep DEF Next
-----------------------------------------------------------------------------
(***************************************************************************)
(* The theorems.                                                           *)
(***************************************************************************)

(* The invariant holds in every state, whatever the syncs, the repairs and *)
(* the retries, and whatever Gate publishes and Yahoo leaves out.          *)
THEOREM Invariance == Spec => []Inv
<1>1. Inv /\ [Next]_vars => Inv'
  BY NextStep
<1>2. QED
  BY InitStep, <1>1, PTL DEF Spec

(* A Gate run that says COMPLETE without gaps has every day between its    *)
(* first row and its last: the number of rows seen over the whole route,   *)
(* not per month, is compared with the span.                               *)
THEOREM CompleteHasNoGap == Spec => []CompleteIsContiguous
<1>1. Inv => CompleteIsContiguous
  BY DEF Inv, RunsInv, Contiguous, CompleteIsContiguous, Published
<1>2. QED
  BY <1>1, Invariance, PTL

(* A backtest that completes has loaded exactly the days that its run      *)
(* recorded, though syncs replace objects while it loads.                  *)
THEOREM BacktestLoadsItsRun == Spec => []LoadedIsRecorded
<1>1. Inv => LoadedIsRecorded
  BY DEF Inv, BacktestInv, LoadedIsRecorded
<1>2. QED
  BY <1>1, Invariance, PTL

(* If a stitching run is among those qualified then no plain run stands    *)
(* for the Gate route.                                                     *)
THEOREM StitchedHistoryIsKept == Spec => []ContinuityKept
<1>1. Inv => ContinuityKept
  BY DEF Inv, ContractInv, ContinuityKept, NoContract
<1>2. QED
  BY <1>1, Invariance, PTL
=============================================================================
