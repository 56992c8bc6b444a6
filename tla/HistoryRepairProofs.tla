------------------------- MODULE HistoryRepairProofs -------------------------
(***************************************************************************)
(* Theorems about HistoryRepair, for every calendar, set of ranges, number *)
(* of timeframes and number of runs; about the quarantine of conflicting   *)
(* rows in HistorySources, for every archive; and about the verdicts of    *)
(* MarketScan, for any markets, routes, workers and deadlines.             *)
(***************************************************************************)
EXTENDS HistoryRepair, HistorySources, MarketScan, WellFoundedInduction, TLAPS

-----------------------------------------------------------------------------
(* Calendar arithmetic.                                                    *)

LEMMA ProductMonotone ==
    ASSUME NEW a \in Nat, NEW b \in Nat, NEW d \in Nat, a <= b
    PROVE  a * d <= b * d
  <1>1. PICK k \in Nat : b = a + k
    <2>1. b - a \in Nat /\ b = a + (b - a)
      OBVIOUS
    <2>2. QED
      BY <2>1
  <1>2. (a + k) * d = a * d + k * d
    BY SMTT(30)
  <1>3. k * d \in Nat /\ a * d \in Nat
    BY SMTT(30)
  <1>4. QED
    BY <1>1, <1>2, <1>3

LEMMA MonthOfDay ==
    ASSUME NEW x \in Nat, NEW d \in Nat \ {0}, NEW k \in Nat, x < k * d
    PROVE  x \div d \in Nat /\ x \div d < k
  <1> DEFINE q == x \div d
  <1>1. q \in Nat /\ x = d * q + (x % d) /\ x % d \in 0 .. (d - 1)
    BY SMTT(30)
  <1>2. CASE k <= q
    <2>1. k * d <= q * d
      BY <1>1, <1>2, ProductMonotone
    <2>2. q * d = d * q /\ q * d \in Nat /\ k * d \in Nat
      BY <1>1, SMTT(30)
    <2>3. QED
      BY <1>1, <2>1, <2>2
  <1>3. QED
    BY <1>1, <1>2

LEMMA MonthsOrdered ==
    ASSUME NEW x \in Nat, NEW y \in Nat, NEW d \in Nat \ {0}, x <= y
    PROVE  x \div d <= y \div d
  <1> DEFINE q == y \div d
  <1>1. q \in Nat /\ y = d * q + (y % d) /\ y % d \in 0 .. (d - 1)
    BY SMTT(30)
  <1>2. (q + 1) * d = d * q + d /\ d * q \in Nat
    BY <1>1, SMTT(30)
  <1>3. x < (q + 1) * d
    BY <1>1, <1>2
  <1>4. x \div d < q + 1 /\ x \div d \in Nat
    BY <1>1, <1>3, MonthOfDay
  <1>5. QED
    BY <1>1, <1>4

(* The part of a request that a unit stands for lies in the year.          *)
LEMMA ChunkInYear ==
    ASSUME NEW r \in [from : 0 .. Horizon, to : 0 .. Horizon], NEW u \in Units
    PROVE  ChunkFrom(r, u) \in 0 .. Horizon /\ ChunkTo(r, u) \in 0 .. Horizon
  <1>1. Horizon \in Nat
    BY SizesAssumption, SMTT(30) DEF Horizon
  <1>2. CASE u = Year
    BY <1>1, <1>2 DEF ChunkFrom, ChunkTo
  <1>3. CASE u \in Months
    <2>1. u - 1 \in Nat /\ u \in Nat /\ u - 1 <= MonthCount /\ u <= MonthCount /\ u # Year
      BY <1>3, SizesAssumption DEF Months, Year
    <2>2. (u - 1) * Days \in Nat /\ u * Days \in Nat
      BY <2>1, SizesAssumption, SMTT(30)
    <2>3. (u - 1) * Days <= Horizon
      BY <2>1, ProductMonotone, SizesAssumption DEF Horizon
    <2>4. QED
      BY <1>1, <2>1, <2>2, <2>3 DEF ChunkFrom, ChunkTo, Larger, Smaller
  <1>4. QED
    BY <1>2, <1>3 DEF Units

(* The whole year gives no unit an empty part.                             *)
LEMMA WholeYear ==
    ASSUME NEW u \in Units
    PROVE  /\ ChunkFrom([from |-> 0, to |-> Horizon], u) \in 0 .. Horizon
           /\ ChunkTo([from |-> 0, to |-> Horizon], u) \in 0 .. Horizon
           /\ ChunkTo([from |-> 0, to |-> Horizon], u) - 1 \in 0 .. Horizon
  <1>1. Horizon \in Nat /\ Horizon >= 1
    BY SizesAssumption, SMTT(30) DEF Horizon
  <1>2. [from |-> 0, to |-> Horizon] \in [from : 0 .. Horizon, to : 0 .. Horizon]
    BY <1>1
  <1>3. ChunkTo([from |-> 0, to |-> Horizon], u) >= 1
    <2>1. CASE u = Year
      BY <1>1, <2>1 DEF ChunkTo
    <2>2. CASE u \in Months
      <3>1. u \in Nat \ {0}
        BY <2>2 DEF Months
      <3>2. u * Days \in Nat /\ u * Days >= 1
        BY <3>1, SizesAssumption, SMTT(30)
      <3>3. QED
        BY <1>1, <3>1, <3>2 DEF ChunkTo, Smaller, Year
    <2>3. QED
      BY <2>1, <2>2 DEF Units
  <1>4. QED
    BY <1>1, <1>2, <1>3, ChunkInYear

(* A request that is not empty begins and ends in months of the year.      *)
LEMMA MonthsOfRequest ==
    ASSUME NEW r \in [from : 0 .. Horizon, to : 0 .. Horizon], r.from < r.to
    PROVE  FirstMonth(r) \in Months /\ LastMonth(r) \in Months /\ FirstMonth(r) <= LastMonth(r)
  <1>1. Horizon \in Nat
    BY SizesAssumption, SMTT(30) DEF Horizon
  <1>2. r.from \in Nat /\ r.to - 1 \in Nat /\ r.from < MonthCount * Days /\ r.to - 1 < MonthCount * Days
    BY <1>1 DEF Horizon
  <1>3. /\ r.from \div Days \in Nat /\ r.from \div Days < MonthCount
        /\ (r.to - 1) \div Days \in Nat /\ (r.to - 1) \div Days < MonthCount
    BY <1>2, MonthOfDay, SizesAssumption
  <1>4. r.from \div Days <= (r.to - 1) \div Days
    BY <1>2, MonthsOrdered, SizesAssumption
  <1>5. QED
    BY <1>3, <1>4, SizesAssumption DEF FirstMonth, LastMonth, Months

-----------------------------------------------------------------------------
(* Type correctness. A run's request is never empty.                       *)

NonemptyRun == pc # "idle" => run.from < run.to
Typed == TypeOK /\ NonemptyRun

LEMMA InitTyped == Init => Typed
  <1>1. SUFFICES ASSUME Init PROVE Typed
    OBVIOUS
  <1>2. PICK stored \in {{}, {Year}, Months} :
          LET whole == [from |-> 0, to |-> Horizon]
              rows(u) == [first |-> ChunkFrom(whole, u), last |-> ChunkTo(whole, u) - 1, revision |-> 0]
          IN
          /\ object = [u \in Units |-> [f \in Frames |-> IF u \in stored THEN rows(u) ELSE None]]
          /\ checkpoint = [u \in Units |->
                IF u \in stored
                THEN [from |-> ChunkFrom(whole, u), to |-> ChunkTo(whole, u),
                      sha256 |-> [f \in Frames |-> rows(u)]]
                ELSE None]
    BY <1>1 DEF Init
  <1> DEFINE whole == [from |-> 0, to |-> Horizon]
             rows(u) == [first |-> ChunkFrom(whole, u), last |-> ChunkTo(whole, u) - 1, revision |-> 0]
  <1>3. \A u \in Units : rows(u) \in Contents
    BY WholeYear, SizesAssumption DEF Contents
  <1>4. \A u \in Units : ChunkFrom(whole, u) \in 0 .. Horizon /\ ChunkTo(whole, u) \in 0 .. Horizon
    BY WholeYear
  <1> HIDE DEF whole, rows
  <1>5. object \in [Units -> [Frames -> Contents \cup {None}]]
    BY <1>2, <1>3 DEF whole, rows
  <1>6. checkpoint \in [Units -> Checkpoints \cup {None}]
    BY <1>2, <1>3, <1>4 DEF whole, rows, Checkpoints
  <1>7. QED
    BY <1>1, <1>5, <1>6, SizesAssumption DEF Init, Typed, TypeOK, NonemptyRun, Units

(* A run begins and ends in months of the year.                            *)
LEMMA RunMonths ==
    ASSUME NEW r \in Runs, r.from < r.to
    PROVE  FirstMonth(r) \in Months /\ LastMonth(r) \in Months /\ FirstMonth(r) <= LastMonth(r)
  <1> DEFINE range == [from |-> r.from, to |-> r.to]
  <1>1. range \in [from : 0 .. Horizon, to : 0 .. Horizon]
    BY DEF Runs
  <1>2. FirstMonth(range) \in Months /\ LastMonth(range) \in Months /\ FirstMonth(range) <= LastMonth(range)
    BY <1>1, MonthsOfRequest
  <1>3. FirstMonth(range) = FirstMonth(r) /\ LastMonth(range) = LastMonth(r)
    BY DEF FirstMonth, LastMonth
  <1>4. QED
    BY <1>2, <1>3

(* What a valid checkpoint stands for.                                     *)
LEMMA ValidCheckpoint ==
    ASSUME Typed, NEW u \in Units, Valid(u)
    PROVE  /\ checkpoint[u] \in Checkpoints
           /\ Recorded(u, checkpoint[u].sha256) \subseteq Partitions
           /\ \A p \in Recorded(u, checkpoint[u].sha256) :
                 /\ p.unit = u /\ p.frame \in Frames /\ p.sha256 = checkpoint[u].sha256[p.frame]
                 /\ p.sha256 = object[u][p.frame]
  <1>1. checkpoint[u] \in Checkpoints
    BY DEF Typed, TypeOK, Valid
  <1>2. \A f \in Frames : checkpoint[u].sha256[f] \in Contents
    BY <1>1 DEF Checkpoints
  <1>3. \A f \in Frames : object[u][f] = checkpoint[u].sha256[f]
    BY DEF Valid
  <1>4. QED
    BY <1>1, <1>2, <1>3 DEF Recorded, Partitions

(* The unit a loop continues with is one of the year.                      *)
LEMMA AdvanceTyped ==
    ASSUME Typed, pc # "idle", Advance
    PROVE  /\ unit' \in Units /\ pc' \in {"month", "finish"}
           /\ fetched' = None /\ frame' \in 0 .. FrameCount
  <1>1. run \in [from : 0 .. Horizon, to : 0 .. Horizon, force : BOOLEAN, scope : Scopes, discovery : Scopes] /\ run.from < run.to
    BY DEF Typed, TypeOK, NonemptyRun, Runs
  <1>2. LastMonth(run) \in Months
    BY <1>1, RunMonths DEF Runs
  <1>3. CASE unit # Year /\ unit < LastMonth(run)
    <2>1. unit \in Months
      BY <1>3 DEF Typed, TypeOK, Units
    <2>2. unit + 1 \in Months
      BY <1>2, <1>3, <2>1, SizesAssumption DEF Months
    <2>3. QED
      BY <1>3, <2>2, SizesAssumption DEF Advance, Units
  <1>4. CASE ~(unit # Year /\ unit < LastMonth(run))
    BY <1>4, SizesAssumption DEF Advance, Typed, TypeOK
  <1>5. QED
    BY <1>3, <1>4

LEMMA StepTyped == Typed /\ [Next]_vars => Typed'
  <1>1. SUFFICES ASSUME Typed, [Next]_vars PROVE Typed'
    OBVIOUS
  <1> USE <1>1
  <1>2. CASE Revise
    <2>1. revision' \in 0 .. MaxRevision
      BY <1>2, SizesAssumption DEF Revise, Typed, TypeOK
    <2>2. UNCHANGED <<provider, listing_limited, object, checkpoint, manifest, published, pc, run, unit, fetched, frame, partitions,
                      runs, qualified, reader, todo, loaded>>
      BY <1>2 DEF Revise, writer, backtest
    <2>3. QED
      BY <2>1, <2>2 DEF Typed, TypeOK, NonemptyRun
  <1>3. ASSUME NEW range \in Ranges, NEW force \in BOOLEAN, NEW discovery \in Scopes,
               NEW choice \in Scopes \cup {"auto"}, Dispatch(range, force, discovery, choice)
        PROVE  Typed'
    <2>1. /\ range[1] \in 0 .. Horizon /\ range[2] \in 0 .. Horizon /\ range[1] < range[2]
      BY RangesAssumption DEF Horizon
    <2>2. run' \in Runs /\ run'.from < run'.to /\ run'.from = range[1] /\ run'.to = range[2]
      BY <1>3, <2>1 DEF Dispatch, Runs, Scopes
    <2>3. FirstMonth(run') \in Months
      BY <2>2, RunMonths
    <2>4. unit' \in Units
      BY <1>3, <2>3 DEF Dispatch, Units
    <2>5. pc' \in {"fetch", "year", "month"}
      BY <1>3 DEF Dispatch
    <2>6. runs' \in 0 .. MaxRuns
      BY <1>3, SizesAssumption DEF Dispatch, Typed, TypeOK
    <2>7. UNCHANGED <<provider, listing_limited, revision, object, checkpoint, manifest, published, qualified, reader, todo, loaded,
                      fetched, frame, partitions>>
      BY <1>3 DEF Dispatch, backtest
    <2>8. QED
      BY <2>2, <2>4, <2>5, <2>6, <2>7 DEF Typed, TypeOK, NonemptyRun
  <1>4. CASE YearReused
    <2>1. Valid(Year) /\ Year \in Units
      BY <1>4 DEF YearReused, Units
    <2>2. partitions' \subseteq Partitions
      BY <1>4, <2>1, ValidCheckpoint DEF YearReused
    <2>3. /\ unit' \in Units /\ pc' \in {"month", "finish"} /\ fetched' = None /\ frame' \in 0 .. FrameCount
      BY <1>4, AdvanceTyped DEF YearReused
    <2>4. QED
      BY <1>4, <2>2, <2>3 DEF YearReused, Typed, TypeOK, NonemptyRun, backtest
  <1>5. CASE YearMissed
    <2>1. FirstMonth(run) \in Months
      BY <1>5, RunMonths DEF YearMissed, Typed, TypeOK, NonemptyRun
    <2>2. QED
      BY <1>5, <2>1 DEF YearMissed, Typed, TypeOK, NonemptyRun, backtest, Units
  <1>6. CASE MonthReused
    <2>1. Valid(unit) /\ unit \in Units
      BY <1>6 DEF MonthReused, Typed, TypeOK
    <2>2. partitions' \subseteq Partitions
      BY <1>6, <2>1, ValidCheckpoint DEF MonthReused, Typed, TypeOK
    <2>3. /\ unit' \in Units /\ pc' \in {"month", "finish"} /\ fetched' = None /\ frame' \in 0 .. FrameCount
      BY <1>6, AdvanceTyped DEF MonthReused
    <2>4. QED
      BY <1>6, <2>2, <2>3 DEF MonthReused, Typed, TypeOK, NonemptyRun, backtest
  <1>7. CASE MonthMissed
    BY <1>7 DEF MonthMissed, Typed, TypeOK, NonemptyRun, backtest
  <1>8. ASSUME NEW c \in Contents, pc = "fetch", Fetch(c)
        PROVE  Typed'
    BY <1>8, SizesAssumption DEF Fetch, Typed, TypeOK, NonemptyRun, backtest
  <1>9. CASE FetchWhole
    BY <1>8, <1>9 DEF FetchWhole, Answers
  <1>10. CASE FetchMonth
    BY <1>8, <1>10 DEF FetchMonth, AnswersIn, Answers
  <1>11. CASE Store
    <2>1. frame + 1 \in Frames /\ frame + 1 \in 0 .. FrameCount
      BY <1>11, SizesAssumption DEF Store, Typed, TypeOK, Frames
    <2>2. fetched \in Contents /\ unit \in Units
      BY <1>11 DEF Store, Typed, TypeOK
    <2>3. object' \in [Units -> [Frames -> Contents \cup {None}]]
      BY <1>11, <2>1, <2>2 DEF Store, Typed, TypeOK
    <2>4. partitions' \subseteq Partitions
      BY <1>11, <2>1, <2>2 DEF Store, Typed, TypeOK, Partitions
    <2>5. QED
      BY <1>11, <2>1, <2>3, <2>4 DEF Store, Typed, TypeOK, NonemptyRun, backtest
  <1>12. CASE WriteCheckpoint
    <2>1. fetched \in Contents /\ unit \in Units /\ run \in Runs
      BY <1>12 DEF WriteCheckpoint, Typed, TypeOK
    <2>2. ChunkFrom(run, unit) \in 0 .. Horizon /\ ChunkTo(run, unit) \in 0 .. Horizon
      <3>1. [from |-> run.from, to |-> run.to] \in [from : 0 .. Horizon, to : 0 .. Horizon]
        BY <2>1 DEF Runs
      <3>2. /\ ChunkFrom([from |-> run.from, to |-> run.to], unit) \in 0 .. Horizon
            /\ ChunkTo([from |-> run.from, to |-> run.to], unit) \in 0 .. Horizon
        BY <2>1, <3>1, ChunkInYear
      <3>3. QED
        BY <3>2 DEF ChunkFrom, ChunkTo
    <2>3. checkpoint' \in [Units -> Checkpoints \cup {None}]
      BY <1>12, <2>1, <2>2 DEF WriteCheckpoint, Typed, TypeOK, Checkpoints
    <2>4. /\ unit' \in Units /\ pc' \in {"month", "finish"} /\ fetched' = None /\ frame' \in 0 .. FrameCount
      BY <1>12, AdvanceTyped DEF WriteCheckpoint
    <2>5. QED
      BY <1>12, <2>3, <2>4 DEF WriteCheckpoint, Typed, TypeOK, NonemptyRun, backtest
  <1>13. ASSUME run \in Runs PROVE Summary \in Summaries
    BY <1>13 DEF Summary, Summaries, Runs, Typed, TypeOK
  <1>14. CASE Finish
    BY <1>13, <1>14 DEF Finish, Typed, TypeOK, NonemptyRun, backtest
  <1>15. Year \in Units
    BY DEF Units
  <1>16. CASE Publish
    BY <1>13, <1>15, <1>16, SizesAssumption DEF Publish, Ends, Typed, TypeOK, NonemptyRun, backtest
  <1>17. CASE Abort
    BY <1>15, <1>17, SizesAssumption DEF Abort, Ends, Typed, TypeOK, NonemptyRun, backtest
  <1>18. ASSUME NEW s \in published, Qualify(s) PROVE Typed'
    BY <1>18 DEF Qualify, Typed, TypeOK, NonemptyRun, writer
  <1>19. CASE StartLoading
    <2>1. qualified \in Summaries
      BY <1>19 DEF StartLoading, Typed, TypeOK
    <2>2. qualified.partitions \subseteq Partitions
      BY <2>1 DEF Summaries
    <2>3. QED
      BY <1>19, <2>2 DEF StartLoading, Typed, TypeOK, NonemptyRun, writer
  <1>20. ASSUME NEW p \in todo, Download(p) PROVE Typed'
    <2>1. CASE object[p.unit][p.frame] = p.sha256
      <3>1. [p EXCEPT !.sha256 = object[p.unit][p.frame]] \in Partitions
        BY <2>1 DEF Partitions, Typed, TypeOK
      <3>2. QED
        BY <1>20, <2>1, <3>1 DEF Download, Typed, TypeOK, NonemptyRun, writer
    <2>2. CASE object[p.unit][p.frame] # p.sha256
      BY <1>20, <2>2 DEF Download, Typed, TypeOK, NonemptyRun, writer
    <2>3. QED
      BY <2>1, <2>2
  <1>21. CASE UNCHANGED vars
    BY <1>21 DEF vars, writer, backtest, Typed, TypeOK, NonemptyRun
  <1>22. QED
    BY <1>2, <1>3, <1>4, <1>5, <1>6, <1>7, <1>9, <1>10, <1>11, <1>12, <1>14, <1>16, <1>17, <1>18, <1>19, <1>20, <1>21
       DEF Next

(* Every reachable state of the repair, its bucket and its readers is well *)
(* typed; in particular a unit is always one of the year.                  *)
THEOREM TypeCorrect == Spec => []TypeOK
  <1>1. Spec => []Typed
    BY InitTyped, StepTyped, PTL DEF Spec
  <1>2. Typed => TypeOK
    BY DEF Typed
  <1>3. QED
    BY <1>1, <1>2, PTL

-----------------------------------------------------------------------------
(* The inductive invariant of a run: which units it has recorded when, that*)
(* what it recorded is in the bucket and of the request, and that a        *)
(* checkpoint speaks of one fetch of the range it names.                   *)

Spans(c, from, to) == c.first >= from /\ c.last < to
Covered == {p.unit : p \in partitions}
DoneBefore(u) == IF u = Year THEN {} ELSE FirstMonth(run) .. (u - 1)

CheckpointSound ==
    \A u \in Units : checkpoint[u] # None =>
        /\ \A f, g \in Frames : checkpoint[u].sha256[f] = checkpoint[u].sha256[g]
        /\ \A f \in Frames : Spans(checkpoint[u].sha256[f], checkpoint[u].from, checkpoint[u].to)

Progress ==
    /\ pc = "idle" => partitions = {}
    /\ pc # "idle" =>
        /\ pc = "year" => unit = Year
        /\ pc = "month" => unit # Year
        /\ unit # Year => unit \in FirstMonth(run) .. LastMonth(run)
        /\ pc \in {"year", "month", "fetch"} => Covered = DoneBefore(unit)
        /\ pc = "store" => Covered = DoneBefore(unit) \cup (IF frame = 0 THEN {} ELSE {unit})
        /\ pc \in {"finish", "publish"} => Covered \in {{Year}, FirstMonth(run) .. LastMonth(run)}

RecordSound ==
    pc # "idle" =>
        /\ \A p, q \in partitions : p.unit = q.unit => p.sha256 = q.sha256
        /\ \A p \in partitions : /\ object[p.unit][p.frame] = p.sha256
                                 /\ p.unit # Year => Spans(p.sha256, ChunkFrom(run, p.unit), ChunkTo(run, p.unit))

StoreSound ==
    pc = "store" =>
        /\ unit # Year => Spans(fetched, ChunkFrom(run, unit), ChunkTo(run, unit))
        /\ \A f \in 1 .. frame : object[unit][f] = fetched
        /\ \A p \in partitions : p.unit = unit => p.frame <= frame /\ p.sha256 = fetched

ManifestSound == OneFetchPerUnit /\ ManifestAnswersRequest

Sound == Typed /\ CheckpointSound /\ Progress /\ RecordSound /\ StoreSound /\ ManifestSound

LEMMA InitSound == Init => Sound
  <1>1. SUFFICES ASSUME Init PROVE Sound
    OBVIOUS
  <1>2. PICK stored \in {{}, {Year}, Months} :
          LET whole == [from |-> 0, to |-> Horizon]
              rows(u) == [first |-> ChunkFrom(whole, u), last |-> ChunkTo(whole, u) - 1, revision |-> 0]
          IN  checkpoint = [u \in Units |->
                IF u \in stored
                THEN [from |-> ChunkFrom(whole, u), to |-> ChunkTo(whole, u),
                      sha256 |-> [f \in Frames |-> rows(u)]]
                ELSE None]
    BY <1>1 DEF Init
  <1>3. CheckpointSound
    <2>1. SUFFICES ASSUME NEW u \in Units, checkpoint[u] # None
                   PROVE  /\ \A f, g \in Frames : checkpoint[u].sha256[f] = checkpoint[u].sha256[g]
                          /\ \A f \in Frames : Spans(checkpoint[u].sha256[f], checkpoint[u].from, checkpoint[u].to)
      BY DEF CheckpointSound
    <2> DEFINE from == ChunkFrom([from |-> 0, to |-> Horizon], u)
               to == ChunkTo([from |-> 0, to |-> Horizon], u)
    <2>2. checkpoint[u] = [from |-> from, to |-> to,
                           sha256 |-> [f \in Frames |-> [first |-> from, last |-> to - 1, revision |-> 0]]]
      BY <1>2, <2>1
    <2>3. from \in Int /\ to \in Int
      BY WholeYear
    <2> HIDE DEF from, to
    <2>4. QED
      BY <2>2, <2>3 DEF Spans
  <1>4. QED
    BY <1>1, <1>3, InitTyped
       DEF Init, Sound, Progress, RecordSound, StoreSound, ManifestSound, OneFetchPerUnit, ManifestAnswersRequest

(* A reused unit is recorded as one fetch of the part of the request.      *)
LEMMA ReusedIsSound ==
    ASSUME Sound, pc # "idle", NEW u \in Units, Valid(u)
    PROVE  LET recorded == Recorded(u, checkpoint[u].sha256)
           IN /\ {p.unit : p \in recorded} = {u}
              /\ \A p, q \in recorded : p.sha256 = q.sha256
              /\ \A p \in recorded : /\ p.unit = u /\ object[p.unit][p.frame] = p.sha256
                                      /\ Spans(p.sha256, ChunkFrom(run, u), ChunkTo(run, u))
  <1> DEFINE recorded == Recorded(u, checkpoint[u].sha256)
  <1>1. \A p \in recorded : /\ p.unit = u /\ p.frame \in Frames /\ p.sha256 = checkpoint[u].sha256[p.frame]
                            /\ p.sha256 = object[u][p.frame]
    BY ValidCheckpoint DEF Sound
  <1>2. 1 \in Frames
    BY SizesAssumption DEF Frames
  <1>3. [unit |-> u, frame |-> 1, sha256 |-> checkpoint[u].sha256[1]] \in recorded
    BY <1>2 DEF Recorded
  <1>4. {p.unit : p \in recorded} = {u}
    BY <1>1, <1>3
  <1>5. /\ \A f, g \in Frames : checkpoint[u].sha256[f] = checkpoint[u].sha256[g]
        /\ \A f \in Frames : Spans(checkpoint[u].sha256[f], ChunkFrom(run, u), ChunkTo(run, u))
    BY DEF Sound, CheckpointSound, Valid
  <1>6. QED
    BY <1>1, <1>4, <1>5

(* The units recorded after the loop advanced past one it recorded.        *)
LEMMA AdvanceProgress ==
    ASSUME Sound, pc # "idle", Advance, run' = run, Covered' = DoneBefore(unit) \cup {unit}
    PROVE  Progress' /\ pc' # "store"
  <1>1. unit \in Units /\ run \in Runs /\ run.from < run.to
    BY DEF Sound, Typed, TypeOK, NonemptyRun
  <1>2. FirstMonth(run) \in Months /\ LastMonth(run) \in Months
    BY <1>1, RunMonths
  <1>3. FirstMonth(run)' = FirstMonth(run) /\ LastMonth(run)' = LastMonth(run)
    BY DEF FirstMonth, LastMonth
  <1>4. FirstMonth(run) \in Int /\ LastMonth(run) \in Int
    BY <1>2 DEF Months
  <1>5. CASE unit = Year
    BY <1>3, <1>5 DEF Advance, Progress, DoneBefore
  <1>6. CASE unit # Year /\ unit < LastMonth(run)
    <2>1. unit \in Int /\ FirstMonth(run) <= unit
      BY <1>4, <1>6 DEF Sound, Progress
    <2>2. unit' = unit + 1 /\ pc' = "month"
      BY <1>6 DEF Advance
    <2>3. unit' # Year /\ unit' \in FirstMonth(run) .. LastMonth(run)
      BY <1>1, <1>4, <1>6, <2>1, <2>2 DEF Units, Months, Year
    <2>4. Covered' = FirstMonth(run) .. unit
      BY <1>4, <1>6, <2>1 DEF DoneBefore
    <2>5. DoneBefore(unit)' = FirstMonth(run) .. unit
      BY <1>3, <1>4, <2>1, <2>2, <2>3 DEF DoneBefore
    <2>6. QED
      BY <1>3, <2>2, <2>3, <2>4, <2>5 DEF Progress
  <1>7. CASE unit # Year /\ ~(unit < LastMonth(run))
    <2>1. unit = LastMonth(run) /\ FirstMonth(run) <= unit
      BY <1>4, <1>7 DEF Sound, Progress
    <2>2. Covered' = FirstMonth(run) .. LastMonth(run)
      BY <1>4, <1>7, <2>1 DEF DoneBefore
    <2>3. unit' = unit /\ pc' = "finish"
      BY <1>7 DEF Advance
    <2>4. QED
      BY <1>3, <1>4, <1>7, <2>1, <2>2, <2>3 DEF Progress
  <1>8. QED
    BY <1>5, <1>6, <1>7

(* Nothing of a run is left to be sound once it is over.                   *)
LEMMA EndsSound ==
    ASSUME Ends
    PROVE  Progress' /\ RecordSound' /\ StoreSound'
  BY DEF Ends, Progress, RecordSound, StoreSound

LEMMA StepSound == Sound /\ [Next]_vars => Sound'
  <1>1. SUFFICES ASSUME Sound, [Next]_vars PROVE Sound'
    OBVIOUS
  <1>2. Typed'
    BY <1>1, StepTyped DEF Sound
  <1> USE <1>1 DEF Sound
  <1>3. ASSUME UNCHANGED <<object, checkpoint, manifest, pc, run, unit, fetched, frame, partitions>>
        PROVE  Sound'
    BY <1>2, <1>3 DEF CheckpointSound, Progress, RecordSound, StoreSound, ManifestSound, OneFetchPerUnit,
       ManifestAnswersRequest, Covered, DoneBefore, FirstMonth, LastMonth, ChunkFrom, ChunkTo
  <1>4. ASSUME UNCHANGED manifest PROVE ManifestSound'
    BY <1>4 DEF ManifestSound, OneFetchPerUnit, ManifestAnswersRequest, FirstMonth, LastMonth, ChunkFrom, ChunkTo
  <1>5. ASSUME UNCHANGED checkpoint PROVE CheckpointSound'
    BY <1>5 DEF CheckpointSound
  <1>6. ASSUME NEW range \in Ranges, NEW force \in BOOLEAN, NEW discovery \in Scopes,
               NEW choice \in Scopes \cup {"auto"}, Dispatch(range, force, discovery, choice)
        PROVE  Sound'
    <2>1. UNCHANGED <<checkpoint, manifest, object>> /\ pc' \in {"fetch", "year", "month"}
      BY <1>6 DEF Dispatch
    <2>2. partitions' = {} /\ Covered' = {}
      BY <1>6 DEF Dispatch, Progress, Covered
    <2>3. run' \in Runs /\ run'.from < run'.to
      BY <1>2, <2>1 DEF Typed, TypeOK, NonemptyRun
    <2>4. /\ FirstMonth(run') \in Int /\ FirstMonth(run') # Year
          /\ LastMonth(run') \in Int /\ FirstMonth(run') <= LastMonth(run')
      BY <2>3, RunMonths DEF Months, Year
    <2>5. FirstMonth(run)' = FirstMonth(run') /\ LastMonth(run)' = LastMonth(run')
      BY DEF FirstMonth, LastMonth
    <2>6. CASE provider = "histdata"
      <3>1. unit' = FirstMonth(run') /\ pc' = "month"
        BY <1>6, <2>6 DEF Dispatch
      <3>2. DoneBefore(unit)' = {}
        BY <2>4, <2>5, <3>1 DEF DoneBefore
      <3>3. Progress'
        BY <2>2, <2>4, <2>5, <3>1, <3>2 DEF Progress
      <3>4. QED
        BY <1>2, <1>4, <1>5, <2>1, <2>2, <3>1, <3>3 DEF RecordSound, StoreSound
    <2>7. CASE provider # "histdata"
      <3>1. unit' = Year /\ pc' \in {"fetch", "year"}
        BY <1>6, <2>7, ProvidersAssumption DEF Dispatch, Typed, TypeOK
      <3>2. Progress'
        BY <2>2, <3>1 DEF Progress, DoneBefore
      <3>3. QED
        BY <1>2, <1>4, <1>5, <2>1, <2>2, <3>1, <3>2 DEF RecordSound, StoreSound
    <2>8. QED
      BY <2>6, <2>7
  <1>7. ASSUME pc # "idle", Valid(unit), Advance, UNCHANGED <<object, checkpoint, manifest, run>>,
               partitions' = partitions \cup Recorded(unit, checkpoint[unit].sha256),
               Covered = DoneBefore(unit)
        PROVE  Sound'
    <2> DEFINE recorded == Recorded(unit, checkpoint[unit].sha256)
    <2>1. unit \in Units
      BY DEF Typed, TypeOK
    <2>2. /\ {p.unit : p \in recorded} = {unit}
          /\ \A p, q \in recorded : p.sha256 = q.sha256
          /\ \A p \in recorded : /\ p.unit = unit /\ object[p.unit][p.frame] = p.sha256
                                  /\ Spans(p.sha256, ChunkFrom(run, unit), ChunkTo(run, unit))
      BY <1>7, <2>1, ReusedIsSound
    <2> HIDE DEF recorded
    <2>3. partitions' = partitions \cup recorded
      BY <1>7 DEF recorded
    <2>4. Covered' = DoneBefore(unit) \cup {unit}
      BY <1>7, <2>2, <2>3 DEF Covered
    <2>5. Progress' /\ pc' # "store"
      BY <1>7, <2>4, AdvanceProgress
    <2>6. \A p \in partitions : p.unit # unit
      <3>1. \A p \in partitions : p.unit \in DoneBefore(unit)
        BY <1>7 DEF Covered
      <3>2. unit \notin DoneBefore(unit)
        BY <2>1, SizesAssumption DEF DoneBefore, Units, Months, Year
      <3>3. QED
        BY <3>1, <3>2
    <2>7. RecordSound'
      BY <1>7, <2>2, <2>3, <2>6 DEF RecordSound, ChunkFrom, ChunkTo
    <2>8. QED
      BY <1>2, <1>4, <1>5, <1>7, <2>5, <2>7 DEF StoreSound
  <1>8. CASE YearReused
    <2>1. unit = Year /\ pc = "year" /\ Covered = {} /\ partitions = {}
      BY <1>8 DEF YearReused, Progress, DoneBefore, Covered
    <2>2. QED
      BY <1>7, <1>8, <2>1 DEF YearReused, DoneBefore
  <1>9. CASE YearMissed
    <2>1. partitions' = {} /\ Covered' = {}
      BY <1>9 DEF YearMissed, Progress, DoneBefore, Covered
    <2>2. /\ FirstMonth(run) \in Int /\ FirstMonth(run) # Year
          /\ LastMonth(run) \in Int /\ FirstMonth(run) <= LastMonth(run)
      BY <1>9, RunMonths DEF YearMissed, Typed, TypeOK, NonemptyRun, Months, Year
    <2>3. UNCHANGED <<checkpoint, manifest, object, run>> /\ unit' = FirstMonth(run) /\ pc' = "month"
      BY <1>9 DEF YearMissed
    <2>4. FirstMonth(run)' = FirstMonth(run) /\ LastMonth(run)' = LastMonth(run)
      BY <2>3 DEF FirstMonth, LastMonth
    <2>5. DoneBefore(unit)' = {}
      BY <2>2, <2>3, <2>4 DEF DoneBefore
    <2>6. Progress'
      BY <2>1, <2>2, <2>3, <2>4, <2>5 DEF Progress
    <2>7. QED
      BY <1>2, <1>4, <1>5, <2>1, <2>3, <2>6 DEF RecordSound, StoreSound
  <1>10. CASE MonthReused
    <2>1. Covered = DoneBefore(unit)
      BY <1>10 DEF MonthReused, Progress
    <2>2. QED
      BY <1>7, <1>10, <2>1 DEF MonthReused
  <1>11. CASE MonthMissed
    <2>1. Progress' /\ RecordSound' /\ StoreSound'
      BY <1>11 DEF MonthMissed, Progress, RecordSound, StoreSound, Covered, DoneBefore, FirstMonth, LastMonth,
         ChunkFrom, ChunkTo
    <2>2. QED
      BY <1>2, <1>4, <1>5, <1>11, <2>1 DEF MonthMissed
  <1>12. ASSUME NEW c \in Contents, unit # Year => Spans(c, ChunkFrom(run, unit), ChunkTo(run, unit)), pc = "fetch", Fetch(c)
         PROVE  Sound'
    <2>1. UNCHANGED <<object, checkpoint, manifest, run, unit, partitions>> /\ fetched' = c /\ frame' = 0 /\ pc' = "store"
      BY <1>12 DEF Fetch
    <2>2. Progress'
      BY <1>12, <2>1 DEF Progress, Covered, DoneBefore, FirstMonth, LastMonth
    <2>3. RecordSound'
      BY <1>12, <2>1 DEF RecordSound, ChunkFrom, ChunkTo
    <2>4. \A p \in partitions : p.unit # unit
      <3>1. \A p \in partitions : p.unit \in DoneBefore(unit)
        BY <1>12 DEF Progress, Covered
      <3>2. unit \notin DoneBefore(unit)
        BY SizesAssumption DEF Typed, TypeOK, DoneBefore, Units, Months, Year
      <3>3. QED
        BY <3>1, <3>2
    <2>5. StoreSound'
      BY <1>12, <2>1, <2>4 DEF StoreSound, ChunkFrom, ChunkTo
    <2>6. QED
      BY <1>2, <1>4, <1>5, <2>1, <2>2, <2>3, <2>5
  <1>13. CASE FetchWhole
    BY <1>12, <1>13 DEF FetchWhole, Answers
  <1>14. CASE FetchMonth
    BY <1>12, <1>14 DEF FetchMonth, AnswersIn, Answers, Spans
  <1>15. CASE Store
    <2> DEFINE stored == [unit |-> unit, frame |-> frame + 1, sha256 |-> fetched]
    <2>1. /\ UNCHANGED <<checkpoint, manifest, pc, run, unit, fetched>>
          /\ pc = "store" /\ frame \in Nat /\ frame' = frame + 1 /\ frame' # 0
          /\ unit \in Units /\ frame + 1 \in Frames
          /\ partitions' = partitions \cup {stored}
      BY <1>15, SizesAssumption DEF Store, Typed, TypeOK, Frames
    <2>2. /\ object' = [object EXCEPT ![unit][frame + 1] = fetched]
          /\ object \in [Units -> [Frames -> Contents \cup {None}]]
      BY <1>15 DEF Store, Typed, TypeOK
    <2>3. /\ object'[unit][frame + 1] = fetched
          /\ \A u \in Units, f \in Frames : (u # unit \/ f # frame + 1) => object'[u][f] = object[u][f]
      BY <2>1, <2>2
    <2>4. \A p \in partitions : p.unit \in Units /\ p.frame \in Frames /\ p.frame \in Nat
      BY SizesAssumption DEF Typed, TypeOK, Partitions, Frames
    <2>5. \A p \in partitions : p.unit = unit => p.frame <= frame /\ p.sha256 = fetched
      BY <2>1 DEF StoreSound
    <2>6. Covered' = Covered \cup {unit}
      <3>1. stored.unit = unit
        OBVIOUS
      <3> HIDE DEF stored
      <3>2. QED
        BY <2>1, <3>1 DEF Covered
    <2>7. Progress'
      <3>1. Covered' = DoneBefore(unit) \cup {unit}
        BY <2>1, <2>6 DEF Progress
      <3>2. DoneBefore(unit)' = DoneBefore(unit) /\ FirstMonth(run)' = FirstMonth(run) /\ LastMonth(run)' = LastMonth(run)
        BY <2>1 DEF DoneBefore, FirstMonth, LastMonth
      <3>3. QED
        BY <2>1, <3>1, <3>2 DEF Progress
    <2>8. unit # Year => Spans(fetched, ChunkFrom(run, unit), ChunkTo(run, unit))
      BY <2>1 DEF StoreSound
    <2>9. \A p \in partitions : object'[p.unit][p.frame] = p.sha256
      <3>1. SUFFICES ASSUME NEW p \in partitions PROVE object'[p.unit][p.frame] = p.sha256
        OBVIOUS
      <3>2. object[p.unit][p.frame] = p.sha256
        BY <2>1 DEF RecordSound
      <3>3. p.unit # unit \/ p.frame # frame + 1
        BY <2>1, <2>4, <2>5
      <3>4. QED
        BY <2>3, <2>4, <3>2, <3>3
    <2>10. RecordSound'
      <3>1. \A p, q \in partitions' : p.unit = q.unit => p.sha256 = q.sha256
        BY <2>1, <2>5 DEF RecordSound
      <3>2. \A p \in partitions' : object'[p.unit][p.frame] = p.sha256
        BY <2>1, <2>3, <2>9
      <3>3. \A p \in partitions' : p.unit # Year => Spans(p.sha256, ChunkFrom(run, p.unit), ChunkTo(run, p.unit))
        BY <2>1, <2>8 DEF RecordSound
      <3>4. QED
        BY <2>1, <3>1, <3>2, <3>3 DEF RecordSound, ChunkFrom, ChunkTo
    <2>11. StoreSound'
      <3>1. \A f \in 1 .. (frame + 1) : object'[unit][f] = fetched
        <4>1. SUFFICES ASSUME NEW f \in 1 .. (frame + 1) PROVE object'[unit][f] = fetched
          OBVIOUS
        <4>2. f \in Frames
          BY <2>1, SizesAssumption DEF Frames
        <4>3. CASE f = frame + 1
          BY <2>3, <4>3
        <4>4. CASE f # frame + 1
          <5>1. f \in 1 .. frame
            BY <2>1, <4>4
          <5>2. QED
            BY <2>1, <2>3, <4>2, <4>4, <5>1 DEF StoreSound
        <4>5. QED
          BY <4>3, <4>4
      <3>2. \A p \in partitions' : p.unit = unit => p.frame <= frame + 1 /\ p.sha256 = fetched
        BY <2>1, <2>4, <2>5
      <3>3. QED
        BY <2>1, <2>8, <3>1, <3>2 DEF StoreSound, ChunkFrom, ChunkTo
    <2>12. QED
      BY <1>2, <1>4, <1>5, <2>1, <2>7, <2>10, <2>11
  <1>16. CASE WriteCheckpoint
    <2>1. /\ UNCHANGED <<object, manifest, run, partitions>> /\ Advance
          /\ pc = "store" /\ frame # 0 /\ unit \in Units
      BY <1>16, SizesAssumption DEF WriteCheckpoint, Typed, TypeOK
    <2>2. Covered' = DoneBefore(unit) \cup {unit}
      BY <2>1 DEF Progress, Covered
    <2>3. Progress' /\ pc' # "store"
      BY <2>1, <2>2, AdvanceProgress
    <2>4. RecordSound'
      BY <2>1 DEF RecordSound, ChunkFrom, ChunkTo
    <2>5. CheckpointSound'
      <3>1. CASE unit = Year
        BY <1>5, <1>16, <3>1 DEF WriteCheckpoint
      <3>2. CASE unit # Year
        <4> DEFINE written == [from |-> ChunkFrom(run, unit), to |-> ChunkTo(run, unit),
                               sha256 |-> [f \in Frames |-> fetched]]
        <4>1. checkpoint' = [checkpoint EXCEPT ![unit] = written]
          BY <1>16, <3>2 DEF WriteCheckpoint
        <4>2. /\ \A f, g \in Frames : written.sha256[f] = written.sha256[g]
              /\ \A f \in Frames : Spans(written.sha256[f], written.from, written.to)
          BY <2>1, <3>2 DEF StoreSound
        <4>3. checkpoint \in [Units -> Checkpoints \cup {None}]
          BY DEF Typed, TypeOK
        <4> HIDE DEF written
        <4>4. \A u \in Units : checkpoint'[u] = IF u = unit THEN written ELSE checkpoint[u]
          BY <2>1, <4>1, <4>3
        <4>5. QED
          BY <4>2, <4>4 DEF CheckpointSound
      <3>3. QED
        BY <3>1, <3>2
    <2>6. QED
      BY <1>2, <1>4, <2>1, <2>3, <2>4, <2>5 DEF StoreSound
  <1>17. CASE Finish
    <2>1. /\ UNCHANGED <<object, checkpoint, run, unit, partitions>> /\ pc = "finish" /\ pc' = "publish"
          /\ manifest' = [from |-> run.from, to |-> run.to, scope |-> run.scope, partitions |-> partitions]
      BY <1>17 DEF Finish, Summary
    <2>2. Progress' /\ RecordSound' /\ StoreSound'
      BY <2>1 DEF Progress, RecordSound, StoreSound, Covered, FirstMonth, LastMonth, ChunkFrom, ChunkTo
    <2>3. OneFetchPerUnit'
      BY <2>1 DEF OneFetchPerUnit, RecordSound
    <2>4. ManifestAnswersRequest'
      <3>1. /\ FirstMonth(manifest)' = FirstMonth(run) /\ LastMonth(manifest)' = LastMonth(run)
            /\ \A u : ChunkFrom(manifest', u) = ChunkFrom(run, u) /\ ChunkTo(manifest', u) = ChunkTo(run, u)
        BY <2>1 DEF FirstMonth, LastMonth, ChunkFrom, ChunkTo
      <3>2. \A p \in partitions : p.unit # Year => Spans(p.sha256, ChunkFrom(run, p.unit), ChunkTo(run, p.unit))
        BY <2>1 DEF RecordSound
      <3>3. Covered \in {{Year}, FirstMonth(run) .. LastMonth(run)}
        BY <2>1 DEF Progress
      <3>4. manifest'.partitions = partitions
        BY <2>1
      <3>5. QED
        BY <3>1, <3>2, <3>3, <3>4 DEF ManifestAnswersRequest, Spans, Covered
    <2>5. QED
      BY <1>2, <1>5, <2>1, <2>2, <2>3, <2>4 DEF ManifestSound
  <1>18. CASE Publish
    <2>1. Progress' /\ RecordSound' /\ StoreSound'
      BY <1>18, EndsSound DEF Publish
    <2>2. QED
      BY <1>2, <1>4, <1>5, <1>18, <2>1 DEF Publish
  <1>19. CASE Abort
    <2>1. Progress' /\ RecordSound' /\ StoreSound'
      BY <1>19, EndsSound DEF Abort
    <2>2. QED
      BY <1>2, <1>4, <1>5, <1>19, <2>1 DEF Abort
  <1>20. CASE Revise
    BY <1>3, <1>20 DEF Revise, writer
  <1>21. ASSUME NEW s \in published, Qualify(s) PROVE Sound'
    BY <1>3, <1>21 DEF Qualify, writer
  <1>22. CASE StartLoading
    BY <1>3, <1>22 DEF StartLoading, writer
  <1>23. ASSUME NEW p \in todo, Download(p) PROVE Sound'
    BY <1>3, <1>23 DEF Download, writer
  <1>24. CASE UNCHANGED vars
    BY <1>3, <1>24 DEF vars, writer
  <1>25. QED
    BY <1>6, <1>8, <1>9, <1>10, <1>11, <1>13, <1>14, <1>15, <1>16, <1>17, <1>18, <1>19, <1>20, <1>21, <1>22, <1>23,
       <1>24 DEF Next

LEMMA AlwaysSound == Spec => []Sound
  BY InitSound, StepSound, PTL DEF Spec

(* All timeframes of a unit in a manifest come from one fetch of it,       *)
(* whatever crashed, forced or partly stored runs left in the bucket.      *)
THEOREM ManifestsAreUniform == Spec => []OneFetchPerUnit
  <1>1. Sound => OneFetchPerUnit
    BY DEF Sound, ManifestSound
  <1>2. QED
    BY <1>1, AlwaysSound, PTL

(* A manifest answers its request: the months of the request, each once,   *)
(* with nothing in the partition of a month from outside it.               *)
THEOREM ManifestsAnswer == Spec => []ManifestAnswersRequest
  <1>1. Sound => ManifestAnswersRequest
    BY DEF Sound, ManifestSound
  <1>2. QED
    BY <1>1, AlwaysSound, PTL

(* Only the end of a run writes the manifest, when all that the run has    *)
(* recorded is in the bucket as recorded.                                  *)
THEOREM ManifestsAreVerified == Spec => ManifestVerified
  <1> DEFINE Verified == manifest' # manifest =>
               \A p \in manifest'.partitions : object'[p.unit][p.frame] = p.sha256
  <1>1. Sound /\ [Next]_vars => Verified
    <2>1. SUFFICES ASSUME Sound, [Next]_vars, manifest' # manifest
                   PROVE  \A p \in manifest'.partitions : object'[p.unit][p.frame] = p.sha256
      OBVIOUS
    <2>2. Finish
      BY <2>1 DEF Next, vars, Revise, Dispatch, YearReused, YearMissed, MonthReused, MonthMissed, FetchWhole, FetchMonth,
         Fetch, Store, WriteCheckpoint, Publish, Abort, Qualify, StartLoading, Download
    <2>3. manifest'.partitions = partitions /\ object' = object /\ pc # "idle"
      BY <2>2 DEF Finish, Summary
    <2>4. QED
      BY <2>1, <2>3 DEF Sound, RecordSound
  <1>2. QED
    BY <1>1, AlwaysSound, PTL DEF Spec, ManifestVerified

(* A checkpoint is written when every timeframe it names is in the bucket  *)
(* with the digest it names.                                               *)
THEOREM CheckpointsAreVerified == Spec => CheckpointVerified
  <1> DEFINE Verified == \A u \in Units : checkpoint'[u] # checkpoint[u] =>
               \A f \in Frames : object'[u][f] = checkpoint'[u].sha256[f]
  <1>1. Sound /\ [Next]_vars => Verified
    <2>1. SUFFICES ASSUME Sound, [Next]_vars, NEW u \in Units, checkpoint'[u] # checkpoint[u]
                   PROVE  \A f \in Frames : object'[u][f] = checkpoint'[u].sha256[f]
      OBVIOUS
    <2>2. WriteCheckpoint
      BY <2>1 DEF Next, vars, Revise, Dispatch, YearReused, YearMissed, MonthReused, MonthMissed, FetchWhole, FetchMonth,
         Fetch, Store, Finish, Publish, Abort, Qualify, StartLoading, Download
    <2>3. /\ object' = object /\ pc = "store" /\ frame = FrameCount /\ unit # Year
          /\ checkpoint' = [checkpoint EXCEPT ![unit] =
                              [from |-> ChunkFrom(run, unit), to |-> ChunkTo(run, unit),
                               sha256 |-> [f \in Frames |-> fetched]]]
      BY <2>1, <2>2 DEF WriteCheckpoint
    <2>4. u = unit /\ \A f \in Frames : checkpoint'[u].sha256[f] = fetched
      BY <2>1, <2>3 DEF Sound, Typed, TypeOK
    <2>5. QED
      BY <2>1, <2>3, <2>4 DEF Sound, StoreSound, Frames
  <1>2. QED
    BY <1>1, AlwaysSound, PTL DEF Spec, CheckpointVerified

(* What a backtest has loaded is what was qualified, whatever repairs do   *)
(* to the objects while it downloads them.                                 *)
THEOREM BacktestsLoadTheQualified == Spec => []LoadedIsQualified
  <1>1. Init => LoadedIsQualified
    BY DEF Init, LoadedIsQualified
  <1>2. Typed /\ LoadedIsQualified /\ [Next]_vars => LoadedIsQualified'
    <2>1. SUFFICES ASSUME Typed, LoadedIsQualified, [Next]_vars PROVE LoadedIsQualified'
      OBVIOUS
    <2>2. ASSUME UNCHANGED <<qualified, reader, todo, loaded>> PROVE LoadedIsQualified'
      BY <2>1, <2>2 DEF LoadedIsQualified
    <2>3. ASSUME NEW s \in published, Qualify(s) PROVE LoadedIsQualified'
      BY <2>3 DEF Qualify, LoadedIsQualified
    <2>4. CASE StartLoading
      BY <2>4 DEF StartLoading, LoadedIsQualified
    <2>5. ASSUME NEW p \in todo, Download(p) PROVE LoadedIsQualified'
      <3>1. CASE object[p.unit][p.frame] = p.sha256
        <4>1. [p EXCEPT !.sha256 = object[p.unit][p.frame]] = p
          BY <2>1, <3>1 DEF Typed, TypeOK, Partitions
        <4>2. /\ reader = "loading" /\ qualified' = qualified /\ todo' = todo \ {p} /\ loaded' = loaded \cup {p}
              /\ reader' = IF todo = {p} THEN "loaded" ELSE "loading"
          BY <2>5, <3>1, <4>1 DEF Download
        <4>3. QED
          BY <2>1, <4>2 DEF LoadedIsQualified
      <3>2. CASE object[p.unit][p.frame] # p.sha256
        BY <2>5, <3>2 DEF Download, LoadedIsQualified
      <3>3. QED
        BY <3>1, <3>2
    <2>6. QED
      BY <2>1, <2>2, <2>3, <2>4, <2>5 DEF Next, vars, backtest, Revise, Dispatch, YearReused, YearMissed, MonthReused,
         MonthMissed, FetchWhole, FetchMonth, Fetch, Store, WriteCheckpoint, Finish, Publish, Abort
  <1>3. Spec => []Typed
    BY InitTyped, StepTyped, PTL DEF Spec
  <1>4. QED
    BY <1>1, <1>2, <1>3, PTL DEF Spec

-----------------------------------------------------------------------------
(* What the quarantine of conflicting rows means for every archive.        *)

(* Every parsed minute of an archive has a line that comes first.            *)
LEMMA HasForemost ==
    ASSUME NEW lines, DOMAIN lines \subseteq Nat, NEW k \in Parsed(lines)
    PROVE  \E i \in Foremost(lines) : lines[i].row.at = lines[k].row.at
<1> DEFINE same == {i \in Parsed(lines) : lines[i].row.at = lines[k].row.at}
<1>1. same \subseteq Nat /\ same # {}
    BY DEF Parsed
<1>2. PICK i \in same : \A j \in same : ~(<<j, i>> \in OpToRel(<, Nat))
    <2>1. IsWellFoundedOn(OpToRel(<, Nat), Nat)
        BY NatLessThanWellFounded
    <2>2. QED
        BY <2>1, <1>1, WFMin
<1>3. \A j \in same : ~(j < i)
    BY <1>1, <1>2 DEF OpToRel
<1>4. QED
    BY <1>3 DEF Foremost

(* Which of an archive's lines comes first never decides a price: the rows   *)
(* that are kept are all the parsed rows of the candles without a conflict   *)
(* (parse_histdata_archive, "no price selection").                           *)
THEOREM ArchiveKeepsAllClean ==
    ASSUME NEW lines, DOMAIN lines \subseteq Nat
    PROVE  Archive(lines).rows = Clean({lines[i].row : i \in Parsed(lines)}, Archive(lines).conflicts)
<1> DEFINE rows == {lines[i].row : i \in Parsed(lines)}
           first == {lines[i].row : i \in Foremost(lines)}
           buckets == Quarantined(Conflicts(lines))
<1>1. first \subseteq rows
    BY DEF Foremost
<1>2. ASSUME NEW r \in rows, Minute(r.at) \notin buckets
      PROVE  r \in first
    <2>1. PICK k \in Parsed(lines) : lines[k].row = r
        OBVIOUS
    <2>2. PICK i \in Foremost(lines) : lines[i].row.at = r.at
        BY <2>1, HasForemost
    <2>3. i \in Parsed(lines)
        BY DEF Foremost
    <2>4. r.at \notin Conflicts(lines)
        BY <1>2 DEF Quarantined
    <2>5. lines[i].row = r
        BY <2>1, <2>2, <2>3, <2>4 DEF Conflicts
    <2>6. QED
        BY <2>5
<1>3. Clean(first, buckets) = Clean(rows, buckets)
    BY <1>1, <1>2 DEF Clean
<1>4. QED
    BY <1>3 DEF Archive

(* No candle made of an archive has a minute of two prices.                  *)
THEOREM ArchiveIsUnambiguous ==
    ASSUME NEW lines, NEW r \in Archive(lines).rows,
           NEW i \in Parsed(lines), NEW j \in Parsed(lines),
           lines[i].row.at = lines[j].row.at, Minute(lines[i].row.at) = Minute(r.at)
    PROVE  lines[i].row = lines[j].row
<1>1. Minute(r.at) \notin Quarantined(Conflicts(lines))
    BY DEF Archive, Clean
<1>2. lines[i].row.at \notin Conflicts(lines)
    BY <1>1 DEF Quarantined
<1>3. QED
    BY <1>2 DEF Conflicts

(* Nor has one made of several archives a minute in which two of them differ *)
(* (fetch_histdata_15m).                                                     *)
THEOREM OverlapsAreUnambiguous ==
    ASSUME NEW archives, NEW from, NEW to, NEW r \in Selected(archives, from, to),
           NEW p \in Within(UNION {a.rows : a \in archives}, from, to),
           NEW q \in Within(UNION {a.rows : a \in archives}, from, to),
           p.at = q.at, Minute(p.at) = Minute(r.at)
    PROVE  p = q
<1>1. Minute(r.at) \notin Quarantined(Overlaps(archives, from, to))
    BY DEF Selected, Clean
<1>2. p.at \notin Overlaps(archives, from, to)
    BY <1>1 DEF Quarantined
<1>3. QED
    BY <1>2 DEF Overlaps
-----------------------------------------------------------------------------
(***************************************************************************)
(* The budgeted scan of MarketScan.                                        *)
(***************************************************************************)
(* An asset that is evaluated, or picked for it, has no verdict yet, and   *)
(* between scans there is none.                                            *)
ScanInv ==
    /\ attempt \in Nat
    /\ DOMAIN thread = Assets
    /\ \A s \in Assets :
          /\ thread[s] # Out => report[s] \notin Evaluations
          /\ attempt = 0 => thread[s] = Out /\ report[s] \notin Evaluations

(* A step of the evaluations starts from one that is not out.              *)
LEMMA EvaluationStep ==
    ASSUME ScanInv, NEW s \in Assets, NEW u, thread[s] # Out,
           thread' = [thread EXCEPT ![s] = u], UNCHANGED <<attempt, report>>
    PROVE  ScanInv'
  BY DEF ScanInv

LEMMA ScanStepKeeps == ScanInv /\ [ScanNext]_scanVars => ScanInv'
<1> SUFFICES ASSUME ScanInv, [ScanNext]_scanVars PROVE ScanInv'
  OBVIOUS
<1>1. ASSUME NEW s \in Assets, Resolve(s)
      PROVE  ScanInv'
  BY <1>1 DEF Resolve, ScanInv
<1>2. ASSUME NEW s \in Assets, Start(s)
      PROVE  ScanInv'
  <2>1. thread[s] # Out
    BY <1>2 DEF Start, Queued, Out
  <2>2. UNCHANGED <<attempt, report>> /\ \E u : thread' = [thread EXCEPT ![s] = u]
    BY <1>2 DEF Start
  <2>3. QED
    BY <2>1, <2>2, EvaluationStep
<1>3. ASSUME NEW s \in Assets, Evaluate(s)
      PROVE  ScanInv'
  <2>1. UNCHANGED <<attempt, report>> /\ \E u : Step(s, thread[s], u) /\ thread' = [thread EXCEPT ![s] = u]
    BY <1>3 DEF Evaluate
  <2>2. thread[s] # Out
    BY <2>1 DEF Step, Acquire, Answer, Blocked, Out
  <2>3. QED
    BY <2>1, <2>2, EvaluationStep
<1>4. ASSUME NEW s \in Assets, EvaluateLate(s)
      PROVE  ScanInv'
  BY <1>4 DEF EvaluateLate, ScanInv
<1>5. CASE StartScan
  BY <1>5 DEF StartScan, ScanInv
<1>6. CASE Return
  BY <1>6 DEF Return, Submitted, ScanInv
<1>7. CASE Retry
  <2>1. \A s \in Candidates : report[s] \notin Evaluations
    BY DEF Candidates, Retryable, Failed, Evaluations
  <2>2. QED
    BY <1>7, <2>1 DEF Retry, ScanInv
<1>8. CASE Submit
  <2>1. OutOfTime \notin Evaluations
    BY DEF OutOfTime, Evaluations
  <2>3. attempt # 0
    BY <1>8 DEF Submit, Picked, Out, ScanInv
  <2>2. QED
    BY <1>8, <2>1, <2>3 DEF Submit, Picked, Out, ScanInv
<1>9. CASE HandOver
  <2>1. "none" \notin Evaluations
    BY DEF Evaluations
  <2>2. QED
    BY <1>9, <2>1 DEF HandOver, Between, ScanInv
<1>10. CASE UNCHANGED <<attempt, thread, report>>
  BY <1>10 DEF ScanInv
<1>11. QED
  BY <1>1, <1>2, <1>3, <1>4, <1>5, <1>6, <1>7, <1>8, <1>9, <1>10
     DEF ScanNext, Scan, Tick, Outage, Recovery, scanVars

LEMMA ScanInvariance == ScanSpec => []ScanInv
<1>1. ScanInit => ScanInv
  BY DEF ScanInit, Evaluations, ScanInv
<1>2. QED
  BY <1>1, ScanStepKeeps, PTL DEF ScanSpec

(* Neither a retry nor the deadline replaces a verdict on a market, for    *)
(* any markets, routes, workers, attempts and deadline.                    *)
THEOREM VerdictsStand == ScanSpec => VerdictStands
<1>1. ASSUME ScanInv, ScanNext, NEW s \in Assets,
             report[s] \in Evaluations, report'[s] # report[s]
      PROVE  attempt' = 0
  <2>1. thread[s] = Out
    BY <1>1 DEF ScanInv
  <2>2. CASE Return
    BY <1>1, <2>1, <2>2 DEF Return, Submitted
  <2>3. CASE Submit
    BY <1>1, <2>1, <2>3 DEF Submit, Picked, Out
  <2>4. CASE HandOver
    BY <2>4 DEF HandOver
  <2>5. CASE UNCHANGED report
    BY <1>1, <2>5
  <2>6. QED
    BY <1>1, <2>2, <2>3, <2>4, <2>5
       DEF ScanNext, Scan, Tick, Outage, Recovery, Resolve,
           Start, Evaluate, EvaluateLate, StartScan, Retry
<1>2. ScanInv /\ [ScanNext]_scanVars =>
          [\A s \in Assets :
              report[s] \in Evaluations /\ report'[s] # report[s] => attempt' = 0]_scanVars
  BY <1>1
<1>3. QED
  BY <1>2, ScanInvariance, PTL DEF ScanSpec, VerdictStands
=============================================================================
