------------------------------ MODULE ScanProofs ------------------------------
(***************************************************************************)
(* What a scan rests on: the candle series its threads keep, for any       *)
(* number of threads, any window and any lag of the routes, the            *)
(* incremental analysis, for any pivot, windows and series, and the risk   *)
(* of the opportunities it finds, for any symbols, prices and limits.      *)
(***************************************************************************)
EXTENDS IncrementalCandles, IncrementalSnapshots, Opportunities, Sums, SequenceTheorems

(* A nonempty set of naturals has a least member.                          *)
LEMMA LeastMember ==
    ASSUME NEW T \in SUBSET Nat, T # {}
    PROVE  \E x \in T : \A y \in T : x <= y
<1>1. IsWellFoundedOn(OpToRel(<, Nat), Nat)
  BY NatLessThanWellFounded
<1>2. PICK x \in T : \A y \in T : ~(<<y, x>> \in OpToRel(<, Nat))
  BY <1>1, WFMin
<1>3. \A y \in T : ~(y < x)
  BY <1>2 DEF OpToRel
<1>4. QED
  BY <1>3

(* A nonempty window has a newest candle.                                  *)
LEMMA NewestStamp ==
    ASSUME NEW W \in SUBSET Stamps, W # {}
    PROVE  Max(W) \in W /\ Max(W) \in Stamps
<1> DEFINE T == {n \in Nat : MaxNow - n \in W}
<1>1. PICK w \in W : w \in 0..MaxNow
  BY DEF Stamps
<1>2. MaxNow - w \in T
  <2>1. MaxNow - w \in Nat /\ MaxNow - (MaxNow - w) = w
    BY <1>1, TimeAssumption
  <2>2. QED
    BY <2>1, <1>1
<1>3. PICK m \in T : \A n \in T : m <= n
  BY <1>2, LeastMember
<1>4. \A y \in W : MaxNow - m >= y
  <2>1. SUFFICES ASSUME NEW y \in W
                 PROVE  MaxNow - m >= y
    OBVIOUS
  <2>2. y \in Nat /\ MaxNow - y \in Nat /\ MaxNow - (MaxNow - y) = y
    BY TimeAssumption DEF Stamps
  <2>3. MaxNow - y \in T
    BY <2>2, <2>1
  <2>4. m \in Nat /\ m <= MaxNow - y
    BY <1>3, <2>3
  <2>5. QED
    BY <2>2, <2>4, TimeAssumption
<1>5. MaxNow - m \in W
  BY <1>3
<1>6. Max(W) \in W
  BY <1>4, <1>5 DEF Max
<1>7. QED
  BY <1>6

(* A set of timestamps has a size.                                         *)
LEMMA StampsAreFinite ==
    ASSUME NEW W \in SUBSET Stamps
    PROVE  Cardinality(W) \in Nat
<1>1. IsFiniteSet(0..MaxNow)
  BY FS_Interval, TimeAssumption
<1>2. IsFiniteSet(W)
  BY <1>1, FS_Subset DEF Stamps
<1>3. QED
  BY <1>2, FS_CardinalityType

(* A nonempty answer has an oldest candle.                                 *)
LEMMA OldestStamp ==
    ASSUME NEW W \in SUBSET Stamps, W # {}
    PROVE  Min(W) \in W
<1>1. W \in SUBSET Nat
  BY DEF Stamps
<1>2. PICK m \in W : \A y \in W : m <= y
  BY <1>1, LeastMember
<1>3. QED
  BY <1>2 DEF Min

LEMMA StampsAreNumbers == Stamps \subseteq Nat
  BY TimeAssumption DEF Stamps

(* Fewer candles are newer than a newer candle.                            *)
LEMMA FewerAreNewer ==
    ASSUME NEW A \in SUBSET Nat, NEW x \in Nat, NEW y \in Nat, x < y
    PROVE  {z \in A : z > y} \subseteq {z \in A : z > x}
<1>1. ASSUME NEW z \in A, z > y
      PROVE  z > x
  <2>1. z \in Nat
    OBVIOUS
  <2>2. QED
    BY <1>1, <2>1
<1>2. QED
  BY <1>1, Zenon

(* A smaller set of timestamps.                                            *)
LEMMA SmallerSet ==
    ASSUME NEW A, NEW B \in SUBSET Stamps, A \subseteq B
    PROVE  Cardinality(A) <= Cardinality(B)
<1>1. IsFiniteSet(0..MaxNow)
  BY FS_Interval, TimeAssumption
<1>2. IsFiniteSet(B)
  BY <1>1, FS_Subset DEF Stamps
<1>3. QED
  BY <1>2, FS_Subset

(* What a load computes from the window it finds.                          *)
LEMMA RequestSize ==
    ASSUME NEW W \in SUBSET Stamps, now \in Stamps
    PROVE  Elapsed(W) \in Nat /\ FetchLimit(W) \in Nat
<1>1. Elapsed(W) \in Nat
  BY NewestStamp, TimeAssumption DEF Elapsed, Max2, Stamps
<1>2. Cardinality(W) \in Nat
  BY StampsAreFinite
<1>3. QED
  BY <1>1, <1>2, SizeAssumption DEF FetchLimit, Max2, Min2

(* The latest candles of a set are of that set.                            *)
LEMMA NewestIsSubset ==
    /\ Window \in SUBSET Stamps
    /\ \A n, H : H \in SUBSET Stamps => LatestCandles(n, H) \in SUBSET Stamps
  BY DEF Window, LatestCandles, Stored

(* A route has candles of the past and of the interval in progress.        *)
LEMMA HistoryIsPast ==
    ASSUME now \in Stamps, NEW H \in Histories
    PROVE  H \in SUBSET Stamps
  BY TimeAssumption DEF Histories, Stamps, Max2

LEMMA CandlesInitInv == CandlesInit => CandlesInv
<1>1. SUFFICES ASSUME CandlesInit PROVE CandlesInv
  OBVIOUS
<1>2. 0 \in Stamps
  BY TimeAssumption DEF Stamps
<1>3. CandlesTypeOK
  <2>1. NoAnswer \in Answer
    BY <1>2 DEF Answer, NoAnswer
  <2>2. \A l \in Loaders : pc[l] = "idle" /\ lock # l
    BY <1>1, NobodyAssumption DEF CandlesInit
  <2>3. QED
    BY <1>1, <2>1, <2>2 DEF CandlesInit, CandlesTypeOK, Stages, Candle
<1>4. FinalIsClosed /\ AnswerIsRecent /\ AnswerIsPast
  BY <1>1 DEF CandlesInit, FinalIsClosed, AnswerIsRecent, AnswerIsPast, NoAnswer, Stamps
<1>5. QED
  BY <1>3, <1>4 DEF CandlesInv

(* The end of a load keeps the invariant, whatever it hands to its caller. *)
LEMMA ReleaseInv ==
    ASSUME CandlesInv, NEW l \in Loaders, pc[l] # "idle", Release(l),
           batch' \in [Loaders -> SUBSET Stamps]
    PROVE  CandlesInv'
<1>1. 0 \in Stamps
  BY TimeAssumption DEF Stamps
<1>2. lock = l
  BY DEF CandlesInv, CandlesTypeOK
<1>3. CandlesTypeOK'
  BY <1>1, <1>2, NobodyAssumption DEF CandlesInv, CandlesTypeOK, Release, Stages, Answer, NoAnswer
<1>4. FinalIsClosed' /\ AnswerIsRecent' /\ AnswerIsPast'
  BY DEF CandlesInv, CandlesTypeOK, Release, FinalIsClosed, AnswerIsRecent, AnswerIsPast,
         NoAnswer, Stamps
<1>5. QED
  BY <1>3, <1>4 DEF CandlesInv

LEMMA CandlesStepInv == CandlesInv /\ [CandlesNext]_candlesVars => CandlesInv'
<1> SUFFICES ASSUME CandlesInv, [CandlesNext]_candlesVars PROVE CandlesInv'
  OBVIOUS
<1> USE DEF CandlesInv, Stages, Candle
<1>1. CASE Tick
  <2>1. now' \in Stamps /\ now' = now + 1 /\ now \in Nat
    BY <1>1, TimeAssumption DEF Tick, CandlesTypeOK, Stamps
  <2>2. CandlesTypeOK'
    BY <1>1, <2>1 DEF Tick, CandlesTypeOK, local
  <2>3. FinalIsClosed'
    BY <1>1, <2>1 DEF Tick, FinalIsClosed, Stamps
  <2>4. AnswerIsRecent'
    BY <1>1 DEF Tick, AnswerIsRecent, local
  <2>6. AnswerIsPast'
    BY <1>1, <2>1 DEF Tick, AnswerIsPast, CandlesTypeOK, Answer, Stamps, local
  <2>5. QED
    BY <2>2, <2>3, <2>4, <2>6
<1>2. CASE RestartProcess
  <2>1. 0 \in Stamps
    BY TimeAssumption DEF Stamps
  <2>2. CandlesTypeOK'
    BY <1>2, <2>1, NobodyAssumption DEF RestartProcess, CandlesTypeOK, Answer, NoAnswer
  <2>3. FinalIsClosed' /\ AnswerIsRecent' /\ AnswerIsPast'
    BY <1>2 DEF RestartProcess, CandlesTypeOK, FinalIsClosed, AnswerIsRecent, AnswerIsPast,
                NoAnswer, Stamps
  <2>4. QED
    BY <2>2, <2>3
<1>3. ASSUME NEW l \in Loaders, Hit(l)
      PROVE  CandlesInv'
  <2>1. CandlesTypeOK'
    BY <1>3, NewestIsSubset DEF Hit, CandlesTypeOK, local
  <2>2. FinalIsClosed' /\ AnswerIsRecent' /\ AnswerIsPast'
    BY <1>3 DEF Hit, FinalIsClosed, AnswerIsRecent, AnswerIsPast, local
  <2>3. QED
    BY <2>1, <2>2
<1>4. ASSUME NEW l \in Loaders, Miss(l)
      PROVE  CandlesInv'
  <2>1. /\ Window \in SUBSET Stamps
        /\ Elapsed(Window) \in Nat /\ FetchLimit(Window) \in Nat
    BY RequestSize, NewestIsSubset DEF CandlesTypeOK
  <2>2. CandlesTypeOK'
    <3>1. \A m \in Loaders : pc'[m] # "idle" <=> lock' = m
      BY <1>4, NobodyAssumption DEF Miss, CandlesTypeOK
    <3>2. QED
      BY <1>4, <2>1, <3>1 DEF Miss, CandlesTypeOK
  <2>3. FinalIsClosed' /\ AnswerIsRecent' /\ AnswerIsPast'
    BY <1>4 DEF Miss, CandlesTypeOK, FinalIsClosed, AnswerIsRecent, AnswerIsPast
  <2>4. QED
    BY <2>2, <2>3
<1>5. ASSUME NEW l \in Loaders, Fetch(l)
      PROVE  CandlesInv'
  <2>1. PICK H \in Histories :
            fetched' = [fetched EXCEPT ![l] =
                           [stamps |-> LatestCandles(wanted[l], H), asked |-> now,
                            had |-> Cardinality(H)]]
    BY <1>5 DEF Fetch
  <2>2. [stamps |-> LatestCandles(wanted[l], H), asked |-> now,
         had |-> Cardinality(H)] \in Answer
    BY HistoryIsPast, NewestIsSubset, StampsAreFinite DEF CandlesTypeOK, Answer
  <2>3. CandlesTypeOK'
    BY <1>5, <2>1, <2>2 DEF Fetch, CandlesTypeOK
  <2>4. AnswerIsRecent'
    <3>1. ASSUME NEW m \in Loaders, pc'[m] = "upsert"
          PROVE  m = l
      BY <1>5, <3>1 DEF Fetch, CandlesTypeOK
    <3>2. /\ fetched'[l].stamps \in SUBSET Stamps /\ fetched'[l].asked = now
          /\ store' = store
      BY <1>5, <2>1, <2>2 DEF Fetch, CandlesTypeOK, Answer
    <3>3. QED
      BY <3>1, <3>2 DEF AnswerIsRecent, FinalIsClosed
  <2>5. FinalIsClosed' /\ AnswerIsPast'
    BY <1>5, <2>1, <2>2 DEF Fetch, FinalIsClosed, AnswerIsPast, CandlesTypeOK, Answer, Stamps
  <2>6. QED
    BY <2>3, <2>4, <2>5
<1>6. ASSUME NEW l \in Loaders, Upsert(l)
      PROVE  CandlesInv'
  <2>1. CandlesTypeOK'
    BY <1>6 DEF Upsert, CandlesTypeOK, Value, local
  <2>2. FinalIsClosed'
    <3>1. ASSUME NEW t \in Stamps, store'[t] = "final", t \in fetched[l].stamps
          PROVE  t < now
      (* closed when it was asked for *)
      <4>1. t < fetched[l].asked
        BY <1>6, <3>1 DEF Upsert, Value
      <4>2. QED
        BY <4>1 DEF AnswerIsPast, CandlesTypeOK, Answer, Stamps
    <3>2. QED
      BY <1>6, <3>1 DEF Upsert, FinalIsClosed
  <2>3. AnswerIsRecent' /\ AnswerIsPast'
    BY <1>6 DEF Upsert, CandlesTypeOK, AnswerIsRecent, AnswerIsPast, local
  <2>4. QED
    BY <2>1, <2>2, <2>3
<1>7. ASSUME NEW l \in Loaders, Return(l) \/ Raise(l) \/ Fail(l)
      PROVE  CandlesInv'
  BY <1>7, ReleaseInv, NewestIsSubset DEF Return, Raise, Fail, CandlesTypeOK
<1>8. CASE UNCHANGED candlesVars
  BY <1>8 DEF candlesVars, local, CandlesTypeOK, FinalIsClosed, AnswerIsRecent, AnswerIsPast
<1>9. QED
  BY <1>1, <1>2, <1>3, <1>4, <1>5, <1>6, <1>7, <1>8 DEF CandlesNext

(* The inductive invariant holds.                                          *)
THEOREM CandleInvariance == CandlesSpec => []CandlesInv
<1>1. QED
  BY CandlesInitInv, CandlesStepInv, PTL DEF CandlesSpec

(* Types, and one loader at a time between the decision and the result.    *)
THEOREM CandleTypeCorrect == CandlesSpec => []CandlesTypeOK
<1>1. CandlesInv => CandlesTypeOK
  BY DEF CandlesInv
<1>2. QED
  BY <1>1, CandleInvariance, PTL

(* A candle stored final is never replaced by an older, partial answer.    *)
THEOREM FinalCandlesStay == CandlesSpec => FinalStays
<1>1. ASSUME CandlesInv, [CandlesNext]_candlesVars, NEW t \in Stamps, store[t] = "final"
      PROVE  store'[t] = "final"
  <2>1. CASE \E l \in Loaders : Upsert(l)
    <3>1. PICK l \in Loaders : Upsert(l)
      BY <2>1
    <3>2. t \in fetched[l].stamps => t < fetched[l].asked
      BY <1>1, <3>1 DEF CandlesInv, AnswerIsRecent, Upsert
    <3>3. QED
      BY <1>1, <3>1, <3>2 DEF Upsert, Value
  <2>2. CASE UNCHANGED store
    BY <2>2, <1>1
  <2>3. QED
    BY <1>1, <2>1, <2>2 DEF CandlesNext, candlesVars, Tick, RestartProcess, Hit, Miss, Fetch, Return,
       Raise, Fail, Release
<1>2. CandlesInv /\ [CandlesNext]_candlesVars =>
          [\A t \in Stamps : store[t] = "final" => store'[t] = "final"]_candlesVars
  BY <1>1
<1>3. QED
  BY <1>2, CandleInvariance, PTL DEF CandlesSpec, FinalStays

(* What a load does between its decision and its result: the series it      *)
(* found stays as it was until the answer is stored in it.                  *)
LoadKeeps(l) ==
    pc[l] # "idle" =>
        /\ elapsed[l] > Limit => wanted[l] = Limit
        /\ pc[l] \in {"fetch", "upsert"} => cached[l] = Window
        /\ pc[l] \in {"upsert", "finish"} => ~Gapped(fetched[l].stamps)
        /\ pc[l] = "finish" =>
              \E S \in SUBSET Stamps : /\ cached[l] = LatestCandles(Limit, S)
                                       /\ Stored = S \cup fetched[l].stamps

LoadsKeep == \A l \in Loaders : LoadKeeps(l)

(* The latest candles of an unbroken run are an unbroken run.              *)
LEMMA LatestIsUnbroken ==
    ASSUME NEW H \in SUBSET Stamps, ~Gapped(H), NEW n \in Nat
    PROVE  ~Gapped(LatestCandles(n, H))
<1> DEFINE Above(x) == {y \in H : y > x}
<1>1. SUFFICES ASSUME NEW u \in LatestCandles(n, H), NEW v \in LatestCandles(n, H),
                      NEW t \in Stamps, t \notin LatestCandles(n, H), u < t, t < v
               PROVE  FALSE
  BY DEF Gapped
<1>2. u \in H /\ v \in H /\ Cardinality(Above(u)) < n
  BY DEF LatestCandles
<1>3. t \in H
  BY <1>1, <1>2 DEF Gapped
<1>4. Cardinality(Above(t)) <= Cardinality(Above(u))
  <2>1. H \subseteq Nat /\ u \in Nat /\ t \in Nat
    BY <1>1, <1>2, StampsAreNumbers
  <2>3. Above(t) \subseteq Above(u)
    BY <1>1, <2>1, FewerAreNewer
  <2>2. QED
    BY <2>3, SmallerSet
<1>5. Cardinality(Above(t)) \in Nat /\ Cardinality(Above(u)) \in Nat
  BY StampsAreFinite
<1>6. Cardinality(Above(t)) < n
  BY <1>2, <1>4, <1>5
<1>7. QED
  BY <1>1, <1>3, <1>6 DEF LatestCandles

(* A window that is stored into: a hole needs a hole in what was found or  *)
(* in the answer, or one between them.                                     *)
LEMMA MergedIsUnbroken ==
    ASSUME NEW S \in SUBSET Stamps, NEW F \in SUBSET Stamps,
           ~Gapped(LatestCandles(Limit, S)), ~Gapped(F),
           \/ Cardinality(F) = Limit
           \/ LatestCandles(Limit, S) = {}
           \/ \E f \in F, c \in LatestCandles(Limit, S) : f <= c + 1,
           \/ LatestCandles(Limit, S) = {}
           \/ \E f \in F, c \in LatestCandles(Limit, S) : c <= f + 1
    PROVE  ~Gapped(LatestCandles(Limit, S \cup F))
<1> DEFINE C == LatestCandles(Limit, S)
           W == LatestCandles(Limit, S \cup F)
           Above(x) == {y \in S \cup F : y > x}
           Of(x) == {y \in S : y > x}
<1>1. SUFFICES ASSUME NEW u \in W, NEW v \in W, NEW t \in Stamps, t \notin W, u < t, t < v
               PROVE  FALSE
  BY DEF Gapped
<1>2. C \in SUBSET S /\ W \in SUBSET (S \cup F) /\ Limit \in Nat
  BY SizeAssumption DEF LatestCandles
<1>3. \A x \in Stamps : Cardinality(Above(x)) \in Nat /\ Cardinality(Of(x)) \in Nat
  <2>1. \A x \in Stamps : Above(x) \in SUBSET Stamps /\ Of(x) \in SUBSET Stamps
    OBVIOUS
  <2>2. QED
    BY <2>1, StampsAreFinite
<1>4. \A x \in W : Cardinality(Above(x)) < Limit
  BY DEF LatestCandles
<1>5. t \notin S \cup F
  <2>1. S \cup F \in SUBSET Nat /\ u \in Stamps /\ u \in Nat /\ t \in Nat
    BY <1>1, <1>2, StampsAreNumbers, Zenon
  <2>4. Above(t) \subseteq Above(u)
    BY <1>1, <2>1, FewerAreNewer, Zenon
  <2>2. Cardinality(Above(t)) <= Cardinality(Above(u))
    BY <2>4, SmallerSet
  <2>3. Cardinality(Above(u)) < Limit
    BY <1>1, <1>4
  <2>5. Cardinality(Above(t)) < Limit
    <3>1. Cardinality(Above(t)) \in Nat /\ Cardinality(Above(u)) \in Nat
      BY <1>1, <1>3, <2>1
    <3> HIDE DEF Above
    <3> QED
      BY <2>2, <2>3, <3>1, SizeAssumption
  <2>6. QED
    BY <2>5, <1>1 DEF LatestCandles
<1>6. \A x \in W : x \in C \/ x \in F
  <2>1. SUFFICES ASSUME NEW x \in W, x \in S
                 PROVE  x \in C
    BY <1>2
  <2>2. Of(x) \subseteq Above(x) /\ Above(x) \in SUBSET Stamps
    OBVIOUS
  <2>3. Cardinality(Of(x)) <= Cardinality(Above(x))
    BY <2>2, SmallerSet
  <2>4. Cardinality(Of(x)) < Limit
    <3> HIDE DEF Above, Of, W
    <3> QED
      BY <2>1, <2>3, <1>2, <1>3, <1>4
  <2>5. QED
    BY <2>1, <2>4 DEF LatestCandles
<1>7. t \notin C /\ t \notin F
  BY <1>2, <1>5
<1>8. ~(u \in C /\ v \in C) /\ ~(u \in F /\ v \in F)
  BY <1>1, <1>7 DEF Gapped
<1>9. CASE u \in C /\ v \in F
  <2>1. (\A c \in C : c < t) /\ (\A f \in F : t < f)
    BY <1>1, <1>2, <1>7, <1>9, TimeAssumption DEF Gapped, Stamps
  <2>2. ~\E f \in F, c \in C : f <= c + 1
    <3> HIDE DEF C
    <3> QED
      BY <1>2, <2>1, TimeAssumption DEF Stamps
  <2>3. Cardinality(F) = Limit
    BY <1>9, <2>2
  <2>7. S \cup F \in SUBSET Nat /\ u \in Stamps /\ u \in Nat /\ t \in Nat
    BY <1>1, <1>2, StampsAreNumbers, Zenon
  <2>8. \A f \in F : f \in Nat /\ f > u
    BY <1>1, <2>1, <2>7
  <2>4. F \subseteq Above(u) /\ Above(u) \in SUBSET Stamps
    BY <2>8, Zenon
  <2>5. Cardinality(F) <= Cardinality(Above(u))
    BY <2>4, SmallerSet
  <2>6. QED
    <3>1. Cardinality(Above(u)) \in Nat /\ Cardinality(Above(u)) < Limit
      BY <1>1, <1>3, <1>4, <2>7
    <3> HIDE DEF Above
    <3> QED
      BY <2>3, <2>5, <3>1, SizeAssumption
<1>10. CASE u \in F /\ v \in C
  <2>1. (\A f \in F : f < t) /\ (\A c \in C : t < c)
    BY <1>1, <1>2, <1>7, <1>10, TimeAssumption DEF Gapped, Stamps
  <2>2. ~\E f \in F, c \in C : c <= f + 1
    <3> HIDE DEF C
    <3> QED
      BY <1>2, <2>1, TimeAssumption DEF Stamps
  <2>3. QED
    BY <1>10, <2>2
<1>11. QED
  BY <1>6, <1>8, <1>9, <1>10

(* A route answers with an unbroken run.                                   *)
LEMMA AnswerIsUnbroken ==
    ASSUME now \in Stamps, NEW H \in Histories, NEW n \in Nat
    PROVE  ~Gapped(LatestCandles(n, H))
<1>1. PICK a \in Starts, b \in Max2(0, now - MaxLag)..now : H = a..b
  BY DEF Histories
<1>2. a \in Nat /\ b \in Int
  BY <1>1, TimeAssumption DEF Max2, Stamps
<1>3. ~Gapped(H)
  BY <1>1, <1>2, HistoryIsPast DEF Gapped, Stamps
<1>4. QED
  BY <1>3, HistoryIsPast, LatestIsUnbroken

(* After a stop of more than Limit intervals the whole window is asked for. *)
LEMMA LongStopAsksForAll ==
    ASSUME NEW W \in SUBSET Stamps, now \in Stamps, Elapsed(W) > Limit
    PROVE  FetchLimit(W) = Limit
<1>1. Elapsed(W) \in Nat /\ Cardinality(W) \in Nat
  BY RequestSize, StampsAreFinite
<1>2. QED
  BY <1>1, SizeAssumption DEF FetchLimit, Max2, Min2

LEMMA LoadsStep == CandlesInv /\ LoadsKeep /\ [CandlesNext]_candlesVars => LoadsKeep'
<1> SUFFICES ASSUME CandlesInv, LoadsKeep, [CandlesNext]_candlesVars, NEW m \in Loaders
             PROVE  LoadKeeps(m)'
  BY DEF LoadsKeep
<1> USE DEF CandlesInv
<1>1. CASE UNCHANGED <<store, pc, local>>
  BY <1>1 DEF LoadsKeep, LoadKeeps, local, Window, Stored
<1>2. CASE RestartProcess
  BY <1>2 DEF RestartProcess, LoadKeeps
<1>3. ASSUME NEW l \in Loaders, Miss(l)
      PROVE  LoadKeeps(m)'
  <2>1. CASE m = l
    <3>1. pc'[m] = "fetch" /\ cached'[m] = Window /\ Window' = Window
          /\ elapsed'[m] = Elapsed(Window) /\ wanted'[m] = FetchLimit(Window)
      BY <1>3, <2>1 DEF Miss, CandlesTypeOK, Window, Stored
    <3>2. elapsed'[m] > Limit => wanted'[m] = Limit
      BY <3>1, LongStopAsksForAll, NewestIsSubset DEF CandlesTypeOK
    <3>3. QED
      BY <3>1, <3>2 DEF LoadKeeps
  <2>2. CASE m # l
    BY <1>3, <2>2, NobodyAssumption DEF Miss, CandlesTypeOK, LoadKeeps
  <2>3. QED
    BY <2>1, <2>2
<1>4. ASSUME NEW l \in Loaders, Fetch(l)
      PROVE  LoadKeeps(m)'
  <2>1. CASE m = l
    <3>1. PICK H \in Histories : fetched'[m].stamps = LatestCandles(wanted[m], H)
      BY <1>4, <2>1 DEF Fetch, CandlesTypeOK
    <3>2. ~Gapped(fetched'[m].stamps)
      BY <3>1, AnswerIsUnbroken DEF CandlesTypeOK
    <3>3. /\ pc[m] = "fetch" /\ pc'[m] = "upsert" /\ UNCHANGED <<store, cached, elapsed, wanted>>
      BY <1>4, <2>1 DEF Fetch, CandlesTypeOK
    <3>4. QED
      BY <3>2, <3>3 DEF LoadsKeep, LoadKeeps, Window, Stored, Gapped
  <2>2. CASE m # l
    BY <1>4, <2>2 DEF Fetch, CandlesTypeOK, LoadKeeps
  <2>3. QED
    BY <2>1, <2>2
<1>5. ASSUME NEW l \in Loaders, Upsert(l)
      PROVE  LoadKeeps(m)'
  <2>1. CASE m = l
    <3>1. /\ pc[m] = "upsert" /\ pc'[m] = "finish" /\ UNCHANGED local
          /\ store' = [t \in Stamps |->
                 IF t \in fetched[m].stamps THEN Value(t, fetched[m]) ELSE store[t]]
      BY <1>5, <2>1 DEF Upsert, CandlesTypeOK
    <3>2. fetched[m].stamps \in SUBSET Stamps
      BY DEF CandlesTypeOK, Answer
    <3>3. Stored' = Stored \cup fetched[m].stamps
      BY <3>1, <3>2 DEF Stored, Value
    <3>4. cached[m] = LatestCandles(Limit, Stored) /\ Stored \in SUBSET Stamps
      BY <3>1 DEF LoadsKeep, LoadKeeps, Window, Stored
    <3>5. QED
      BY <3>1, <3>3, <3>4 DEF LoadsKeep, LoadKeeps, local, Gapped
  <2>2. CASE m # l
    BY <1>5, <2>2 DEF Upsert, CandlesTypeOK, LoadKeeps
  <2>3. QED
    BY <2>1, <2>2
<1>6. ASSUME NEW l \in Loaders, Release(l), pc[l] # "idle"
      PROVE  LoadKeeps(m)'
  BY <1>6 DEF Release, CandlesTypeOK, LoadKeeps
<1>7. QED
  BY <1>1, <1>2, <1>3, <1>4, <1>5, <1>6
     DEF CandlesNext, Tick, Hit, Return, Raise, Fail, candlesVars

(* A load keeps the series it found until its answer is stored in it.      *)
LEMMA LoadsInvariance == CandlesSpec => [](CandlesInv /\ LoadsKeep)
<1>1. CandlesInit => LoadsKeep
  BY DEF CandlesInit, LoadsKeep, LoadKeeps
<1>2. QED
  BY <1>1, LoadsStep, CandleInvariance, PTL DEF CandlesSpec

(* What a refresh returns has no hole that it made.                        *)
LEMMA ReturnedIsUnbroken ==
    ASSUME CandlesInv, LoadsKeep, NEW l \in Loaders, Return(l),
           ~Gapped(cached[l]), Reaches(l),
           elapsed[l] > Limit => Cardinality(fetched[l].stamps) = wanted[l]
    PROVE  ~Gapped(Window)
<1> DEFINE F == fetched[l].stamps
           C == cached[l]
<1>1. pc[l] = "finish" /\ ~Gap(l)
  BY DEF Return
<1>2. PICK S \in SUBSET Stamps : C = LatestCandles(Limit, S) /\ Stored = S \cup F
  BY <1>1 DEF LoadsKeep, LoadKeeps
<1>3. F \in SUBSET Stamps /\ C \in SUBSET Stamps /\ elapsed[l] \in Nat
  BY DEF CandlesInv, CandlesTypeOK, Answer
<1>4. ~Gapped(F)
  BY <1>1 DEF LoadsKeep, LoadKeeps
<1>5. elapsed[l] > Limit => Cardinality(F) = Limit
  BY <1>1 DEF LoadsKeep, LoadKeeps
<1>6. elapsed[l] <= Limit /\ C # {} => \E f \in F, c \in C : f <= c + 1
  <2>1. SUFFICES ASSUME elapsed[l] <= Limit, C # {}
                 PROVE  \E f \in F, c \in C : f <= c + 1
    OBVIOUS
  <2>2. F # {} /\ ~(Min(F) > Max(C) + 1)
    BY <1>1, <2>1 DEF Gap
  <2>3. Min(F) \in F /\ Min(F) \in Nat
    BY <1>3, <2>2, OldestStamp DEF Stamps
  <2>4. Max(C) \in C /\ Max(C) \in Nat
    BY <1>3, <2>1, NewestStamp DEF Stamps
  <2>5. QED
    BY <2>2, <2>3, <2>4
<1>7. C # {} => \E f \in F, c \in C : c <= f + 1
  BY DEF Reaches
<1>8. ~Gapped(LatestCandles(Limit, S \cup F))
  BY <1>2, <1>3, <1>4, <1>5, <1>6, <1>7, SizeAssumption, MergedIsUnbroken
<1>9. QED
  BY <1>2, <1>8 DEF Window

(* A gap a refresh makes in the window is reported, for any window, tail   *)
(* and lag of the routes.                                                  *)
THEOREM GapsAreReported == CandlesSpec => GapReported
<1>1. ASSUME CandlesInv, LoadsKeep, [CandlesNext]_candlesVars, NEW l \in Loaders,
             pc[l] = "finish", batch'[l] # batch[l], ~Gapped(cached[l]), Reaches(l),
             elapsed[l] > Limit => Cardinality(fetched[l].stamps) = wanted[l]
      PROVE  ~Gapped(batch'[l])
  <2>1. CASE RestartProcess
    BY <2>1 DEF RestartProcess, Gapped
  <2>2. CASE Return(l)
    <3>1. batch' = [batch EXCEPT ![l] = Window] /\ batch \in [Loaders -> SUBSET Stamps]
      BY <1>1, <2>2 DEF Return, CandlesInv, CandlesTypeOK
    <3>2. QED
      BY <1>1, <2>2, <3>1, ReturnedIsUnbroken, Zenon
  <2>3. ASSUME ~RestartProcess, ~Return(l)
        PROVE  FALSE
    <3>1. ASSUME NEW k \in Loaders, k # l
          PROVE  ~(Hit(k) \/ Miss(k) \/ Fetch(k) \/ Upsert(k) \/ Return(k) \/ Raise(k) \/ Fail(k))
      <4>1. pc[k] = "idle" /\ lock = l /\ lock # Nobody
        BY <1>1, <3>1, NobodyAssumption DEF CandlesInv, CandlesTypeOK
      <4>2. QED
        BY <4>1 DEF Hit, Miss, Fetch, Upsert, Return, Raise, Fail
    <3>2. ~Hit(l) /\ ~Miss(l) /\ ~Fetch(l) /\ ~Upsert(l) /\ ~Fail(l)
      BY <1>1 DEF Hit, Miss, Fetch, Upsert, Fail
    <3>3. ~Tick /\ ~Raise(l) /\ ~UNCHANGED candlesVars
      BY <1>1 DEF Tick, Raise, candlesVars
    <3>4. QED
      BY <1>1, <2>3, <3>1, <3>2, <3>3 DEF CandlesNext
  <2>4. QED
    BY <2>1, <2>2, <2>3
<1>2. CandlesInv /\ LoadsKeep /\ [CandlesNext]_candlesVars =>
          [\A l \in Loaders :
              /\ pc[l] = "finish" /\ batch'[l] # batch[l]
              /\ ~Gapped(cached[l])
              /\ Reaches(l)
              /\ elapsed[l] > Limit => Cardinality(fetched[l].stamps) = wanted[l]
              => ~Gapped(batch'[l])]_candlesVars
  BY <1>1
<1>3. QED
  BY <1>2, LoadsInvariance, PTL DEF CandlesSpec, GapReported
-----------------------------------------------------------------------------
(* The windows and the swings an incremental state keeps are those of the  *)
(* whole series.                                                           *)

LEMMA NewestProperties ==
    ASSUME NEW S, NEW s \in Seq(S), NEW n \in Nat, n <= Len(s)
    PROVE  /\ Newest(s, n) \in Seq(S)
           /\ Len(Newest(s, n)) = n
           /\ \A i \in 1..n : Newest(s, n)[i] = s[Len(s) - n + i]
<1> DEFINE m == Len(s) - n + 1
<1>1. Len(s) \in Nat /\ m \in Int /\ m >= 1 /\ \A i \in m .. Len(s) : s[i] \in S
  BY LenProperties, ElementOfSeq
<1>2. /\ SubSeq(s, m, Len(s)) \in Seq(S)
      /\ Len(SubSeq(s, m, Len(s))) = IF m <= Len(s) THEN Len(s) - m + 1 ELSE 0
      /\ \A i \in 1 .. Len(s) - m + 1 : SubSeq(s, m, Len(s))[i] = s[m + i - 1]
  <2> HIDE DEF m
  <2> QED BY <1>1, SubSeqProperties
<1>3. Newest(s, n) = SubSeq(s, m, Len(s))
  BY DEF Newest
<1>4. Len(s) - m + 1 = n /\ \A i \in 1..n : m + i - 1 = Len(s) - n + i
  BY <1>1
<1>5. Len(Newest(s, n)) = n
  BY <1>1, <1>2, <1>3, <1>4
<1> QED BY <1>2, <1>3, <1>4, <1>5

(* A window that is appended to and cut is the end of the longer series.     *)
LEMMA KeepIsAtMost ==
    ASSUME NEW S, NEW s \in Seq(S), NEW e \in S, NEW n \in Nat \ {0}
    PROVE  Keep(AtMost(s, n), e, n) = AtMost(Append(s, e), n)
<1> DEFINE t == Append(s, e)
<1>1. /\ t \in Seq(S) /\ Len(t) = Len(s) + 1 /\ Len(s) \in Nat
      /\ \A i \in 1..Len(s) : t[i] = s[i]
      /\ t[Len(s) + 1] = e
  OBVIOUS
<1>2. CASE Len(s) <= n
  BY <1>1, <1>2 DEF Keep, AtMost
<1>3. CASE Len(s) > n
  <2> DEFINE w == Newest(s, n)
             v == Append(w, e)
  <2>1. /\ w \in Seq(S) /\ Len(w) = n
        /\ \A i \in 1..n : w[i] = s[Len(s) - n + i]
    BY <1>1, <1>3, NewestProperties
  <2>2. /\ v \in Seq(S) /\ Len(v) = n + 1
        /\ \A i \in 1..n : v[i] = w[i]
        /\ v[n + 1] = e
    <3> HIDE DEF w
    <3> QED BY <2>1
  <2>3. AtMost(s, n) = w /\ AtMost(t, n) = Newest(t, n)
    BY <1>1, <1>3 DEF AtMost
  <2>4. Keep(w, e, n) = Newest(v, n)
    BY <2>2 DEF Keep
  <2>5. /\ Newest(v, n) \in Seq(S) /\ Len(Newest(v, n)) = n
        /\ \A i \in 1..n : Newest(v, n)[i] = v[i + 1]
    <3>1. n <= Len(v) /\ \A i \in 1..n : Len(v) - n + i = i + 1
      BY <2>2
    <3>2. v \in Seq(S) /\ n \in Nat
      BY <2>2
    <3> HIDE DEF v
    <3>3. /\ Newest(v, n) \in Seq(S) /\ Len(Newest(v, n)) = n
          /\ \A i \in 1..n : Newest(v, n)[i] = v[Len(v) - n + i]
      BY <3>1, <3>2, NewestProperties
    <3> QED BY <3>1, <3>3
  <2>6. /\ Newest(t, n) \in Seq(S) /\ Len(Newest(t, n)) = n
        /\ \A i \in 1..n : Newest(t, n)[i] = t[Len(s) - n + (i + 1)]
    <3>1. n <= Len(t) /\ \A i \in 1..n : Len(t) - n + i = Len(s) - n + (i + 1)
      BY <1>1, <1>3
    <3>3. t \in Seq(S) /\ n \in Nat
      BY <1>1
    <3> HIDE DEF t
    <3>2. /\ Newest(t, n) \in Seq(S) /\ Len(Newest(t, n)) = n
          /\ \A i \in 1..n : Newest(t, n)[i] = t[Len(t) - n + i]
      BY <3>1, <3>3, NewestProperties
    <3> QED BY <3>1, <3>2
  <2>7. ASSUME NEW i \in 1..n PROVE v[i + 1] = t[Len(s) - n + (i + 1)]
    <3> HIDE DEF v, t, w
    <3>1. CASE i < n
      <4>1. i + 1 \in 1..n /\ Len(s) - n + (i + 1) \in 1..Len(s)
        BY <3>1, <1>1, <1>3
      <4> QED BY <4>1, <1>1, <2>1, <2>2
    <3>2. CASE i = n
      <4>1. Len(s) - n + (i + 1) = Len(s) + 1 /\ i + 1 = n + 1
        BY <3>2, <1>1
      <4> QED BY <4>1, <1>1, <2>2
    <3> QED BY <3>1, <3>2
  <2>8. Newest(v, n) = Newest(t, n)
    <3> HIDE DEF v, t
    <3> QED BY <2>5, <2>6, <2>7, SeqEqual
  <2> QED BY <2>3, <2>4, <2>8
<1> QED BY <1>1, <1>2, <1>3

(* The newest entries of a series that is cut are its newest entries.        *)
LEMMA NewestOfAtMost ==
    ASSUME NEW S, NEW s \in Seq(S), NEW n \in Nat, NEW m \in Nat, m <= n, m <= Len(s)
    PROVE  Newest(AtMost(s, n), m) = Newest(s, m)
<1>1. CASE Len(s) <= n
  BY <1>1 DEF AtMost
<1>2. CASE Len(s) > n
  <2> DEFINE w == Newest(s, n)
  <2>1. /\ w \in Seq(S) /\ Len(w) = n /\ Len(s) \in Nat
        /\ \A i \in 1..n : w[i] = s[Len(s) - n + i]
    BY <1>2, NewestProperties
  <2>2. AtMost(s, n) = w
    BY <1>2 DEF AtMost
  <2>3. /\ Newest(s, m) \in Seq(S) /\ Len(Newest(s, m)) = m
        /\ \A i \in 1..m : Newest(s, m)[i] = s[Len(s) - m + i]
    BY NewestProperties
  <2>4. /\ Newest(w, m) \in Seq(S) /\ Len(Newest(w, m)) = m
        /\ \A i \in 1..m : Newest(w, m)[i] = w[n - m + i]
    <3> HIDE DEF w
    <3> QED BY <2>1, NewestProperties
  <2>5. ASSUME NEW i \in 1..m PROVE w[n - m + i] = s[Len(s) - m + i]
    <3>1. n - m + i \in 1..n /\ Len(s) - n + (n - m + i) = Len(s) - m + i
      BY <2>1
    <3> HIDE DEF w
    <3> QED BY <2>1, <3>1
  <2>6. Newest(w, m) = Newest(s, m)
    <3> HIDE DEF w
    <3> QED BY <2>3, <2>4, <2>5, SeqEqual
  <2> QED BY <2>2, <2>6
<1> QED BY <1>1, <1>2
-----------------------------------------------------------------------------
(* A new candle can only make the candle Pivot before it a swing: the window
   of the newest 2 * Pivot + 1 candles decides, and no swing is revised.     *)
NewSwing(t, found) == IF Len(t) >= 2 * Pivot + 1 /\ found THEN {Len(t) - Pivot} ELSE {}

LEMMA WindowOfSwing ==
    ASSUME NEW S, NEW t \in Seq(S), Len(t) >= 2 * Pivot + 1
    PROVE  LET w == Newest(t, 2 * Pivot + 1)
               i == Len(t) - Pivot
           IN /\ w[Pivot + 1] = t[i]
              /\ \A k \in 1..Pivot : w[k] = t[i - Pivot - 1 + k] /\ i - Pivot - 1 + k \in i - Pivot .. i - 1
              /\ \A j \in i - Pivot .. i - 1 : j - (i - Pivot - 1) \in 1..Pivot /\ t[j] = w[j - (i - Pivot - 1)]
              /\ \A k \in Pivot + 2 .. 2 * Pivot + 1 :
                    w[k] = t[i - Pivot - 1 + k] /\ i - Pivot - 1 + k \in i + 1 .. i + Pivot
              /\ \A j \in i + 1 .. i + Pivot :
                    j - (i - Pivot - 1) \in Pivot + 2 .. 2 * Pivot + 1 /\ t[j] = w[j - (i - Pivot - 1)]
<1> DEFINE n == 2 * Pivot + 1
           i == Len(t) - Pivot
<1>1. Pivot \in Nat /\ Pivot >= 1 /\ n \in Nat /\ n <= Len(t) /\ Len(t) \in Nat
  BY PivotAssumption
<1>2. \A k \in 1..n : Newest(t, n)[k] = t[Len(t) - n + k]
  <2> HIDE DEF n
  <2> QED BY <1>1, NewestProperties
<1>3. Len(t) - n = i - Pivot - 1 /\ i \in Int
  BY <1>1
<1>4. \A k \in 1..n : Newest(t, n)[k] = t[i - Pivot - 1 + k]
  BY <1>2, <1>3
<1>5. Newest(t, n)[Pivot + 1] = t[i]
  <2>1. Pivot + 1 \in 1..n /\ i - Pivot - 1 + (Pivot + 1) = i
    BY <1>1
  <2> QED BY <2>1, <1>4
<1>6. \A k \in 1..Pivot : k \in 1..n /\ i - Pivot - 1 + k \in i - Pivot .. i - 1
  BY <1>1
<1>7. \A k \in Pivot + 2 .. 2 * Pivot + 1 : k \in 1..n /\ i - Pivot - 1 + k \in i + 1 .. i + Pivot
  BY <1>1
<1>8. ASSUME NEW j \in i - Pivot .. i - 1
      PROVE  j - (i - Pivot - 1) \in 1..Pivot /\ t[j] = Newest(t, n)[j - (i - Pivot - 1)]
  <2>1. j - (i - Pivot - 1) \in 1..Pivot /\ j - (i - Pivot - 1) \in 1..n /\ i - Pivot - 1 + (j - (i - Pivot - 1)) = j
    BY <1>1
  <2> QED BY <2>1, <1>4
<1>9. ASSUME NEW j \in i + 1 .. i + Pivot
      PROVE  j - (i - Pivot - 1) \in Pivot + 2 .. 2 * Pivot + 1 /\ t[j] = Newest(t, n)[j - (i - Pivot - 1)]
  <2>1. j - (i - Pivot - 1) \in Pivot + 2 .. 2 * Pivot + 1 /\ j - (i - Pivot - 1) \in 1..n /\ i - Pivot - 1 + (j - (i - Pivot - 1)) = j
    BY <1>1
  <2> QED BY <2>1, <1>4
<1> HIDE DEF n
<1> QED BY <1>4, <1>5, <1>6, <1>7, <1>8, <1>9 DEF n

(* The swing highs after one more candle.                                    *)
THEOREM ConfirmedHighs ==
    ASSUME NEW S, NEW c \in Seq(S), NEW e \in S
    PROVE  LET t == Append(c, e)
           IN SwingHighs(t) = SwingHighs(c) \cup NewSwing(t, IsHigh(Newest(t, 2 * Pivot + 1)))
<1> DEFINE t == Append(c, e)
           w == Newest(t, 2 * Pivot + 1)
           p == Len(t) - Pivot
<1>1. /\ t \in Seq(S) /\ Len(t) = Len(c) + 1 /\ Len(c) \in Nat
      /\ \A j \in 1..Len(c) : t[j] = c[j]
  OBVIOUS
<1>2. Pivot \in Nat /\ Pivot >= 1
  BY PivotAssumption
<1> HIDE DEF t
<1>3. ASSUME NEW i \in Pivot + 1 .. Len(c) - Pivot
      PROVE  i \in SwingHighs(t) <=> i \in SwingHighs(c)
  <2>2. /\ i \in Pivot + 1 .. Len(t) - Pivot /\ i \in 1..Len(c)
        /\ \A j \in i - Pivot .. i - 1 : j \in 1..Len(c)
        /\ \A j \in i + 1 .. i + Pivot : j \in 1..Len(c)
    <3>1. Len(t) = Len(c) + 1 /\ Len(c) \in Nat
      BY <1>1
    <3> QED
      BY <1>2, <3>1
  <2>1. /\ i \in Pivot + 1 .. Len(t) - Pivot /\ t[i] = c[i]
        /\ \A j \in i - Pivot .. i - 1 : t[j] = c[j]
        /\ \A j \in i + 1 .. i + Pivot : t[j] = c[j]
    BY <1>1, <2>2, Zenon
  <2> QED BY <2>1 DEF SwingHighs
<1>4. SwingHighs(t) \subseteq Pivot + 1 .. Len(t) - Pivot /\ SwingHighs(c) \subseteq Pivot + 1 .. Len(c) - Pivot
  BY DEF SwingHighs
<1>5. Pivot + 1 .. Len(t) - Pivot =
         (Pivot + 1 .. Len(c) - Pivot) \cup (IF Len(t) >= 2 * Pivot + 1 THEN {p} ELSE {})
  BY <1>1, <1>2
<1>6. p \notin Pivot + 1 .. Len(c) - Pivot
  BY <1>1, <1>2
<1>7. ASSUME Len(t) >= 2 * Pivot + 1 PROVE p \in SwingHighs(t) <=> IsHigh(w)
  <2>1. p \in Pivot + 1 .. Len(t) - Pivot
    BY <1>1, <1>2, <1>7
  <2>2. p \in SwingHighs(t) <=> /\ \A j \in p - Pivot .. p - 1 : t[p].high > t[j].high
                                /\ \A j \in p + 1 .. p + Pivot : t[p].high >= t[j].high
    <3> HIDE DEF p
    <3> QED BY <2>1 DEF SwingHighs
  <2>3. /\ w[Pivot + 1] = t[p]
        /\ \A k \in 1..Pivot : w[k] = t[p - Pivot - 1 + k] /\ p - Pivot - 1 + k \in p - Pivot .. p - 1
        /\ \A j \in p - Pivot .. p - 1 : j - (p - Pivot - 1) \in 1..Pivot /\ t[j] = w[j - (p - Pivot - 1)]
        /\ \A k \in Pivot + 2 .. 2 * Pivot + 1 :
              w[k] = t[p - Pivot - 1 + k] /\ p - Pivot - 1 + k \in p + 1 .. p + Pivot
        /\ \A j \in p + 1 .. p + Pivot :
              j - (p - Pivot - 1) \in Pivot + 2 .. 2 * Pivot + 1 /\ t[j] = w[j - (p - Pivot - 1)]
    BY <1>1, <1>7, WindowOfSwing
  <2> HIDE DEF p, w
  <2>4. ASSUME IsHigh(w) PROVE p \in SwingHighs(t)
    BY <2>2, <2>3, <2>4 DEF IsHigh
  <2>5. ASSUME p \in SwingHighs(t) PROVE IsHigh(w)
    BY <2>2, <2>3, <2>5 DEF IsHigh
  <2> QED BY <2>4, <2>5
<1> HIDE DEF p, w
<1>8. SwingHighs(t) = SwingHighs(c) \cup (IF Len(t) >= 2 * Pivot + 1 /\ IsHigh(w) THEN {p} ELSE {})
  BY <1>3, <1>4, <1>5, <1>6, <1>7
<1> QED BY <1>8 DEF t, p, w, NewSwing

(* The swing lows after one more candle.                                     *)
THEOREM ConfirmedLows ==
    ASSUME NEW S, NEW c \in Seq(S), NEW e \in S
    PROVE  LET t == Append(c, e)
           IN SwingLows(t) = SwingLows(c) \cup NewSwing(t, IsLow(Newest(t, 2 * Pivot + 1)))
<1> DEFINE t == Append(c, e)
           w == Newest(t, 2 * Pivot + 1)
           p == Len(t) - Pivot
<1>1. /\ t \in Seq(S) /\ Len(t) = Len(c) + 1 /\ Len(c) \in Nat
      /\ \A j \in 1..Len(c) : t[j] = c[j]
  OBVIOUS
<1>2. Pivot \in Nat /\ Pivot >= 1
  BY PivotAssumption
<1> HIDE DEF t
<1>3. ASSUME NEW i \in Pivot + 1 .. Len(c) - Pivot
      PROVE  i \in SwingLows(t) <=> i \in SwingLows(c)
  <2>2. /\ i \in Pivot + 1 .. Len(t) - Pivot /\ i \in 1..Len(c)
        /\ \A j \in i - Pivot .. i - 1 : j \in 1..Len(c)
        /\ \A j \in i + 1 .. i + Pivot : j \in 1..Len(c)
    <3>1. Len(t) = Len(c) + 1 /\ Len(c) \in Nat
      BY <1>1
    <3> QED
      BY <1>2, <3>1
  <2>1. /\ i \in Pivot + 1 .. Len(t) - Pivot /\ t[i] = c[i]
        /\ \A j \in i - Pivot .. i - 1 : t[j] = c[j]
        /\ \A j \in i + 1 .. i + Pivot : t[j] = c[j]
    BY <1>1, <2>2, Zenon
  <2> QED BY <2>1 DEF SwingLows
<1>4. SwingLows(t) \subseteq Pivot + 1 .. Len(t) - Pivot /\ SwingLows(c) \subseteq Pivot + 1 .. Len(c) - Pivot
  BY DEF SwingLows
<1>5. Pivot + 1 .. Len(t) - Pivot =
         (Pivot + 1 .. Len(c) - Pivot) \cup (IF Len(t) >= 2 * Pivot + 1 THEN {p} ELSE {})
  BY <1>1, <1>2
<1>6. p \notin Pivot + 1 .. Len(c) - Pivot
  BY <1>1, <1>2
<1>7. ASSUME Len(t) >= 2 * Pivot + 1 PROVE p \in SwingLows(t) <=> IsLow(w)
  <2>1. p \in Pivot + 1 .. Len(t) - Pivot
    BY <1>1, <1>2, <1>7
  <2>2. p \in SwingLows(t) <=>  /\ \A j \in p - Pivot .. p - 1 : t[p].low < t[j].low
                                /\ \A j \in p + 1 .. p + Pivot : t[p].low <= t[j].low
    <3> HIDE DEF p
    <3> QED BY <2>1 DEF SwingLows
  <2>3. /\ w[Pivot + 1] = t[p]
        /\ \A k \in 1..Pivot : w[k] = t[p - Pivot - 1 + k] /\ p - Pivot - 1 + k \in p - Pivot .. p - 1
        /\ \A j \in p - Pivot .. p - 1 : j - (p - Pivot - 1) \in 1..Pivot /\ t[j] = w[j - (p - Pivot - 1)]
        /\ \A k \in Pivot + 2 .. 2 * Pivot + 1 :
              w[k] = t[p - Pivot - 1 + k] /\ p - Pivot - 1 + k \in p + 1 .. p + Pivot
        /\ \A j \in p + 1 .. p + Pivot :
              j - (p - Pivot - 1) \in Pivot + 2 .. 2 * Pivot + 1 /\ t[j] = w[j - (p - Pivot - 1)]
    BY <1>1, <1>7, WindowOfSwing
  <2> HIDE DEF p, w
  <2>4. ASSUME IsLow(w) PROVE p \in SwingLows(t)
    BY <2>2, <2>3, <2>4 DEF IsLow
  <2>5. ASSUME p \in SwingLows(t) PROVE IsLow(w)
    BY <2>2, <2>3, <2>5 DEF IsLow
  <2> QED BY <2>4, <2>5
<1> HIDE DEF p, w
<1>8. SwingLows(t) = SwingLows(c) \cup (IF Len(t) >= 2 * Pivot + 1 /\ IsLow(w) THEN {p} ELSE {})
  BY <1>3, <1>4, <1>5, <1>6, <1>7
<1> QED BY <1>8 DEF t, p, w, NewSwing

(* What the strategy was shown as a swing stays one: the backtest may keep
   its swings for good.                                                      *)
THEOREM ConfirmedSwingsStay ==
    ASSUME NEW S, NEW c \in Seq(S), NEW e \in S
    PROVE  /\ SwingHighs(c) \subseteq SwingHighs(Append(c, e))
           /\ SwingLows(c) \subseteq SwingLows(Append(c, e))
  BY ConfirmedHighs, ConfirmedLows

-----------------------------------------------------------------------------
(* The swings a state keeps are those of the series, in order.               *)
Lists(points, H) ==
    /\ \A k \in 1..Len(points) : points[k].index \in H
    /\ \A i \in H : \E k \in 1..Len(points) : points[k].index = i
    /\ \A k, l \in 1..Len(points) : k < l => points[k].index < points[l].index

SwingPoints == [price : Int, index : Nat]

(* The state holds what it is to hold of the series.                         *)
Matches(state, c) ==
    /\ state.count = Len(c)
    /\ state.candles = AtMost(c, Recent)
    /\ state.highs \in Seq(SwingPoints) /\ Lists(state.highs, SwingHighs(c))
    /\ \A k \in 1..Len(state.highs) : state.highs[k].price = c[state.highs[k].index].high
    /\ state.lows \in Seq(SwingPoints) /\ Lists(state.lows, SwingLows(c))
    /\ \A k \in 1..Len(state.lows) : state.lows[k].price = c[state.lows[k].index].low

Candles == [high : Int, low : Int, close : Int, volume : Int]

LEMMA ListsAppend ==
    ASSUME NEW points \in Seq(SwingPoints), NEW H, Lists(points, H),
           NEW i \in Nat, \A j \in H : j < i,
           NEW price \in Int
    PROVE  LET q == Append(points, [price |-> price, index |-> i])
           IN q \in Seq(SwingPoints) /\ Lists(q, H \cup {i})
<1> DEFINE e == [price |-> price, index |-> i]
           q == Append(points, e)
<1>1. e \in SwingPoints /\ e.index = i
  BY DEF SwingPoints
<1> HIDE DEF e
<1>2. /\ q \in Seq(SwingPoints) /\ Len(q) = Len(points) + 1 /\ Len(points) \in Nat
      /\ \A k \in 1..Len(points) : q[k] = points[k]
      /\ q[Len(points) + 1] = e
  BY <1>1
<1> HIDE DEF q
<1>3. \A k \in 1..Len(q) : q[k].index \in H \cup {i}
  BY <1>1, <1>2 DEF Lists
<1>4. \A h \in H \cup {i} : \E k \in 1..Len(q) : q[k].index = h
  <2> SUFFICES ASSUME NEW h \in H \cup {i} PROVE \E k \in 1..Len(q) : q[k].index = h
    OBVIOUS
  <2>1. CASE h = i
    BY <2>1, <1>1, <1>2
  <2>2. CASE h \in H
    <3>1. PICK k \in 1..Len(points) : points[k].index = h
      BY <2>2 DEF Lists
    <3>2. k \in 1..Len(q) /\ q[k].index = h
      BY <3>1, <1>2
    <3> QED BY <3>2
  <2> QED BY <2>1, <2>2
<1>5. ASSUME NEW k \in 1..Len(q), NEW l \in 1..Len(q), k < l PROVE q[k].index < q[l].index
  <2>1. k \in 1..Len(points)
    BY <1>2, <1>5
  <2>2. CASE l \in 1..Len(points)
    BY <1>2, <1>5, <2>1, <2>2 DEF Lists
  <2>3. CASE l = Len(points) + 1
    <3>1. q[l].index = i /\ q[k].index = points[k].index /\ points[k].index \in H
      BY <2>1, <2>3, <1>1, <1>2 DEF Lists
    <3> QED BY <3>1
  <2> QED BY <1>2, <2>2, <2>3
<1> QED BY <1>2, <1>3, <1>4, <1>5 DEF q, e, Lists

(* A state begins with nothing.                                              *)
THEOREM StartMatches == Matches(Start, << >>)
<1>1. SwingHighs(<< >>) = {} /\ SwingLows(<< >>) = {}
  BY PivotAssumption DEF SwingHighs, SwingLows
<1>2. AtMost(<< >>, Recent) = << >>
  BY WindowAssumption DEF AtMost
<1> QED BY <1>1, <1>2 DEF Matches, Start, Lists

LEMMA SwingsAreThere ==
    ASSUME NEW c, Len(c) \in Nat
    PROVE  /\ \A i \in SwingHighs(c) : i \in 1..Len(c) /\ i <= Len(c) - Pivot
           /\ \A i \in SwingLows(c) : i \in 1..Len(c) /\ i <= Len(c) - Pivot
  BY PivotAssumption DEF SwingHighs, SwingLows

LEMMA PushedSwings ==
    ASSUME NEW c \in Seq(Candles), NEW e \in Candles,
           NEW points \in Seq(SwingPoints), NEW H, Lists(points, H),
           \A i \in H : i \in 1..Len(c) /\ i <= Len(c) - Pivot,
           NEW found, NEW price,
           Len(c) + 1 >= 2 * Pivot + 1 => price \in Int
    PROVE  LET t == Append(c, e)
               q == UpdateSwings(points, Len(c) + 1, found, price)
           IN /\ q \in Seq(SwingPoints)
              /\ Lists(q, H \cup NewSwing(t, found))
              /\ \A k \in 1..Len(q) : \/ k \in 1..Len(points) /\ q[k] = points[k]
                                      \/ /\ q[k].index = Len(c) + 1 - Pivot /\ q[k].price = price
                                         /\ Len(c) + 1 >= 2 * Pivot + 1
<1> DEFINE t == Append(c, e)
           q == UpdateSwings(points, Len(c) + 1, found, price)
           i == Len(c) + 1 - Pivot
<1>1. Len(t) = Len(c) + 1 /\ Len(c) \in Nat /\ Pivot \in Nat /\ Pivot >= 1
  BY PivotAssumption
<1> HIDE DEF t
<1>2. CASE Len(c) + 1 >= 2 * Pivot + 1 /\ found
  <2>1. i \in Nat /\ (\A j \in H : j < i) /\ price \in Int
    BY <1>1, <1>2
  <2>2. q = Append(points, [price |-> price, index |-> i])
    BY <1>1, <1>2 DEF UpdateSwings
  <2>3. NewSwing(t, found) = {i}
    BY <1>1, <1>2 DEF NewSwing
  <2> HIDE DEF q, i
  <2>4. q \in Seq(SwingPoints) /\ Lists(q, H \cup {i})
    BY <2>1, <2>2, ListsAppend
  <2>5. \A k \in 1..Len(q) : \/ k \in 1..Len(points) /\ q[k] = points[k]
                             \/ q[k].index = i /\ q[k].price = price
    <3>1. [price |-> price, index |-> i] \in SwingPoints
      BY <2>1 DEF SwingPoints
    <3> QED BY <2>2, <3>1
  <2> QED BY <2>3, <2>4, <2>5, <1>2 DEF q, t, i
<1>3. CASE ~(Len(c) + 1 >= 2 * Pivot + 1 /\ found)
  <2>1. q = points
    BY <1>1, <1>3 DEF UpdateSwings
  <2>2. NewSwing(t, found) = {}
    BY <1>1, <1>3 DEF NewSwing
  <2>3. H \cup {} = H
    OBVIOUS
  <2> QED BY <2>1, <2>2, <2>3 DEF t, q
<1> QED BY <1>2, <1>3

(* A state that matches a series matches it with one more candle after Push:
   the window is the end of the series and the swings are all its swings,
   with their prices.                                                        *)
THEOREM PushMatches ==
    ASSUME NEW c \in Seq(Candles), NEW e \in Candles, NEW state, Matches(state, c)
    PROVE  Matches(Push(state, e), Append(c, e))
<1> DEFINE t == Append(c, e)
           w == Newest(t, 2 * Pivot + 1)
           next == Push(state, e)
<1>1. /\ t \in Seq(Candles) /\ Len(t) = Len(c) + 1 /\ Len(c) \in Nat
      /\ \A j \in 1..Len(c) : t[j] = c[j]
  OBVIOUS
<1>2. Pivot \in Nat /\ Pivot >= 1 /\ Recent \in Nat \ {0} /\ Recent >= 2 * Pivot + 1
  BY PivotAssumption, WindowAssumption
<1>3. Keep(state.candles, e, Recent) = AtMost(t, Recent)
  BY <1>2, KeepIsAtMost DEF Matches
<1> HIDE DEF t
<1>4. Len(t) >= 2 * Pivot + 1 => Newest(AtMost(t, Recent), 2 * Pivot + 1) = w
  BY <1>1, <1>2, NewestOfAtMost
<1>5. Len(t) >= 2 * Pivot + 1 => /\ w[Pivot + 1] = t[Len(t) - Pivot]
                                /\ w[Pivot + 1].high \in Int /\ w[Pivot + 1].low \in Int
  <2> SUFFICES ASSUME Len(t) >= 2 * Pivot + 1
               PROVE  /\ w[Pivot + 1] = t[Len(t) - Pivot]
                      /\ w[Pivot + 1].high \in Int /\ w[Pivot + 1].low \in Int
    OBVIOUS
  <2>1. w[Pivot + 1] = t[Len(t) - Pivot]
    BY <1>1, WindowOfSwing
  <2>2. Len(t) - Pivot \in 1..Len(t)
    BY <1>1, <1>2
  <2>3. t[Len(t) - Pivot] \in Candles
    BY <1>1, <2>2, ElementOfSeq
  <2> HIDE DEF w
  <2> QED BY <2>1, <2>3 DEF Candles
<1>6. /\ next.count = Len(t)
      /\ next.candles = AtMost(t, Recent)
      /\ next.highs = UpdateSwings(state.highs, Len(c) + 1, IsHigh(w), w[Pivot + 1].high)
      /\ next.lows = UpdateSwings(state.lows, Len(c) + 1, IsLow(w), w[Pivot + 1].low)
  <2>1. state.count = Len(c)
    BY DEF Matches
  <2> DEFINE v == Newest(AtMost(t, Recent), 2 * Pivot + 1)
  <2>2. /\ next.count = Len(c) + 1
        /\ next.candles = AtMost(t, Recent)
        /\ next.highs = UpdateSwings(state.highs, Len(c) + 1, IsHigh(v), v[Pivot + 1].high)
        /\ next.lows = UpdateSwings(state.lows, Len(c) + 1, IsLow(v), v[Pivot + 1].low)
    BY <1>3, <2>1 DEF Push
  <2> HIDE DEF v, w, next
  <2>3. CASE Len(t) >= 2 * Pivot + 1
    BY <1>1, <1>4, <2>2, <2>3 DEF v
  <2>4. CASE ~(Len(t) >= 2 * Pivot + 1)
    BY <1>1, <2>2, <2>4 DEF UpdateSwings
  <2> QED BY <2>3, <2>4
<1>7. /\ \A i \in SwingHighs(c) : i \in 1..Len(c) /\ i <= Len(c) - Pivot
      /\ \A i \in SwingLows(c) : i \in 1..Len(c) /\ i <= Len(c) - Pivot
  BY <1>1, SwingsAreThere
<1> HIDE DEF w, next
<1>9. /\ next.highs \in Seq(SwingPoints)
      /\ Lists(next.highs, SwingHighs(c) \cup NewSwing(t, IsHigh(w)))
      /\ \A k \in 1..Len(next.highs) :
            \/ k \in 1..Len(state.highs) /\ next.highs[k] = state.highs[k]
            \/ /\ next.highs[k].index = Len(c) + 1 - Pivot /\ next.highs[k].price = w[Pivot + 1].high
               /\ Len(c) + 1 >= 2 * Pivot + 1
  <2> DEFINE f == IsHigh(w)
             p == w[Pivot + 1].high
             H == SwingHighs(c)
             points == state.highs
             q == UpdateSwings(points, Len(c) + 1, f, p)
  <2>1. /\ points \in Seq(SwingPoints) /\ Lists(points, H)
        /\ \A i \in H : i \in 1..Len(c) /\ i <= Len(c) - Pivot
        /\ Len(c) + 1 >= 2 * Pivot + 1 => p \in Int
    BY <1>1, <1>5, <1>7 DEF Matches
  <2>2. next.highs = q
    BY <1>6
  <2> HIDE DEF f, p, H, points
  <2>3. /\ q \in Seq(SwingPoints)
        /\ Lists(q, H \cup NewSwing(Append(c, e), f))
        /\ \A k \in 1..Len(q) :
              \/ k \in 1..Len(points) /\ q[k] = points[k]
              \/ /\ q[k].index = Len(c) + 1 - Pivot /\ q[k].price = p
                 /\ Len(c) + 1 >= 2 * Pivot + 1
    BY <2>1, PushedSwings, Zenon
  <2> HIDE DEF q
  <2> QED BY <2>2, <2>3 DEF f, p, H, points, t
<1>10. /\ next.lows \in Seq(SwingPoints)
       /\ Lists(next.lows, SwingLows(c) \cup NewSwing(t, IsLow(w)))
       /\ \A k \in 1..Len(next.lows) :
             \/ k \in 1..Len(state.lows) /\ next.lows[k] = state.lows[k]
             \/ /\ next.lows[k].index = Len(c) + 1 - Pivot /\ next.lows[k].price = w[Pivot + 1].low
                /\ Len(c) + 1 >= 2 * Pivot + 1
  <2> DEFINE f == IsLow(w)
             p == w[Pivot + 1].low
             H == SwingLows(c)
             points == state.lows
             q == UpdateSwings(points, Len(c) + 1, f, p)
  <2>1. /\ points \in Seq(SwingPoints) /\ Lists(points, H)
        /\ \A i \in H : i \in 1..Len(c) /\ i <= Len(c) - Pivot
        /\ Len(c) + 1 >= 2 * Pivot + 1 => p \in Int
    BY <1>1, <1>5, <1>7 DEF Matches
  <2>2. next.lows = q
    BY <1>6
  <2> HIDE DEF f, p, H, points
  <2>3. /\ q \in Seq(SwingPoints)
        /\ Lists(q, H \cup NewSwing(Append(c, e), f))
        /\ \A k \in 1..Len(q) :
              \/ k \in 1..Len(points) /\ q[k] = points[k]
              \/ /\ q[k].index = Len(c) + 1 - Pivot /\ q[k].price = p
                 /\ Len(c) + 1 >= 2 * Pivot + 1
    BY <2>1, PushedSwings, Zenon
  <2> HIDE DEF q
  <2> QED BY <2>2, <2>3 DEF f, p, H, points, t
<1>11. /\ SwingHighs(t) = SwingHighs(c) \cup NewSwing(t, IsHigh(w))
       /\ SwingLows(t) = SwingLows(c) \cup NewSwing(t, IsLow(w))
  BY ConfirmedHighs, ConfirmedLows DEF t, w
<1>12. ASSUME NEW k \in 1..Len(next.highs)
       PROVE  next.highs[k].price = t[next.highs[k].index].high
  <2>1. CASE k \in 1..Len(state.highs) /\ next.highs[k] = state.highs[k]
    <3>1. /\ state.highs[k].index \in SwingHighs(c)
          /\ state.highs[k].price = c[state.highs[k].index].high
      BY <2>1 DEF Matches, Lists
    <3> QED BY <2>1, <3>1, <1>1, <1>7
  <2>2. CASE /\ next.highs[k].index = Len(c) + 1 - Pivot /\ next.highs[k].price = w[Pivot + 1].high
             /\ Len(c) + 1 >= 2 * Pivot + 1
    <3>1. Len(t) >= 2 * Pivot + 1 /\ Len(t) - Pivot = Len(c) + 1 - Pivot
      BY <2>2, <1>1, <1>2
    <3> QED BY <2>2, <3>1, <1>5
  <2> QED BY <2>1, <2>2, <1>9
<1>13. ASSUME NEW k \in 1..Len(next.lows)
       PROVE  next.lows[k].price = t[next.lows[k].index].low
  <2>1. CASE k \in 1..Len(state.lows) /\ next.lows[k] = state.lows[k]
    <3>1. /\ state.lows[k].index \in SwingLows(c)
          /\ state.lows[k].price = c[state.lows[k].index].low
      BY <2>1 DEF Matches, Lists
    <3> QED BY <2>1, <3>1, <1>1, <1>7
  <2>2. CASE /\ next.lows[k].index = Len(c) + 1 - Pivot /\ next.lows[k].price = w[Pivot + 1].low
             /\ Len(c) + 1 >= 2 * Pivot + 1
    <3>1. Len(t) >= 2 * Pivot + 1 /\ Len(t) - Pivot = Len(c) + 1 - Pivot
      BY <2>2, <1>1, <1>2
    <3> QED BY <2>2, <3>1, <1>5
  <2> QED BY <2>1, <2>2, <1>10
<1>14. Matches(next, t)
  BY <1>6, <1>9, <1>10, <1>11, <1>12, <1>13 DEF Matches
<1> QED BY <1>14 DEF next, t

-----------------------------------------------------------------------------
(* The last two swings kept are the last two of the series.                  *)
LEMMA LatestIsLast ==
    ASSUME NEW H, NEW n \in Nat \ {0}, NEW index,
           \A k \in 1..n : index[k] \in H,
           \A i \in H : \E k \in 1..n : index[k] = i,
           \A k \in 1..n : index[k] \in Nat,
           \A k, l \in 1..n : k < l => index[k] < index[l]
    PROVE  Latest(H) = index[n]
<1>1. index[n] \in H /\ \A j \in H : j <= index[n]
  <2>1. ASSUME NEW j \in H PROVE j <= index[n]
    <3>1. PICK k \in 1..n : index[k] = j
      OBVIOUS
    <3>2. k = n \/ k < n
      OBVIOUS
    <3>3. n \in 1..n
      OBVIOUS
    <3> QED BY <3>1, <3>2, <3>3
  <2> QED BY <2>1
<1>2. ASSUME NEW i \in H, \A j \in H : j <= i PROVE i = index[n]
  <2>1. i \in Nat /\ index[n] \in Nat /\ index[n] <= i /\ i <= index[n]
    BY <1>1, <1>2
  <2> QED BY <2>1
<1> QED BY <1>1, <1>2 DEF Latest

LEMMA ListedSwings ==
    ASSUME NEW points \in Seq(SwingPoints), NEW H, Lists(points, H)
    PROVE  /\ H = {} <=> points = << >>
           /\ points # << >> => Latest(H) = points[Len(points)].index
           /\ Len(points) >= 2 => BeforeLatest(H) = points[Len(points) - 1].index
           /\ Cardinality(H) < 2 <=> Len(points) < 2
           /\ IsFiniteSet(H)
<1> DEFINE n == Len(points)
           index == [k \in 1..n |-> points[k].index]
<1>1. /\ n \in Nat
      /\ \A k \in 1..n : index[k] \in H /\ index[k] \in Nat /\ index[k] = points[k].index
      /\ \A i \in H : \E k \in 1..n : index[k] = i
      /\ \A k, l \in 1..n : k < l => index[k] < index[l]
  <2>1. n \in Nat /\ \A k \in 1..n : points[k] \in SwingPoints
    BY LenProperties, ElementOfSeq
  <2> QED BY <2>1 DEF Lists, SwingPoints
<1>2. H = {} <=> points = << >>
  <2>1. points = << >> <=> n = 0
    BY EmptySeq
  <2>2. n = 0 => H = {}
    BY <1>1
  <2>3. n > 0 => 1 \in 1..n
    BY <1>1
  <2>4. n > 0 => H # {}
    BY <1>1, <2>3
  <2> HIDE DEF n
  <2> QED BY <1>1, <2>1, <2>2, <2>4
<1>3. points # << >> => n \in Nat \ {0}
  BY EmptySeq
<1> HIDE DEF n, index
<1>4. points # << >> => Latest(H) = index[n]
  BY <1>1, <1>3, LatestIsLast
<1>5. n >= 2 => BeforeLatest(H) = index[n - 1]
  <2> SUFFICES ASSUME n >= 2 PROVE BeforeLatest(H) = index[n - 1]
    OBVIOUS
  <2> DEFINE G == H \ {index[n]}
  <2>1. Latest(H) = index[n]
    BY <1>1, LatestIsLast
  <2>2. n - 1 \in Nat \ {0} /\ \A k \in 1..n - 1 : k \in 1..n /\ k < n /\ n \in 1..n
    BY <1>1
  <2>3. \A k \in 1..n - 1 : index[k] \in G
    <3> SUFFICES ASSUME NEW k \in 1..n - 1 PROVE index[k] \in G
      OBVIOUS
    <3>1. index[k] < index[n] /\ index[k] \in Nat /\ index[n] \in Nat /\ index[k] \in H
      BY <1>1, <2>2
    <3> QED BY <3>1
  <2>4. \A i \in G : \E k \in 1..n - 1 : index[k] = i
    <3> SUFFICES ASSUME NEW i \in G PROVE \E k \in 1..n - 1 : index[k] = i
      OBVIOUS
    <3>1. PICK k \in 1..n : index[k] = i
      BY <1>1
    <3>2. k # n
      BY <3>1
    <3>3. k \in 1..n - 1
      BY <3>2, <1>1
    <3> QED BY <3>1, <3>3
  <2>5. \A k \in 1..n - 1 : index[k] \in Nat
    BY <1>1, <2>2
  <2>6. \A k, l \in 1..n - 1 : k < l => index[k] < index[l]
    BY <1>1, <2>2
  <2> HIDE DEF G
  <2>7. Latest(G) = index[n - 1]
    BY <2>2, <2>3, <2>4, <2>5, <2>6, LatestIsLast
  <2> QED BY <2>1, <2>7 DEF BeforeLatest, G
<1>6. IsFiniteSet(H)
  <2>1. CASE n = 0
    <3>1. H = {}
      BY <2>1, <1>1
    <3> QED BY <3>1, FS_EmptySet
  <2>2. CASE n > 0
    <3>1. n \in 1..n /\ index[n] \in Nat
      BY <2>2, <1>1
    <3>2. ASSUME NEW i \in H PROVE i \in Nat /\ i <= index[n]
      <4>1. PICK k \in 1..n : index[k] = i
        BY <1>1
      <4>2. index[k] \in Nat /\ (k = n \/ k < n)
        BY <1>1
      <4> QED BY <3>1, <4>1, <4>2, <1>1
    <3>3. H \in SUBSET Nat
      BY <3>2
    <3> QED BY <3>1, <3>2, <3>3, FS_BoundedSetOfNaturals
  <2> QED BY <2>1, <2>2, <1>1
<1>7. Cardinality(H) < 2 <=> n < 2
  <2>1. CASE n = 0
    <3>1. H = {}
      BY <2>1, <1>1
    <3> QED BY <2>1, <3>1, FS_EmptySet
  <2>2. CASE n = 1
    <3>1. H = {index[1]}
      BY <2>2, <1>1
    <3> QED BY <2>2, <3>1, FS_Singleton
  <2>3. CASE n >= 2
    <3>1. 1 \in 1..n /\ 2 \in 1..n
      BY <2>3, <1>1
    <3>2. index[1] \in H /\ index[2] \in H /\ index[1] # index[2]
      <4>1. index[1] \in Nat /\ index[2] \in Nat /\ index[1] < index[2] /\ index[1] \in H /\ index[2] \in H
        BY <3>1, <1>1
      <4> QED BY <4>1
    <3>3. Cardinality({index[1], index[2]}) = 2
      <4>1. IsFiniteSet({index[1]}) /\ Cardinality({index[1]}) = 1
        BY FS_Singleton
      <4>2. Cardinality({index[1]} \cup {index[2]}) = Cardinality({index[1]}) + 1
        BY <4>1, <3>2, FS_AddElement
      <4>3. {index[1]} \cup {index[2]} = {index[1], index[2]}
        OBVIOUS
      <4>4. Cardinality({index[1]} \cup {index[2]}) = 2
        BY <4>1, <4>2
      <4> QED BY <4>3, <4>4
    <3>4. Cardinality({index[1], index[2]}) <= Cardinality(H)
      BY <1>6, <3>2, FS_Subset
    <3>5. Cardinality(H) \in Nat
      BY <1>6, FS_CardinalityType
    <3> QED BY <1>1, <2>3, <3>3, <3>4, <3>5
  <2> QED BY <2>1, <2>2, <2>3, <1>1
<1>8. \A k \in 1..n : index[k] = points[k].index
  BY <1>1
<1>9. points # << >> => n \in 1..n
  BY <1>3
<1>10. n >= 2 => n - 1 \in 1..n
  BY <1>1
<1> QED BY <1>1, <1>2, <1>4, <1>5, <1>6, <1>7, <1>8, <1>9, <1>10 DEF n

(* The structure read from what is kept is the structure of the series.      *)
THEOREM KeptStructureIsExact ==
    ASSUME NEW c \in Seq(Candles), c # << >>, NEW state, Matches(state, c)
    PROVE  KeptStructure(state) = AdvancedStructure(c)
<1> DEFINE H == SwingHighs(c)
           L == SwingLows(c)
           n == Len(state.highs)
           m == Len(state.lows)
<1>1. Len(c) \in Nat \ {0} /\ Recent \in Nat \ {0}
  BY EmptySeq, WindowAssumption, PivotAssumption
<1>2. state.candles[Len(state.candles)] = c[Len(c)]
  <2>1. CASE Len(c) <= Recent
    BY <2>1, <1>1 DEF Matches, AtMost
  <2>2. CASE Len(c) > Recent
    <3>1. state.candles = Newest(c, Recent)
      BY <2>2 DEF Matches, AtMost
    <3>2. Len(Newest(c, Recent)) = Recent /\ Newest(c, Recent)[Recent] = c[Len(c) - Recent + Recent]
      <4>1. Recent \in 1..Recent
        BY <1>1
      <4> QED BY <1>1, <2>2, <4>1, NewestProperties
    <3> QED BY <1>1, <3>1, <3>2
  <2> QED BY <1>1, <2>1, <2>2
<1>3. /\ n \in Nat /\ m \in Nat
      /\ H = {} <=> state.highs = << >>
      /\ state.highs # << >> => Latest(H) = state.highs[n].index
      /\ n >= 2 => BeforeLatest(H) = state.highs[n - 1].index
      /\ Cardinality(H) < 2 <=> n < 2
      /\ L = {} <=> state.lows = << >>
      /\ state.lows # << >> => Latest(L) = state.lows[m].index
      /\ m >= 2 => BeforeLatest(L) = state.lows[m - 1].index
      /\ Cardinality(L) < 2 <=> m < 2
  BY ListedSwings, LenProperties DEF Matches
<1>4. /\ state.highs # << >> => n \in 1..n
      /\ state.lows # << >> => m \in 1..m
      /\ n >= 2 => n - 1 \in 1..n /\ state.highs # << >>
      /\ m >= 2 => m - 1 \in 1..m /\ state.lows # << >>
  <2>1. (state.highs # << >> => n \in Nat \ {0}) /\ (state.lows # << >> => m \in Nat \ {0})
    BY EmptySeq DEF Matches
  <2>2. Len(<< >>) = 0
    OBVIOUS
  <2> QED BY <2>1, <2>2, <1>3
<1>5. /\ state.highs # << >> => c[Latest(H)].high = state.highs[n].price
      /\ n >= 2 => c[BeforeLatest(H)].high = state.highs[n - 1].price
      /\ state.lows # << >> => c[Latest(L)].low = state.lows[m].price
      /\ m >= 2 => c[BeforeLatest(L)].low = state.lows[m - 1].price
  <2> HIDE DEF H, L
  <2>1. /\ \A k \in 1..n : state.highs[k].price = c[state.highs[k].index].high
        /\ \A k \in 1..m : state.lows[k].price = c[state.lows[k].index].low
    BY DEF Matches
  <2> QED BY <1>3, <1>4, <2>1
<1> DEFINE trend == IF n < 2 \/ m < 2 THEN "UNKNOWN"
                    ELSE CASE state.highs[n].price > state.highs[n - 1].price
                              /\ state.lows[m].price > state.lows[m - 1].price -> "BULLISH"
                           [] state.highs[n].price < state.highs[n - 1].price
                              /\ state.lows[m].price < state.lows[m - 1].price -> "BEARISH"
                           [] OTHER                                            -> "TRANSITION"
<1>6. SequenceTrend(c) = trend
  <2>1. CASE n < 2 \/ m < 2
    BY <1>3, <2>1 DEF SequenceTrend
  <2>2. CASE n >= 2 /\ m >= 2
    <3>1. state.highs # << >> /\ state.lows # << >> /\ ~(Cardinality(H) < 2) /\ ~(Cardinality(L) < 2)
      BY <1>3, <1>4, <2>2
    <3>2. /\ c[Latest(H)].high = state.highs[n].price /\ c[BeforeLatest(H)].high = state.highs[n - 1].price
          /\ c[Latest(L)].low = state.lows[m].price /\ c[BeforeLatest(L)].low = state.lows[m - 1].price
      BY <1>5, <2>2, <3>1
    <3> QED BY <1>3, <2>2, <3>1, <3>2 DEF SequenceTrend
  <2> QED BY <1>3, <2>1, <2>2
<1> DEFINE last == c[Len(c)].close
<1>7. CASE state.highs = << >> \/ state.lows = << >>
  <2>1. H = {} \/ L = {}
    BY <1>3, <1>7
  <2>2. AdvancedStructure(c) =
          [trend |-> trend, structure |-> "UNKNOWN", break |-> None, score |-> 0,
           resistance |-> IF state.highs = << >> THEN None ELSE state.highs[n].price,
           support    |-> IF state.lows = << >> THEN None ELSE state.lows[m].price]
    <3> HIDE DEF trend
    <3> QED BY <1>3, <1>5, <1>6, <2>1 DEF AdvancedStructure
  <2>3. KeptStructure(state) =
          [trend |-> trend, structure |-> "UNKNOWN", break |-> None, score |-> 0,
           resistance |-> IF state.highs = << >> THEN None ELSE state.highs[n].price,
           support    |-> IF state.lows = << >> THEN None ELSE state.lows[m].price]
    BY <1>7 DEF KeptStructure
  <2> QED BY <2>2, <2>3
<1>8. CASE state.highs # << >> /\ state.lows # << >>
  <2> DEFINE hi == state.highs[n].price
             lo == state.lows[m].price
             up == last > hi
             below == last < lo
             kind == IF up THEN IF trend = "BULLISH" THEN "BOS" ELSE "CHOCH"
                     ELSE IF below THEN IF trend = "BEARISH" THEN "BOS" ELSE "CHOCH"
                     ELSE IF trend = "BULLISH" THEN "HIGHER_HIGH_HIGHER_LOW"
                     ELSE IF trend = "BEARISH" THEN "LOWER_HIGH_LOWER_LOW" ELSE "TRANSITION"
             read == [trend |-> trend, structure |-> kind,
                        break |-> IF up THEN "UP" ELSE IF below THEN "DOWN" ELSE None,
                        score |-> StructureScore(kind, trend),
                        resistance |-> hi, support |-> lo]
  <2>1. H # {} /\ L # {} /\ c[Latest(H)].high = hi /\ c[Latest(L)].low = lo
    BY <1>3, <1>5, <1>8
  <2> HIDE DEF trend
  <2>2. AdvancedStructure(c) = read
    BY <1>6, <2>1 DEF AdvancedStructure
  <2>3. KeptStructure(state) = read
    BY <1>2, <1>8 DEF KeptStructure, trend
  <2> QED BY <2>2, <2>3
<1> QED BY <1>7, <1>8
-----------------------------------------------------------------------------
(* The levels of a signal: a stop on the other side of the entry than the  *)
(* target.                                                                 *)
LEMMA NearestIsInteger == \A n \in Int, d \in {2, 4} : Nearest(n, d) \in Int
  BY DEF Nearest

(* Rounding does not pass an integer.                                      *)
LEMMA NearestOfQuarters ==
    \A a, b \in Nat : Nearest(4 * a - b, 4) <= a /\ Nearest(4 * a + b, 4) >= a
<1> SUFFICES ASSUME NEW a \in Nat, NEW b \in Nat
             PROVE  Nearest(4 * a - b, 4) <= a /\ Nearest(4 * a + b, 4) >= a
  OBVIOUS
<1>1. Nearest(4 * a - b, 4) <= a
  <2>1. (4 * a - b) \div 4 \in Int /\ (4 * a - b) \div 4 <= a
    OBVIOUS
  <2>2. (4 * a - b) \div 4 = a => (4 * a - b) % 4 = 0
    OBVIOUS
  <2> QED
    BY <2>1, <2>2 DEF Nearest
<1>2. Nearest(4 * a + b, 4) >= a
  <2>1. (4 * a + b) \div 4 \in Int /\ (4 * a + b) \div 4 >= a
    OBVIOUS
  <2> QED
    BY <2>1 DEF Nearest
<1> QED
  BY <1>1, <1>2

LEMMA LevelFacts ==
    ASSUME NEW s \in Symbols, NEW m \in Markets[s], NEW way \in {"LONG", "SHORT"},
           NEW l, l = Levels(m, way), l # None
    PROVE  /\ l.entry \in Nat /\ l.stop \in Int /\ l.target \in Int
           /\ Distance(l.entry, l.stop) \in Nat \ {0}
<1>1. PICK entry, support, resistance, atr, stop, halves, reward, target :
          /\ entry = Entry(m)
          /\ support = Known(m.h4.advanced.support, m.h4.structure.support)
          /\ resistance = Known(m.h4.advanced.resistance, m.h4.structure.resistance)
          /\ atr = IF m.h4.ind.atr14 = None THEN 0 ELSE m.h4.ind.atr14
          /\ stop = IF way = "LONG" THEN Nearest(4 * support - atr, 4)
                                    ELSE Nearest(4 * resistance + atr, 4)
          /\ halves = 5 * (IF way = "LONG" THEN entry - stop ELSE stop - entry)
          /\ reward = IF halves < 2 * Scale THEN halves ELSE 2 * Nearest(halves, 2)
          /\ target = Nearest(2 * entry + (IF way = "LONG" THEN reward ELSE -reward), 2)
  OBVIOUS
<1>2. /\ ~(None \in {entry, support, resistance} \/ support >= entry \/ resistance <= entry)
      /\ l = [entry |-> entry, stop |-> stop, target |-> target]
  BY <1>1 DEF Levels
<1>3. /\ entry \in Nat /\ support \in Nat /\ resistance \in Nat /\ atr \in Nat
      /\ support < entry /\ entry < resistance
  <2>1. /\ {m.m15.ind.ema20, m.h1.ind.ema20, m.h4.ind.atr14,
            m.h4.advanced.support, m.h4.advanced.resistance,
            m.h4.structure.support, m.h4.structure.resistance} \subseteq Nat \cup {None}
    BY MarketAssumption
  <2>2. entry \in Nat /\ support \in Nat /\ resistance \in Nat
    BY <1>1, <1>2, <2>1 DEF Entry, Known
  <2>3. atr \in Nat
    BY <1>1, <2>1
  <2> QED
    BY <1>2, <2>2, <2>3
<1>4. /\ Nearest(4 * support - atr, 4) \in Int /\ Nearest(4 * support - atr, 4) < entry
      /\ Nearest(4 * resistance + atr, 4) \in Int /\ Nearest(4 * resistance + atr, 4) > entry
  <2>1. 4 * support - atr \in Int /\ 4 * resistance + atr \in Int
    BY <1>3
  <2>2. Nearest(4 * support - atr, 4) \in Int /\ Nearest(4 * resistance + atr, 4) \in Int
    BY <2>1, NearestIsInteger
  <2>3. Nearest(4 * support - atr, 4) <= support /\ Nearest(4 * resistance + atr, 4) >= resistance
    BY <1>3, NearestOfQuarters
  <2> QED
    BY <1>3, <2>2, <2>3
<1>5. stop \in Int /\ Distance(entry, stop) \in Nat \ {0} /\ halves \in Int
  BY <1>1, <1>3, <1>4 DEF Distance
<1>6. target \in Int
  <2>1. reward \in Int
    <3>1. Nearest(halves, 2) \in Int
      BY <1>5, NearestIsInteger
    <3> QED
      BY <1>1, <1>5, <3>1
  <2>2. 2 * entry + (IF way = "LONG" THEN reward ELSE -reward) \in Int
    BY <1>3, <2>1
  <2> QED
    BY <1>1, <2>2, NearestIsInteger
<1> QED
  BY <1>2, <1>3, <1>5, <1>6

(* What a signal that has levels says.                                     *)
Tradable(s) ==
    {signal \in {Signal(m) : m \in Markets[s]} : signal.state # "NO_TRADE"}

LEMMA SignalFacts ==
    ASSUME NEW s \in Symbols, NEW m \in Markets[s], NEW signal, signal = Signal(m),
           signal.state # "NO_TRADE"
    PROVE  /\ signal.entry \in Int /\ signal.stop \in Int /\ signal.target \in Int
           /\ Distance(signal.entry, signal.stop) \in Nat \ {0}
<1>1. PICK direction, l, reasons :
          /\ direction = Direction(m) /\ l = Levels(m, direction)
          /\ reasons = {r \in {"rr", "score", "confidence"} :
                 \/ r = "rr" /\ ~RatioAtLeast(l, 5, 2)
                 \/ r = "score" /\ Score(m, Setup(m, direction), direction, l) < 100 * MinScore
                 \/ r = "confidence" /\ Confidence(m, direction) < 100 * MinConfidence}
  OBVIOUS
<1>2. \A reason : NoTrade(reason).state = "NO_TRADE"
  BY DEF NoTrade
<1>3. /\ direction # None /\ l # None
      /\ signal.entry = l.entry /\ signal.stop = l.stop /\ signal.target = l.target
      /\ signal.reasons = reasons
  <2>1. CASE direction = None
    <3>1. signal = NoTrade("direction")
      BY <1>1, <2>1 DEF Signal
    <3> QED
      BY <1>2, <3>1
  <2>2. CASE direction # None /\ Setup(m, direction) = None
    <3>1. signal = NoTrade("setup")
      BY <1>1, <2>2 DEF Signal
    <3> QED
      BY <1>2, <3>1
  <2>3. CASE direction # None /\ Setup(m, direction) # None /\ l = None
    <3>1. signal = NoTrade("levels")
      BY <1>1, <2>3 DEF Signal
    <3> QED
      BY <1>2, <3>1
  <2>4. CASE direction # None /\ Setup(m, direction) # None /\ l # None
    <3>1. signal = [state |-> IF reasons = {} THEN "READY" ELSE "REJECTED", reasons |-> reasons,
                    direction |-> direction, entry |-> l.entry, stop |-> l.stop,
                    target |-> l.target, rr |-> Ratio(l),
                    score |-> Score(m, Setup(m, direction), direction, l),
                    confidence |-> Confidence(m, direction)]
      BY <1>1, <2>4 DEF Signal
    <3> QED
      BY <2>4, <3>1
  <2> QED
    BY <2>1, <2>2, <2>3, <2>4
<1>4. direction \in {"LONG", "SHORT"}
  BY <1>1, <1>3 DEF Direction
<1>5. /\ l.entry \in Nat /\ l.stop \in Int /\ l.target \in Int
      /\ Distance(l.entry, l.stop) \in Nat \ {0}
  BY <1>1, <1>3, <1>4, LevelFacts
<1> QED
  BY <1>3, <1>5
-----------------------------------------------------------------------------
(* Orders, and what the orders of a set put at risk together.              *)
Orders ==
    [id : Symbols \X Int \X Int, symbol : Symbols, entry : Int, stop : Int, target : Int,
     quantity : Nat, leverage : Nat \ {0}]
RiskOf(S) == Sum(S, Risk)

LEMMA RiskIsNatural == \A o \in Orders : Risk(o) \in Nat
  BY DEF Orders, Risk, Distance

(* The sum is over the risks as a function on any larger set.              *)
RisksOn(f, U) ==
    /\ U \in SUBSET Orders /\ IsFiniteSet(U)
    /\ f = [o \in U |-> Risk(o)]

LEMMA RiskOfAsSum ==
    ASSUME NEW U, NEW f, RisksOn(f, U), NEW S \in SUBSET U
    PROVE  /\ RiskOf(S) = SumFunctionOnSet(f, S)
           /\ IntegerOn(f, S) /\ \A o \in S : f[o] >= 0
           /\ RiskOf(S) \in Nat
<1>1. PICK g : g = [o \in S |-> Risk(o)]
  OBVIOUS
<1>2. IsFiniteSet(S) /\ \A o \in S : Risk(o) \in Nat /\ f[o] = Risk(o) /\ g[o] = Risk(o)
  BY <1>1, FS_Subset, RiskIsNatural DEF RisksOn
<1>3. IntegerOn(g, S) /\ IntegerOn(f, S) /\ \A o \in S : g[o] = f[o]
  BY <1>2 DEF IntegerOn
<1>4. RiskOf(S) = SumFunctionOnSet(g, S)
  BY <1>1 DEF RiskOf, Sum, SumFunction
<1>5. SumFunctionOnSet(g, S) = SumFunctionOnSet(f, S)
  BY <1>3, SumOfEqual
<1>6. SumFunctionOnSet(f, S) \in Int
  BY <1>3, SumIsInteger
<1>7. \A o \in S : f[o] >= 0
  BY <1>2
<1>8. SumFunctionOnSet(f, S) >= 0
  BY <1>3, <1>7, SumOfPart
<1> QED
  BY <1>3, <1>4, <1>5, <1>6, <1>7, <1>8

(* No part is at more risk than the whole, nor two that share no order.    *)
LEMMA RiskOfParts ==
    ASSUME NEW U \in SUBSET Orders, IsFiniteSet(U),
           NEW S \in SUBSET U, NEW T \in SUBSET U, S \cap T = {}
    PROVE  /\ RiskOf(S) + RiskOf(T) <= RiskOf(U)
           /\ RiskOf(S) \in Nat /\ RiskOf(T) \in Nat /\ RiskOf(U) \in Nat
<1>1. PICK f : f = [o \in U |-> Risk(o)]
  OBVIOUS
<1>2. RisksOn(f, U)
  BY <1>1 DEF RisksOn
<1>3. PICK V : V = S \cup T
  OBVIOUS
<1>4. /\ RiskOf(S) = SumFunctionOnSet(f, S) /\ IntegerOn(f, S)
      /\ RiskOf(T) = SumFunctionOnSet(f, T) /\ IntegerOn(f, T)
      /\ RiskOf(U) = SumFunctionOnSet(f, U) /\ IntegerOn(f, U) /\ \A o \in U : f[o] >= 0
      /\ RiskOf(S) \in Nat /\ RiskOf(T) \in Nat /\ RiskOf(U) \in Nat
  <2>1. U \in SUBSET U
    OBVIOUS
  <2> QED
    BY <1>2, <2>1, RiskOfAsSum
<1>5. SumFunctionOnSet(f, V) = SumFunctionOnSet(f, S) + SumFunctionOnSet(f, T)
  BY <1>3, <1>4, SumOfDisjoint
<1>6. SumFunctionOnSet(f, V) <= SumFunctionOnSet(f, U)
  <2>1. V \in SUBSET U
    BY <1>3
  <2> QED
    BY <1>4, <2>1, SumOfPart
<1> QED
  BY <1>4, <1>5, <1>6

(* Two sets together are at no more risk than each for itself.             *)
LEMMA RiskOfUnion ==
    ASSUME NEW S \in SUBSET Orders, IsFiniteSet(S), NEW T \in SUBSET Orders, IsFiniteSet(T)
    PROVE  RiskOf(S \cup T) <= RiskOf(S) + RiskOf(T)
<1>1. PICK U : U = S \cup T
  OBVIOUS
<1>2. PICK f, more : f = [o \in U |-> Risk(o)] /\ more = T \ S
  OBVIOUS
<1>3. U \in SUBSET Orders /\ IsFiniteSet(U)
  BY <1>1, FS_Union
<1>4. RisksOn(f, U)
  BY <1>2, <1>3 DEF RisksOn
<1>5. /\ RiskOf(S) = SumFunctionOnSet(f, S) /\ IntegerOn(f, S)
      /\ RiskOf(more) = SumFunctionOnSet(f, more) /\ IntegerOn(f, more)
      /\ RiskOf(U) = SumFunctionOnSet(f, U)
      /\ RiskOf(S) \in Nat /\ RiskOf(more) \in Nat
  <2>1. U \in SUBSET U /\ S \in SUBSET U /\ more \in SUBSET U
    BY <1>1, <1>2
  <2> QED
    BY <1>4, <2>1, RiskOfAsSum
<1>6. SumFunctionOnSet(f, U) = SumFunctionOnSet(f, S) + SumFunctionOnSet(f, more)
  <2>1. S \cap more = {} /\ S \cup more = U
    BY <1>1, <1>2
  <2> QED
    BY <1>5, <2>1, SumOfDisjoint
<1>7. RiskOf(more) <= RiskOf(T) /\ RiskOf(T) \in Nat
  <2>1. PICK none : none = {}
    OBVIOUS
  <2>2. more \in SUBSET T /\ none \in SUBSET T /\ more \cap none = {}
    BY <1>2, <2>1
  <2>3. RiskOf(more) + RiskOf(none) <= RiskOf(T) /\ RiskOf(none) \in Nat /\ RiskOf(T) \in Nat
    BY <2>2, RiskOfParts
  <2> QED
    BY <1>5, <2>3
<1> QED
  BY <1>1, <1>5, <1>6, <1>7

LEMMA RiskOfOne ==
    ASSUME NEW o \in Orders
    PROVE  RiskOf({o}) = Risk(o)
<1>1. PICK U, none : U = {o} /\ none = {}
  OBVIOUS
<1>2. PICK f : f = [p \in U |-> Risk(p)]
  OBVIOUS
<1>3. RisksOn(f, U) /\ U \in SUBSET U /\ none \in SUBSET U
  BY <1>1, <1>2, FS_Singleton DEF RisksOn
<1>4. RiskOf(U) = SumFunctionOnSet(f, U) /\ IntegerOn(f, U)
  BY <1>3, RiskOfAsSum
<1>5. SumFunctionOnSet(f, U) = SumFunctionOnSet(f, none) + f[o]
  <2>1. OneMore(U, none, o)
    BY <1>1 DEF OneMore
  <2> QED
    BY <1>4, <2>1, SumWithElement
<1>6. SumFunctionOnSet(f, none) = 0 /\ f[o] = Risk(o)
  BY <1>1, <1>2, SumOfNone
<1>7. Risk(o) \in Nat
  BY RiskIsNatural
<1> QED
  BY <1>1, <1>4, <1>5, <1>6, <1>7
-----------------------------------------------------------------------------
(* Types, and what the Storm gate has let through.                         *)
StormSafe(o) ==
    o.symbol \in Storm => 100 * Distance(o.entry, o.stop) * o.leverage <= MaxStormLoss * o.entry
Assessed == {o \in Orders : StormSafe(o)}

OpportunityTypeOK ==
    /\ equity \in Nat /\ basis \in Nat
    /\ positions \in SUBSET Assessed /\ IsFiniteSet(positions)
    /\ pending \in SUBSET Assessed /\ IsFiniteSet(pending)
    /\ queue \in Seq(Assessed) /\ drained \in Seq(Assessed)
    /\ careless \in BOOLEAN /\ submissions \in BOOLEAN
    /\ result # None => result.orders \in SUBSET Assessed /\ result.equity \in Nat

(* What is committed leaves room for an order under the aggregate limit of *)
(* these assets: for every order of a result nothing was submitted since,  *)
(* and for the one that was selected from it.                              *)
Room(o, assets) == 100 * (Committed + Risk(o)) <= MaxAggregate * assets
ResultHasRoom ==
    result # None /\ ~submissions => \A o \in result.orders : Room(o, result.equity)
SelectionHasRoom ==
    ~careless =>
        /\ Len(queue) + Len(drained) <= 1
        /\ \A i \in 1..Len(queue) : Room(queue[i], basis)
        /\ \A i \in 1..Len(drained) : Room(drained[i], basis)

OpportunityInv ==
    /\ OpportunityTypeOK /\ ResultHasRoom /\ SelectionHasRoom
    /\ WithinAggregate

LEMMA CommittedIsNatural ==
    ASSUME OpportunityTypeOK
    PROVE  /\ OpenRisk = RiskOf(positions) /\ ReservedRisk = RiskOf(pending)
           /\ RiskOf(positions) \in Nat /\ RiskOf(pending) \in Nat
           /\ Committed = RiskOf(positions) + RiskOf(pending) /\ Committed \in Nat
<1>1. PICK none : none = {}
  OBVIOUS
<1>2. /\ positions \in SUBSET Orders /\ IsFiniteSet(positions)
      /\ pending \in SUBSET Orders /\ IsFiniteSet(pending)
  BY DEF OpportunityTypeOK, Assessed
<1>3. /\ none \in SUBSET positions /\ none \in SUBSET pending /\ none \cap none = {}
  BY <1>1
<1>4. RiskOf(positions) \in Nat /\ RiskOf(pending) \in Nat
  BY <1>2, <1>3, RiskOfParts
<1>5. OpenRisk = RiskOf(positions) /\ ReservedRisk = RiskOf(pending)
  BY DEF OpenRisk, ReservedRisk, RiskOf
<1> QED
  BY <1>4, <1>5 DEF Committed

LEMMA QuotientIsNatural == \A a \in Nat, b \in Nat \ {0} : a \div b \in Nat
  OBVIOUS

(* An order risks no more than what it was assessed for.                   *)
LEMMA SizeFacts ==
    ASSUME OpportunityTypeOK, NEW s \in Symbols, NEW signal,
           Distance(signal.entry, signal.stop) \in Nat \ {0}
    PROVE  /\ Quantity(s, signal) \in Nat
           /\ Quantity(s, signal) * Distance(signal.entry, signal.stop) <= NewRisk(s, signal)
<1>1. PICK d, l : d = Distance(signal.entry, signal.stop) /\ l = Leverage[s]
  OBVIOUS
<1>2. d \in Nat \ {0} /\ l \in Nat \ {0}
  BY <1>1, NumberAssumption
<1>3. PICK u : u = d * l
  OBVIOUS
<1>4. u \in Nat \ {0} /\ u >= d /\ 100 * u \in Nat \ {0}
  <2>1. d * l \in Nat /\ d * l = d + d * (l - 1) /\ d * (l - 1) \in Nat
    BY <1>2
  <2> QED
    BY <1>2, <1>3, <2>1
<1>5. UnitRisk(s, signal) = u
  BY <1>1, <1>3 DEF UnitRisk
<1>6. Budget \in Nat
  <2>1. MaxTrade * equity \in Nat /\ MaxAggregate * equity \in Nat
    BY NumberAssumption DEF OpportunityTypeOK
  <2>2. Committed \in Nat
    BY CommittedIsNatural
  <2>3. Available \in Nat
    BY <2>1, <2>2 DEF Available, Positive
  <2> QED
    BY <2>1, <2>3 DEF Budget
<1>7. PICK q : q = Quantity(s, signal)
  OBVIOUS
<1>8. q \in Nat
  BY <1>4, <1>5, <1>6, <1>7, QuotientIsNatural DEF Quantity
<1>9. q * d <= q * u
  <2>1. q * (u - d) \in Nat /\ q * u = q * d + q * (u - d)
    BY <1>2, <1>4, <1>8
  <2> QED
    BY <1>2, <1>4, <1>8, <2>1
<1>10. NewRisk(s, signal) = q * u
  BY <1>5, <1>7 DEF NewRisk
<1> QED
  BY <1>1, <1>7, <1>8, <1>9, <1>10

(* What passes every gate is safe on its venue and fits under the limit.   *)
LEMMA GateFacts ==
    ASSUME OpportunityTypeOK, NEW s \in Symbols, NEW m \in Markets[s], NEW hold,
           NEW signal, signal = Signal(m), Gate(s, signal, hold).stage = "COMPLETE"
    PROVE  Order(s, signal) \in Assessed /\ Room(Order(s, signal), equity)
<1>1. signal.state = "READY" /\ RiskReasons(s, signal) = {}
  BY DEF Gate, Refused
<1>2. /\ signal.entry \in Int /\ signal.stop \in Int /\ signal.target \in Int
      /\ Distance(signal.entry, signal.stop) \in Nat \ {0}
  BY <1>1, SignalFacts
<1>3. /\ s \in Storm => ~ExceedsStorm(s, signal)
      /\ ~ExceedsAggregate(NewRisk(s, signal))
  <2>1. Available # 0
    BY <1>1 DEF RiskReasons
  <2>2. "storm" \notin RiskReasons(s, signal) /\ "aggregate" \notin RiskReasons(s, signal)
    BY <1>1
  <2> QED
    BY <2>1, <2>2 DEF RiskReasons
<1>4. PICK o : o = Order(s, signal)
  OBVIOUS
<1>5. /\ o.id = <<s, signal.entry, signal.stop>> /\ o.symbol = s /\ o.entry = signal.entry
      /\ o.stop = signal.stop /\ o.target = signal.target
      /\ o.quantity = Quantity(s, signal) /\ o.leverage = Leverage[s]
  BY <1>4 DEF Order, Id
<1>6. Quantity(s, signal) \in Nat /\ Leverage[s] \in Nat \ {0}
  BY <1>2, SizeFacts, NumberAssumption
<1>7. o \in Orders
  <2>1. o = [id |-> <<s, signal.entry, signal.stop>>, symbol |-> s, entry |-> signal.entry,
             stop |-> signal.stop, target |-> signal.target,
             quantity |-> Quantity(s, signal), leverage |-> Leverage[s]]
    BY <1>4 DEF Order, Id
  <2> QED
    BY <1>2, <1>6, <2>1 DEF Orders
<1>8. StormSafe(o)
  <2>1. ASSUME s \in Storm
        PROVE  100 * Distance(signal.entry, signal.stop) * Leverage[s] <= MaxStormLoss * signal.entry
    <3>1. ~(100 * Distance(signal.entry, signal.stop) * Leverage[s] > MaxStormLoss * signal.entry)
      BY <1>3, <2>1 DEF ExceedsStorm
    <3>2. PICK loss, share : loss = 100 * Distance(signal.entry, signal.stop) * Leverage[s]
                             /\ share = MaxStormLoss * signal.entry
      OBVIOUS
    <3>3. loss \in Int /\ share \in Int
      BY <1>2, <1>6, <3>2, NumberAssumption
    <3> QED
      BY <3>1, <3>2, <3>3
  <2> QED
    BY <1>5, <2>1 DEF StormSafe
<1>9. Room(o, equity)
  <2>1. Risk(o) <= NewRisk(s, signal) /\ Risk(o) \in Nat
    BY <1>2, <1>5, <1>7, SizeFacts, RiskIsNatural DEF Risk
  <2>2. NewRisk(s, signal) \in Nat
    BY <1>2, <1>6 DEF NewRisk, UnitRisk
  <2>3. Committed \in Nat /\ MaxAggregate * equity \in Nat
    BY CommittedIsNatural, NumberAssumption DEF OpportunityTypeOK
  <2>4. ~(100 * (Committed + NewRisk(s, signal)) > MaxAggregate * equity)
    BY <1>3 DEF ExceedsAggregate
  <2> QED
    BY <2>1, <2>2, <2>3, <2>4 DEF Room
<1> QED
  BY <1>4, <1>7, <1>8, <1>9 DEF Assessed
LEMMA CommittedIsNaturalAfter ==
    ASSUME OpportunityTypeOK'
    PROVE  /\ RiskOf(positions') \in Nat /\ RiskOf(pending') \in Nat
           /\ Committed' = RiskOf(positions') + RiskOf(pending') /\ Committed' \in Nat
<1>1. PICK none, P, R : none = {} /\ P = positions' /\ R = pending'
  OBVIOUS
<1>2. P \in SUBSET Orders /\ IsFiniteSet(P) /\ R \in SUBSET Orders /\ IsFiniteSet(R)
  BY <1>1 DEF OpportunityTypeOK, Assessed
<1>3. none \in SUBSET P /\ none \in SUBSET R /\ none \cap none = {}
  BY <1>1
<1>4. RiskOf(P) \in Nat /\ RiskOf(R) \in Nat
  BY <1>2, <1>3, RiskOfParts
<1>5. OpenRisk' = RiskOf(P) /\ ReservedRisk' = RiskOf(R)
  BY <1>1 DEF OpenRisk, ReservedRisk, RiskOf
<1>6. Committed' = OpenRisk' + ReservedRisk'
  BY DEF Committed
<1> QED
  BY <1>1, <1>4, <1>5, <1>6

(* What an evaluation puts in its result.                                  *)
LEMMA AssessFacts ==
    ASSUME OpportunityTypeOK, NEW seen \in Views, NEW hold, NEW r, r = Assess(seen, hold)
    PROVE  /\ r.orders \in SUBSET Assessed /\ r.equity = equity
           /\ \A o \in r.orders : Room(o, equity)
<1>1. PICK passed : passed = {s \in Symbols : Gate(s, seen[s], hold).stage = "COMPLETE"}
  OBVIOUS
<1>2. /\ r.orders = {Order(s, seen[s]) : s \in Offered(seen, passed)}
      /\ r.equity = equity
  BY <1>1 DEF Assess
<1>3. \A s \in Symbols : seen[s].state # "NO_TRADE" => \E m \in Markets[s] : seen[s] = Signal(m)
  <2>1. NoTrade("data").state = "NO_TRADE"
    BY DEF NoTrade
  <2>2. \A s \in Symbols : seen[s] \in {Signal(m) : m \in Markets[s]} \cup {NoTrade("data")}
    BY DEF Views, Signals
  <2> QED
    BY <2>1, <2>2
<1>4. ASSUME NEW s \in passed
      PROVE  Order(s, seen[s]) \in Assessed /\ Room(Order(s, seen[s]), equity)
  <2>1. s \in Symbols /\ Gate(s, seen[s], hold).stage = "COMPLETE"
    BY <1>1
  <2>2. seen[s].state # "NO_TRADE"
    BY <2>1 DEF Gate, Refused
  <2>3. PICK m \in Markets[s] : seen[s] = Signal(m)
    BY <1>3, <2>1, <2>2
  <2> QED
    BY <2>1, <2>3, GateFacts
<1>5. Offered(seen, passed) \subseteq passed
  BY DEF Offered
<1> QED
  BY <1>2, <1>4, <1>5

-----------------------------------------------------------------------------
(* Each action keeps the invariant.                                        *)
LEMMA OpportunityStarts == Init => OpportunityInv
<1> SUFFICES ASSUME Init
             PROVE  OpportunityInv
  OBVIOUS
<1>1. OpportunityTypeOK
  <2>1. equity \in Nat /\ basis \in Nat
    BY NumberAssumption DEF Init
  <2>2. queue \in Seq(Assessed) /\ drained \in Seq(Assessed)
    BY DEF Init
  <2>3. positions \in SUBSET Assessed /\ IsFiniteSet(positions)
        /\ pending \in SUBSET Assessed /\ IsFiniteSet(pending)
    BY FS_EmptySet DEF Init
  <2>4. careless \in BOOLEAN /\ submissions \in BOOLEAN /\ result = None
    BY DEF Init
  <2> QED
    BY <2>1, <2>2, <2>3, <2>4 DEF OpportunityTypeOK
<1>2. Committed = 0
  <2>1. PICK none, f : none = {} /\ f = [o \in none |-> Risk(o)]
    OBVIOUS
  <2>2. RiskOf(none) = SumFunctionOnSet(f, none) /\ SumFunctionOnSet(f, none) = 0
    BY <2>1, SumOfNone DEF RiskOf, Sum, SumFunction
  <2>3. positions = none /\ pending = none
    BY <2>1 DEF Init
  <2> QED
    BY <1>1, <2>2, <2>3, CommittedIsNatural
<1>3. MaxAggregate * basis \in Nat
  BY NumberAssumption DEF Init
<1>4. WithinAggregate
  BY <1>2, <1>3 DEF WithinAggregate
<1>5. SelectionHasRoom
  BY DEF Init, SelectionHasRoom
<1> QED
  BY <1>1, <1>4, <1>5 DEF Init, OpportunityInv, ResultHasRoom

(* As long as nothing more is committed, nothing selected and nothing      *)
(* evaluated, the room there was is there.                                 *)
LEMMA NothingMoreCommitted ==
    ASSUME OpportunityInv, OpportunityTypeOK', Committed' <= Committed,
           UNCHANGED <<result, queue, drained, submissions, careless, basis>>
    PROVE  OpportunityInv'
<1>1. Committed \in Nat /\ Committed' \in Nat
  BY CommittedIsNatural, CommittedIsNaturalAfter DEF OpportunityInv
<1>2. MaxAggregate * basis \in Nat
  BY NumberAssumption DEF OpportunityInv, OpportunityTypeOK
<1>3. ASSUME NEW o \in Assessed, NEW assets \in Nat, Room(o, assets)
      PROVE  100 * (Committed' + Risk(o)) <= MaxAggregate * assets
  <2>1. Risk(o) \in Nat
    BY RiskIsNatural DEF Assessed
  <2>2. PICK most : most = MaxAggregate * assets
    OBVIOUS
  <2>3. most \in Nat
    BY <2>2, NumberAssumption
  <2>4. 100 * (Committed + Risk(o)) <= most
    BY <1>3, <2>2 DEF Room
  <2> QED
    BY <1>1, <2>1, <2>2, <2>3, <2>4
<1>4. ResultHasRoom'
  <2>1. SUFFICES ASSUME result # None, ~submissions, NEW o \in result.orders
                 PROVE  100 * (Committed' + Risk(o)) <= MaxAggregate * result.equity
    BY DEF ResultHasRoom, Room
  <2>2. o \in Assessed /\ result.equity \in Nat /\ Room(o, result.equity)
    BY <2>1 DEF OpportunityInv, OpportunityTypeOK, ResultHasRoom
  <2> QED
    BY <1>3, <2>2
<1>5. SelectionHasRoom'
  <2>1. SUFFICES ASSUME ~careless
                 PROVE  /\ \A i \in 1..Len(queue) : 100 * (Committed' + Risk(queue[i])) <= MaxAggregate * basis
                        /\ \A i \in 1..Len(drained) : 100 * (Committed' + Risk(drained[i])) <= MaxAggregate * basis
    BY DEF OpportunityInv, SelectionHasRoom, Room
  <2>2. /\ \A i \in 1..Len(queue) : queue[i] \in Assessed
        /\ \A i \in 1..Len(drained) : drained[i] \in Assessed
        /\ basis \in Nat
    BY DEF OpportunityInv, OpportunityTypeOK
  <2>3. /\ \A i \in 1..Len(queue) : Room(queue[i], basis)
        /\ \A i \in 1..Len(drained) : Room(drained[i], basis)
    BY <2>1 DEF OpportunityInv, SelectionHasRoom
  <2> QED
    BY <1>3, <2>2, <2>3
<1>6. WithinAggregate'
  <2>1. careless \/ 100 * Committed <= MaxAggregate * basis
    BY DEF OpportunityInv, WithinAggregate
  <2>2. careless \/ 100 * Committed' <= MaxAggregate * basis
    BY <1>1, <1>2, <2>1
  <2> QED
    BY <2>2 DEF WithinAggregate
<1> QED
  BY <1>4, <1>5, <1>6 DEF OpportunityInv

LEMMA EvaluationKeepsRoom ==
    ASSUME OpportunityInv, Evaluate,
           UNCHANGED <<equity, positions, pending, queue, drained, careless, basis>>
    PROVE  OpportunityInv'
<1>1. PICK r : result' = r /\ \E seen \in Views, hold \in SUBSET Held : r = Assess(seen, hold)
  BY DEF Evaluate
<1>2. OpportunityTypeOK
  BY DEF OpportunityInv
<1>3. /\ r.orders \in SUBSET Assessed /\ r.equity = equity
      /\ \A o \in r.orders : Room(o, equity)
  BY <1>1, <1>2, AssessFacts
<1>4. Committed' = Committed
  BY DEF Committed, OpenRisk, ReservedRisk
<1>5. OpportunityTypeOK'
  <2>1. /\ equity' \in Nat /\ basis' \in Nat
        /\ positions' \in SUBSET Assessed /\ IsFiniteSet(positions')
        /\ pending' \in SUBSET Assessed /\ IsFiniteSet(pending')
        /\ queue' \in Seq(Assessed) /\ drained' \in Seq(Assessed)
        /\ careless' \in BOOLEAN
    BY <1>2 DEF OpportunityTypeOK
  <2>2. submissions' \in BOOLEAN
    BY DEF Evaluate
  <2>3. result'.orders \in SUBSET Assessed /\ result'.equity \in Nat
    BY <1>1, <1>2, <1>3 DEF OpportunityTypeOK
  <2> QED
    BY <2>1, <2>2, <2>3 DEF OpportunityTypeOK
<1>6. ResultHasRoom'
  <2>1. \A o \in r.orders : 100 * (Committed' + Risk(o)) <= MaxAggregate * r.equity
    BY <1>3, <1>4 DEF Room
  <2> QED
    BY <1>1, <2>1 DEF ResultHasRoom, Room
<1>7. SelectionHasRoom' /\ WithinAggregate'
  BY <1>4 DEF OpportunityInv, SelectionHasRoom, WithinAggregate, Room
<1> QED
  BY <1>5, <1>6, <1>7 DEF OpportunityInv

(* A caller selects one order of a result, or more than one.               *)
Selections(O) == {<<a>> : a \in O} \cup {<<a, b>> : a, b \in O}

LEMMA SelectionFacts ==
    ASSUME NEW O, NEW c \in Selections(O)
    PROVE  /\ c \in Seq(O)
           /\ Len(c) > 1 \/ (Len(c) = 1 /\ c[1] \in O)
<1>1. \/ \E a \in O : c = <<a>>
      \/ \E a, b \in O : c = <<a, b>>
  BY DEF Selections
<1>2. ASSUME NEW a \in O, c = <<a>>
      PROVE  c \in Seq(O) /\ Len(c) = 1 /\ c[1] \in O
  BY <1>2
<1>3. ASSUME NEW a \in O, NEW b \in O, c = <<a, b>>
      PROVE  c \in Seq(O) /\ Len(c) = 2
  BY <1>3
<1> QED
  BY <1>1, <1>2, <1>3

LEMMA SelectionKeepsRoom ==
    ASSUME OpportunityInv, Select
    PROVE  OpportunityInv'
<1>1. PICK O : O = result.orders
  OBVIOUS
<1>2. OpportunityTypeOK /\ result # None
  BY DEF OpportunityInv, Select
<1>3. PICK chosen \in Selections(O) :
          /\ queue' = chosen
          /\ careless' = (careless \/ Len(chosen) > 1 \/ submissions \/ drained # <<>>)
  BY <1>1 DEF Select, Selections
<1>4. O \in SUBSET Assessed /\ result.equity \in Nat
  BY <1>1, <1>2 DEF OpportunityTypeOK
<1>5. OpportunityTypeOK'
  <2>1. queue' \in Seq(Assessed)
    BY <1>3, <1>4, SelectionFacts
  <2>2. basis' \in Nat /\ careless' \in BOOLEAN
    BY <1>3, <1>4 DEF Select
  <2>3. /\ equity' \in Nat
        /\ positions' \in SUBSET Assessed /\ IsFiniteSet(positions')
        /\ pending' \in SUBSET Assessed /\ IsFiniteSet(pending')
        /\ drained' \in Seq(Assessed) /\ submissions' \in BOOLEAN
        /\ result' # None => result'.orders \in SUBSET Assessed /\ result'.equity \in Nat
    BY <1>2 DEF OpportunityTypeOK, Select
  <2> QED
    BY <2>1, <2>2, <2>3 DEF OpportunityTypeOK
<1>6. Committed' = Committed
  BY DEF Committed, OpenRisk, ReservedRisk, Select
<1>7. ResultHasRoom'
  BY <1>6 DEF OpportunityInv, ResultHasRoom, Room, Select
<1>8. ASSUME ~careless'
      PROVE  /\ Len(chosen) = 1 /\ drained' = <<>>
             /\ chosen[1] \in Assessed
             /\ Room(chosen[1], result.equity)
  <2>1. ~(Len(chosen) > 1) /\ drained = <<>> /\ ~submissions
    BY <1>3, <1>8
  <2>2. Len(chosen) = 1 /\ chosen[1] \in O
    BY <2>1, SelectionFacts
  <2>3. Room(chosen[1], result.equity)
    BY <1>1, <1>2, <2>1, <2>2 DEF OpportunityInv, ResultHasRoom
  <2> QED
    BY <1>4, <2>1, <2>2, <2>3 DEF Select
<1>9. SelectionHasRoom'
  <2>1. SUFFICES ASSUME ~careless'
                 PROVE  /\ Len(queue') + Len(drained') <= 1
                        /\ \A i \in 1..Len(queue') : 100 * (Committed' + Risk(queue'[i])) <= MaxAggregate * basis'
                        /\ \A i \in 1..Len(drained') : 100 * (Committed' + Risk(drained'[i])) <= MaxAggregate * basis'
    BY DEF SelectionHasRoom, Room
  <2>2. Len(queue') = 1 /\ Len(drained') = 0
    BY <1>3, <1>8, <2>1
  <2>3. 100 * (Committed' + Risk(queue'[1])) <= MaxAggregate * basis'
    BY <1>3, <1>6, <1>8, <2>1 DEF Room, Select
  <2> QED
    BY <2>2, <2>3
<1>10. WithinAggregate'
  <2>1. SUFFICES ASSUME ~careless'
                 PROVE  100 * Committed' <= MaxAggregate * basis'
    BY DEF WithinAggregate
  <2>2. PICK most : most = MaxAggregate * result.equity
    OBVIOUS
  <2>3. 100 * (Committed + Risk(chosen[1])) <= most /\ chosen[1] \in Orders
    BY <1>4, <1>8, <2>1, <2>2 DEF Room, Assessed
  <2>4. Risk(chosen[1]) \in Nat
    BY <2>3, RiskIsNatural
  <2>5. Committed \in Nat /\ most \in Nat
    BY <1>2, <1>4, <2>2, CommittedIsNatural, NumberAssumption
  <2>6. basis' = result.equity
    BY DEF Select
  <2> QED
    BY <1>6, <2>2, <2>3, <2>4, <2>5, <2>6
<1> QED
  BY <1>5, <1>7, <1>9, <1>10 DEF OpportunityInv

LEMMA ExitsKeepRoom ==
    ASSUME OpportunityInv, ManageExits
    PROVE  OpportunityInv'
<1> USE DEF ManageExits
<1>1. PICK closed \in SUBSET positions : positions' = positions \ closed
  OBVIOUS
<1>2. equity' \in Nat
  OBVIOUS
<1>3. OpportunityTypeOK
  BY DEF OpportunityInv
<1>4. PICK left : left = positions' /\ left \in SUBSET positions
  BY <1>1
<1>5. left \in SUBSET Assessed /\ IsFiniteSet(left)
  BY <1>3, <1>4, FS_Subset DEF OpportunityTypeOK
<1>6. OpportunityTypeOK'
  BY <1>2, <1>3, <1>4, <1>5 DEF OpportunityTypeOK
<1>7. Committed' <= Committed
  <2>1. PICK none : none = {}
    OBVIOUS
  <2>2. /\ positions \in SUBSET Orders /\ IsFiniteSet(positions)
        /\ none \in SUBSET positions /\ left \cap none = {}
    BY <1>3, <2>1 DEF OpportunityTypeOK, Assessed
  <2>3. /\ RiskOf(left) + RiskOf(none) <= RiskOf(positions)
        /\ RiskOf(left) \in Nat /\ RiskOf(none) \in Nat /\ RiskOf(positions) \in Nat
    BY <1>4, <2>2, RiskOfParts
  <2>4. Committed = RiskOf(positions) + RiskOf(pending) /\ RiskOf(pending) \in Nat
    BY <1>3, CommittedIsNatural
  <2>5. Committed' = RiskOf(left) + RiskOf(pending)
    BY <1>4, <1>6, CommittedIsNaturalAfter
  <2> QED
    BY <2>3, <2>4, <2>5
<1> QED
  BY <1>6, <1>7, NothingMoreCommitted

(* A filled order takes its reserve with it.                               *)
LEMMA FillsKeepRoom ==
    ASSUME OpportunityInv, CheckPending
    PROVE  OpportunityInv'
<1> USE DEF CheckPending
<1>0. PICK filled \in SUBSET pending, rejected \in SUBSET pending :
          positions' = positions \cup filled /\ pending' = pending \ (filled \cup rejected)
  BY DEF Fill
<1>1. PICK opened, left :
          /\ opened = positions \cup filled /\ left = pending \ (filled \cup rejected)
          /\ positions' = opened /\ pending' = left
  BY <1>0
<1>2. OpportunityTypeOK
  BY DEF OpportunityInv
<1>3. /\ positions \in SUBSET Assessed /\ IsFiniteSet(positions)
      /\ pending \in SUBSET Assessed /\ IsFiniteSet(pending)
      /\ filled \in SUBSET Assessed /\ IsFiniteSet(filled)
  BY <1>2, FS_Subset DEF OpportunityTypeOK
<1>4. /\ opened \in SUBSET Assessed /\ IsFiniteSet(opened)
      /\ left \in SUBSET Assessed /\ IsFiniteSet(left)
  BY <1>1, <1>3, FS_Union, FS_Subset
<1>5. OpportunityTypeOK'
  BY <1>1, <1>2, <1>4 DEF OpportunityTypeOK
<1>6. Committed' <= Committed
  <2>1. filled \in SUBSET pending /\ left \in SUBSET pending /\ filled \cap left = {}
    BY <1>1
  <2>2. /\ positions \in SUBSET Orders /\ pending \in SUBSET Orders /\ filled \in SUBSET Orders
    BY <1>3 DEF Assessed
  <2>3. RiskOf(filled) + RiskOf(left) <= RiskOf(pending)
        /\ RiskOf(filled) \in Nat /\ RiskOf(left) \in Nat /\ RiskOf(pending) \in Nat
    BY <1>3, <2>1, <2>2, RiskOfParts
  <2>4. RiskOf(opened) <= RiskOf(positions) + RiskOf(filled)
    BY <1>1, <1>3, <2>2, RiskOfUnion
  <2>5. Committed = RiskOf(positions) + RiskOf(pending) /\ RiskOf(positions) \in Nat
    BY <1>2, CommittedIsNatural
  <2>6. Committed' = RiskOf(opened) + RiskOf(left) /\ RiskOf(opened) \in Nat
    BY <1>1, <1>5, CommittedIsNaturalAfter
  <2> QED
    BY <2>3, <2>4, <2>5, <2>6
<1> QED
  BY <1>5, <1>6, NothingMoreCommitted
LEMMA DrainKeepsRoom ==
    ASSUME OpportunityInv, Drain
    PROVE  OpportunityInv'
<1>1. OpportunityTypeOK
  BY DEF OpportunityInv
<1>2. /\ drained = <<>> /\ drained' = queue /\ queue' = <<>>
      /\ UNCHANGED <<equity, positions, pending, known, result, submissions, careless, basis>>
  BY DEF Drain
<1>3. OpportunityTypeOK'
  BY <1>1, <1>2 DEF OpportunityTypeOK
<1>4. Committed' = Committed
  BY <1>2 DEF Committed, OpenRisk, ReservedRisk
<1>5. SelectionHasRoom'
  <2>1. Len(drained) = 0 /\ Len(queue') = 0 /\ Len(queue) \in Nat
    BY <1>1, <1>2 DEF OpportunityTypeOK
  <2> QED
    BY <1>2, <1>4, <2>1 DEF OpportunityInv, SelectionHasRoom, Room
<1>6. ResultHasRoom' /\ WithinAggregate'
  BY <1>2, <1>4 DEF OpportunityInv, ResultHasRoom, WithinAggregate, Room
<1> QED
  BY <1>3, <1>5, <1>6 DEF OpportunityInv

(* The order that is submitted is the only one selected, and there is room *)
(* for it.                                                                 *)
LEMMA SubmissionKeepsRoom ==
    ASSUME OpportunityInv, Submit
    PROVE  OpportunityInv'
<1>1. OpportunityTypeOK
  BY DEF OpportunityInv
<1>2. PICK o : o = Head(drained)
  OBVIOUS
<1>3. /\ drained # <<>> /\ drained' = Tail(drained) /\ submissions' = TRUE
      /\ UNCHANGED <<equity, result, queue, careless, basis>>
      /\ \/ positions' = positions \cup {o} /\ pending' = pending
         \/ positions' = positions /\ pending' = pending \cup {o}
         \/ positions' = positions /\ pending' = pending
  BY <1>2 DEF Submit, Fill
<1>4. /\ o = drained[1] /\ o \in Assessed /\ Len(drained) \in Nat \ {0}
      /\ Tail(drained) \in Seq(Assessed) /\ Len(Tail(drained)) = Len(drained) - 1
      /\ Len(queue) \in Nat
  BY <1>1, <1>2, <1>3 DEF OpportunityTypeOK
<1>5. PICK one, opened, rested :
          one = {o} /\ opened = positions \cup one /\ rested = pending \cup one
  OBVIOUS
<1>6. /\ positions \in SUBSET Assessed /\ IsFiniteSet(positions)
      /\ pending \in SUBSET Assessed /\ IsFiniteSet(pending)
      /\ one \in SUBSET Assessed /\ IsFiniteSet(one)
      /\ opened \in SUBSET Assessed /\ IsFiniteSet(opened)
      /\ rested \in SUBSET Assessed /\ IsFiniteSet(rested)
  BY <1>1, <1>4, <1>5, FS_Singleton, FS_Union DEF OpportunityTypeOK
<1>7. /\ positions' \in {positions, opened} /\ pending' \in {pending, rested}
      /\ positions' = positions \/ pending' = pending
  BY <1>3, <1>5
<1>8. OpportunityTypeOK'
  <2>1. /\ positions' \in SUBSET Assessed /\ IsFiniteSet(positions')
        /\ pending' \in SUBSET Assessed /\ IsFiniteSet(pending')
    BY <1>6, <1>7
  <2>2. drained' \in Seq(Assessed) /\ submissions' \in BOOLEAN
    BY <1>3, <1>4
  <2>3. /\ equity' \in Nat /\ basis' \in Nat /\ queue' \in Seq(Assessed) /\ careless' \in BOOLEAN
        /\ result' # None => result'.orders \in SUBSET Assessed /\ result'.equity \in Nat
    BY <1>1, <1>3 DEF OpportunityTypeOK
  <2> QED
    BY <2>1, <2>2, <2>3 DEF OpportunityTypeOK
<1>9. Committed' <= Committed + Risk(o) /\ Committed \in Nat /\ Committed' \in Nat /\ Risk(o) \in Nat
  <2>1. /\ positions \in SUBSET Orders /\ pending \in SUBSET Orders /\ one \in SUBSET Orders
        /\ o \in Orders
    BY <1>4, <1>6 DEF Assessed
  <2>2. RiskOf(one) = Risk(o) /\ Risk(o) \in Nat
    BY <1>5, <2>1, RiskOfOne, RiskIsNatural
  <2>3. RiskOf(opened) <= RiskOf(positions) + Risk(o) /\ RiskOf(rested) <= RiskOf(pending) + Risk(o)
    BY <1>5, <1>6, <2>1, <2>2, RiskOfUnion
  <2>4. /\ Committed = RiskOf(positions) + RiskOf(pending) /\ Committed \in Nat
        /\ RiskOf(positions) \in Nat /\ RiskOf(pending) \in Nat
    BY <1>1, CommittedIsNatural
  <2>5. /\ Committed' = RiskOf(positions') + RiskOf(pending') /\ Committed' \in Nat
        /\ RiskOf(positions') \in Nat /\ RiskOf(pending') \in Nat
    BY <1>8, CommittedIsNaturalAfter
  <2>6. CASE positions' = positions /\ pending' = pending
    BY <2>2, <2>4, <2>5, <2>6
  <2>7. CASE positions' = opened /\ pending' = pending
    BY <2>2, <2>3, <2>4, <2>5, <2>7
  <2>8. CASE positions' = positions /\ pending' = rested
    BY <2>2, <2>3, <2>4, <2>5, <2>8
  <2> QED
    BY <1>7, <2>2, <2>4, <2>5, <2>6, <2>7, <2>8
<1>10. ASSUME ~careless
       PROVE  /\ 100 * (Committed + Risk(o)) <= MaxAggregate * basis
              /\ Len(queue) = 0 /\ Len(drained) = 1
  <2>1. /\ Len(queue) + Len(drained) <= 1
        /\ \A i \in 1..Len(drained) : Room(drained[i], basis)
    BY <1>10 DEF OpportunityInv, SelectionHasRoom
  <2>2. Len(drained) = 1 /\ Len(queue) = 0
    BY <1>4, <2>1
  <2>3. Room(drained[1], basis)
    BY <2>1, <2>2
  <2> QED
    BY <1>4, <2>2, <2>3 DEF Room
<1>11. SelectionHasRoom'
  <2>1. SUFFICES ASSUME ~careless
                 PROVE  Len(queue') = 0 /\ Len(drained') = 0
    BY <1>3 DEF SelectionHasRoom
  <2> QED
    BY <1>3, <1>4, <1>10, <2>1
<1>12. WithinAggregate'
  <2>1. SUFFICES ASSUME ~careless
                 PROVE  100 * Committed' <= MaxAggregate * basis
    BY <1>3 DEF WithinAggregate
  <2>2. PICK most : most = MaxAggregate * basis
    OBVIOUS
  <2>3. most \in Nat
    BY <1>1, <2>2, NumberAssumption DEF OpportunityTypeOK
  <2>4. 100 * (Committed + Risk(o)) <= most
    BY <1>10, <2>1, <2>2
  <2> QED
    BY <1>9, <2>2, <2>3, <2>4
<1>13. ResultHasRoom'
  BY <1>3 DEF OpportunityInv, ResultHasRoom
<1> QED
  BY <1>8, <1>11, <1>12, <1>13 DEF OpportunityInv

(* The steps that commit nothing and lose what was selected, or nothing.   *)
LEMMA OtherStepsKeepRoom ==
    ASSUME OpportunityInv, Conflict \/ EndCycle \/ Restart \/ UNCHANGED vars
    PROVE  OpportunityInv'
<1>1. OpportunityTypeOK
  BY DEF OpportunityInv
<1>2. /\ UNCHANGED <<equity, positions, pending, careless, basis>>
      /\ queue' = queue \/ queue' = <<>>
      /\ drained' = drained \/ drained' = <<>>
      /\ (result' = result /\ submissions' = submissions) \/ (result' = None /\ submissions' = FALSE)
  BY DEF Conflict, EndCycle, Restart, vars
<1>3. OpportunityTypeOK'
  <2>1. queue' \in Seq(Assessed) /\ drained' \in Seq(Assessed)
    <3>1. queue \in Seq(Assessed) /\ drained \in Seq(Assessed) /\ <<>> \in Seq(Assessed)
      BY <1>1 DEF OpportunityTypeOK
    <3> QED
      BY <1>2, <3>1
  <2>2. submissions' \in BOOLEAN
    <3>1. submissions \in BOOLEAN
      BY <1>1 DEF OpportunityTypeOK
    <3> QED
      BY <1>2, <3>1
  <2> QED
    BY <1>1, <1>2, <2>1, <2>2 DEF OpportunityTypeOK
<1>4. Committed' = Committed
  BY <1>2 DEF Committed, OpenRisk, ReservedRisk
<1>5. SelectionHasRoom'
  <2>1. SUFFICES ASSUME ~careless
                 PROVE  /\ Len(queue') + Len(drained') <= 1
                        /\ \A i \in 1..Len(queue') : 100 * (Committed' + Risk(queue'[i])) <= MaxAggregate * basis
                        /\ \A i \in 1..Len(drained') : 100 * (Committed' + Risk(drained'[i])) <= MaxAggregate * basis
    BY <1>2 DEF SelectionHasRoom, Room
  <2>2. /\ Len(queue) + Len(drained) <= 1 /\ Len(queue) \in Nat /\ Len(drained) \in Nat
        /\ \A i \in 1..Len(queue) : 100 * (Committed' + Risk(queue[i])) <= MaxAggregate * basis
        /\ \A i \in 1..Len(drained) : 100 * (Committed' + Risk(drained[i])) <= MaxAggregate * basis
    BY <1>1, <1>4, <2>1 DEF OpportunityInv, OpportunityTypeOK, SelectionHasRoom, Room
  <2> QED
    BY <1>2, <2>2
<1>6. ResultHasRoom' /\ WithinAggregate'
  BY <1>2, <1>4 DEF OpportunityInv, ResultHasRoom, WithinAggregate, Room
<1> QED
  BY <1>3, <1>5, <1>6 DEF OpportunityInv

(* What was assessed stays assessed, and what is selected has room, for    *)
(* every market, portfolio and policy.                                     *)
THEOREM OpportunityInvariance == Spec => []OpportunityInv
<1>1. Init => OpportunityInv
  BY OpportunityStarts
<1>2. OpportunityInv /\ [Next]_vars => OpportunityInv'
  <2>1. SUFFICES ASSUME OpportunityInv, [Next]_vars
                 PROVE  OpportunityInv'
    OBVIOUS
  <2>2. CASE EvaluateForClient
    <3>1. Evaluate /\ UNCHANGED <<equity, positions, pending, queue, drained, careless, basis>>
      BY <2>2 DEF EvaluateForClient
    <3> QED
      BY <2>1, <3>1, EvaluationKeepsRoom
  <2>3. CASE EvaluateInCycle
    <3>1. Evaluate /\ UNCHANGED <<equity, positions, pending, queue, drained, careless, basis>>
      BY <2>3 DEF EvaluateInCycle
    <3> QED
      BY <2>1, <3>1, EvaluationKeepsRoom
  <2>4. CASE Select
    BY <2>1, <2>4, SelectionKeepsRoom
  <2>5. CASE ManageExits
    BY <2>1, <2>5, ExitsKeepRoom
  <2>6. CASE CheckPending
    BY <2>1, <2>6, FillsKeepRoom
  <2>7. CASE Drain
    BY <2>1, <2>7, DrainKeepsRoom
  <2>8. CASE Submit
    BY <2>1, <2>8, SubmissionKeepsRoom
  <2>9. CASE Conflict \/ EndCycle \/ Restart \/ UNCHANGED vars
    BY <2>1, <2>9, OtherStepsKeepRoom
  <2> QED
    BY <2>1, <2>2, <2>3, <2>4, <2>5, <2>6, <2>7, <2>8, <2>9 DEF Next
<1> QED
  BY <1>1, <1>2, PTL DEF Spec

(* Positions and resting orders stay together within the aggregate limit   *)
(* of the equity the last one was assessed at, as long as a caller selects *)
(* one order at a time, from a result that saw the earlier ones            *)
(* (RiskEngine, OpportunityPipeline).                                      *)
THEOREM AggregateIsBounded == Spec => []WithinAggregate
<1>1. OpportunityInv => WithinAggregate
  BY DEF OpportunityInv
<1> QED
  BY <1>1, OpportunityInvariance, PTL

(* The loss at the stop of a position on the Storm venue stays within its  *)
(* share of the position, at whatever moment it was filled.                *)
THEOREM StormLossIsBounded == Spec => []StormLossBounded
<1>1. OpportunityInv => StormLossBounded
  BY DEF OpportunityInv, OpportunityTypeOK, Assessed, StormSafe, StormLossBounded
<1> QED
  BY <1>1, OpportunityInvariance, PTL
=============================================================================
