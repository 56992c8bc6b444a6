-------------------------- MODULE IncrementalCandles --------------------------
(***************************************************************************)
(* One candle series of IncrementalCandleService: the persistent store,    *)
(* the threads that load it, and the data routes they fetch from.          *)
(*                                                                         *)
(* Time is counted in intervals of the series: at time now the candle      *)
(* stamped now is in progress and the earlier ones are closed.  A candle   *)
(* is what a route answered: "partial" if it was in progress when it was   *)
(* asked for, "final" if it was closed.  Prices play no part.              *)
(***************************************************************************)
EXTENDS Integers, FiniteSets, FiniteSetsExt

CONSTANTS
    Loaders,         \* threads that call load for this series
    Limit,           \* the window: 260
    MinimumHistory,  \* candles an analysis needs: 220
    RefreshTail,     \* refresh_tail: 2
    MaxNow,          \* the last interval (bound)
    MaxLag,          \* intervals a route may lag behind (bound)
    Starts,          \* where a route's history may start
    Nobody             \* nobody, nothing

ASSUME SizeAssumption ==
    /\ RefreshTail \in Nat \ {0}
    /\ MinimumHistory \in Nat \ {0}
    /\ Limit \in Nat /\ Limit >= MinimumHistory
ASSUME TimeAssumption == MaxNow \in Nat /\ MaxLag \in Nat /\ Starts \subseteq Nat
ASSUME NobodyAssumption == Nobody \notin Loaders

VARIABLES
    now,      \* the interval in progress
    store,    \* the candles table: the candle of each timestamp
    lock,     \* _locks[series]: the loader that holds it
    pc,       \* where a loader is
    cached,   \* the timestamps it found in the store
    elapsed,  \* elapsed_intervals
    wanted,   \* fetch_limit
    fetched,  \* what a route answered, and when
    batch     \* the timestamps load returned to it last

local == <<cached, elapsed, wanted, fetched>>
candlesVars == <<now, store, lock, pc, local, batch>>

Stamps == 0..MaxNow
Candle == {"none", "partial", "final"}
Stages == {"idle", "fetch", "upsert", "finish"}

(* A resolved batch: the candles and the interval they were asked for in.  *)
(* had is not seen by the code: how many candles the route has in all.     *)
Answer == [stamps : SUBSET Stamps, asked : Stamps, had : Nat]
NoAnswer == [stamps |-> {}, asked |-> 0, had |-> 0]

(* The n latest of a set of timestamps.                                    *)
LatestCandles(n, S) == {t \in S : Cardinality({u \in S : u > t}) < n}

Stored == {t \in Stamps : store[t] # "none"}

(* store.load(limit)                                                       *)
Window == LatestCandles(Limit, Stored)

Max2(a, b) == IF a > b THEN a ELSE b
Min2(a, b) == IF a < b THEN a ELSE b
-----------------------------------------------------------------------------
CandlesInit ==
    /\ now \in Stamps
    /\ store = [t \in Stamps |-> "none"]
    /\ lock = Nobody
    /\ pc = [l \in Loaders |-> "idle"]
    /\ cached = [l \in Loaders |-> {}]
    /\ elapsed = [l \in Loaders |-> 0]
    /\ wanted = [l \in Loaders |-> 0]
    /\ fetched = [l \in Loaders |-> NoAnswer]
    /\ batch = [l \in Loaders |-> {}]

Tick ==
    /\ now < MaxNow
    /\ now' = now + 1
    /\ UNCHANGED <<store, lock, pc, local, batch>>

Elapsed(W) == IF W = {} THEN 0 ELSE Max2(0, now - Max(W))

(* Enough history, and no further candle can have closed.                  *)
Current(W) ==
    /\ Cardinality(W) >= MinimumHistory
    /\ Elapsed(W) < 2

(* Mutant: the elapsed intervals are not asked for.                        *)
TailOnly(W) ==
    IF W = {} THEN Limit ELSE Min2(Limit, RefreshTail)

FetchLimit(W) ==
    LET missing == Max2(0, MinimumHistory - Cardinality(W)) IN
    IF W = {} THEN Limit
    ELSE Min2(Limit, Max2(missing + RefreshTail, Elapsed(W)))

(* load, answered from the store.                                          *)
Hit(l) ==
    /\ pc[l] = "idle"
    /\ lock = Nobody
    /\ Current(Window)
    /\ batch' = [batch EXCEPT ![l] = Window]
    /\ UNCHANGED <<now, store, lock, pc, local>>

(* Mutant: the lock is not waited for.                                     *)
MissUnlocked(l) ==
    /\ pc[l] = "idle"
    /\ ~Current(Window)
    /\ lock' = l
    /\ cached' = [cached EXCEPT ![l] = Window]
    /\ elapsed' = [elapsed EXCEPT ![l] = Elapsed(Window)]
    /\ wanted' = [wanted EXCEPT ![l] = FetchLimit(Window)]
    /\ batch' = [batch EXCEPT ![l] = {}]
    /\ pc' = [pc EXCEPT ![l] = "fetch"]
    /\ UNCHANGED <<now, store, fetched>>

(* load, up to its request: the lock stays taken until it ends.            *)
Miss(l) ==
    /\ pc[l] = "idle"
    /\ lock = Nobody
    /\ ~Current(Window)
    /\ lock' = l
    /\ cached' = [cached EXCEPT ![l] = Window]
    /\ elapsed' = [elapsed EXCEPT ![l] = Elapsed(Window)]
    /\ wanted' = [wanted EXCEPT ![l] = FetchLimit(Window)]
    /\ batch' = [batch EXCEPT ![l] = {}]
    /\ pc' = [pc EXCEPT ![l] = "fetch"]
    /\ UNCHANGED <<now, store, fetched>>

(* What a route may have of the series when it is asked: an unbroken run   *)
(* of candles, of a listing or a fallback that may start late, up to the   *)
(* candle in progress or a few behind it; or nothing at all.               *)
Histories == {a..b : a \in Starts, b \in Max2(0, now - MaxLag)..now}

(* get_candles_with_provenance: the first route that answers gives its     *)
(* latest candles.                                                         *)
Fetch(l) ==
    /\ pc[l] = "fetch"
    /\ \E H \in Histories :
          fetched' = [fetched EXCEPT ![l] =
                         [stamps |-> LatestCandles(wanted[l], H), asked |-> now,
                          had |-> Cardinality(H)]]
    /\ pc' = [pc EXCEPT ![l] = "upsert"]
    /\ UNCHANGED <<now, store, lock, cached, elapsed, wanted, batch>>

Value(t, answer) == IF t < answer.asked THEN "final" ELSE "partial"

(* store.upsert: one transaction.                                          *)
Upsert(l) ==
    /\ pc[l] = "upsert"
    /\ store' = [t \in Stamps |->
           IF t \in fetched[l].stamps THEN Value(t, fetched[l]) ELSE store[t]]
    /\ pc' = [pc EXCEPT ![l] = "finish"]
    /\ UNCHANGED <<now, lock, local, batch>>

(* insufficient_cached_history                                             *)
TooShort == Cardinality(Window) < MinimumHistory

(* Mutant: one missing candle is let through.                              *)
MissesGap(l) ==
    /\ cached[l] # {} /\ elapsed[l] <= Limit
    /\ fetched[l].stamps # {} => Min(fetched[l].stamps) > Max(cached[l]) + 2

(* candle_gap_after_incremental_refresh; an empty answer raises IndexError *)
(* in the same place.                                                      *)
Gap(l) ==
    /\ cached[l] # {} /\ elapsed[l] <= Limit
    /\ fetched[l].stamps # {} => Min(fetched[l].stamps) > Max(cached[l]) + 1

(* The end of load: the local state is gone and the lock is free.          *)
Release(l) ==
    /\ lock' = Nobody
    /\ pc' = [pc EXCEPT ![l] = "idle"]
    /\ cached' = [cached EXCEPT ![l] = {}]
    /\ elapsed' = [elapsed EXCEPT ![l] = 0]
    /\ wanted' = [wanted EXCEPT ![l] = 0]
    /\ fetched' = [fetched EXCEPT ![l] = NoAnswer]
    /\ UNCHANGED <<now, store>>

Return(l) ==
    /\ pc[l] = "finish"
    /\ ~TooShort /\ ~Gap(l)
    /\ batch' = [batch EXCEPT ![l] = Window]
    /\ Release(l)

Raise(l) ==
    /\ pc[l] = "finish"
    /\ TooShort \/ Gap(l)
    /\ UNCHANGED batch
    /\ Release(l)

(* all_sources_failed, or an error of the database.                        *)
Fail(l) ==
    /\ pc[l] \in {"fetch", "upsert"}
    /\ UNCHANGED batch
    /\ Release(l)

(* The process is killed and started again; the store is a file.           *)
RestartProcess ==
    /\ lock' = Nobody
    /\ pc' = [l \in Loaders |-> "idle"]
    /\ cached' = [l \in Loaders |-> {}]
    /\ elapsed' = [l \in Loaders |-> 0]
    /\ wanted' = [l \in Loaders |-> 0]
    /\ fetched' = [l \in Loaders |-> NoAnswer]
    /\ batch' = [l \in Loaders |-> {}]
    /\ UNCHANGED <<now, store>>

CandlesNext ==
    \/ Tick
    \/ RestartProcess
    \/ \E l \in Loaders :
          \/ Hit(l) \/ Miss(l) \/ Fetch(l) \/ Upsert(l)
          \/ Return(l) \/ Raise(l) \/ Fail(l)

CandlesSpec == CandlesInit /\ [][CandlesNext]_candlesVars
-----------------------------------------------------------------------------
(* Types, and the lock: it is held by the one loader that is inside load.  *)
CandlesTypeOK ==
    /\ now \in Stamps
    /\ store \in [Stamps -> Candle]
    /\ lock \in Loaders \cup {Nobody}
    /\ pc \in [Loaders -> Stages]
    /\ cached \in [Loaders -> SUBSET Stamps]
    /\ elapsed \in [Loaders -> Nat]
    /\ wanted \in [Loaders -> Nat]
    /\ fetched \in [Loaders -> Answer]
    /\ batch \in [Loaders -> SUBSET Stamps]
    /\ \A l \in Loaders : pc[l] # "idle" <=> lock = l

(* A candle stored final is closed.                                        *)
FinalIsClosed == \A t \in Stamps : store[t] = "final" => t < now

(* An answer that waits to be stored knows a stored final candle as final. *)
AnswerIsRecent ==
    \A l \in Loaders : pc[l] = "upsert" =>
        \A t \in fetched[l].stamps : store[t] = "final" => t < fetched[l].asked

(* No answer was asked for in the future.                                  *)
AnswerIsPast == \A l \in Loaders : fetched[l].asked <= now

(* The inductive invariant.                                                *)
CandlesInv == CandlesTypeOK /\ FinalIsClosed /\ AnswerIsRecent /\ AnswerIsPast

Gapped(W) == \E t \in Stamps \ W : \E u, v \in W : u < t /\ t < v

(* A candle that is stored final stays final: no answer that was asked for *)
(* earlier, while the candle was in progress, is written over it, however  *)
(* long a request takes and however many threads load the series.          *)
FinalStays ==
    [][\A t \in Stamps : store[t] = "final" => store'[t] = "final"]_candlesVars

(* The answer of a load reaches up to the candles the load found.          *)
Reaches(l) ==
    cached[l] # {} => \E t \in fetched[l].stamps, u \in cached[l] : u <= t + 1

(* A load that makes a gap in the window reports it, whenever the interval *)
(* ends between its decision and its request: a gapped window is returned  *)
(* after a refresh only when the store had the gap before, when the route  *)
(* lags so far behind that it has none of the cached candles nor the one   *)
(* before them, or when, after a stop of more than Limit intervals, for    *)
(* which the check is off, it gives less than it was asked for.            *)
GapReported ==
    [][\A l \in Loaders :
          /\ pc[l] = "finish" /\ batch'[l] # batch[l]
          /\ ~Gapped(cached[l])
          /\ Reaches(l)
          /\ elapsed[l] > Limit => Cardinality(fetched[l].stamps) = wanted[l]
          => ~Gapped(batch'[l])]_candlesVars

=============================================================================
