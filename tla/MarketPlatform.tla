-------------------------- MODULE MarketPlatform --------------------------
(***************************************************************************)
(* The market data of the PAPER application (app/data/platform.py): the    *)
(* hot cache, the durable history, the router over the providers with a    *)
(* circuit breaker each (provider_router.py, reliability.py), and the      *)
(* candle stream of Gate.io that feeds cache and history                   *)
(* (providers/gateio_stream.py, streaming.py).  The threads of the         *)
(* strategy pipeline and of the API ask for the latest candles of one      *)
(* series.  A series maps the opening of a candle, in intervals, to the    *)
(* moment up to which its trades are in it.                                *)
(***************************************************************************)
EXTENDS Integers, Sequences, FiniteSets, Functions, FiniteSetsExt, SequencesExt

CONSTANTS Callers,    \* threads that load candles
          Providers,  \* the providers of the candle router, in order
          Sessions,   \* the providers whose gaps are only warnings (allow_session_gap_providers)
          Streams,    \* whether the stream is started
          Limit,      \* candles of a request, at most MaxCandles
          MaxAge,     \* default_candle_max_age_seconds, in intervals
          Threshold,  \* circuit_failure_threshold
          Recovery,   \* circuit_recovery_seconds, in intervals
          MaxCandles, \* max_candles_per_series
          MaxTime     \* bound on the clock

VARIABLES now,      \* the clock, in intervals
          cache,    \* MarketDataCache
          history,  \* SQLiteCandleStore
          circuit,  \* consecutive failures, up to Threshold, and the moment the circuit opened
          call,     \* what each thread is doing
          stream,   \* the connection
          seen,     \* the sequence of the last event the ingestor accepted
          served    \* what was returned last to each thread, and when

vars == <<now, cache, history, circuit, call, stream, seen, served>>

None == -1
Empty == <<>>
Closed == [failures |-> 0, opened |-> None]
NotServed == [at |-> None, rows |-> Empty]
Idle == [do |-> "idle"]

-----------------------------------------------------------------------------
(* Series.                                                                 *)

Newest(n, rows) == Restrict(rows, {t \in DOMAIN rows : Cardinality({u \in DOMAIN rows : u > t}) < n})
\* put_candles, upsert: by timestamp, the later one stays.
Put(rows, old) == Newest(MaxCandles, rows @@ old)
Upsert(rows, old) == rows @@ old

\* The provider's candle that opened at t, when asked at m.
CandleAt(t, m) == IF m > t THEN t + 1 ELSE t
Contiguous(rows) == \A t \in DOMAIN rows : t = Max(DOMAIN rows) \/ t + 1 \in DOMAIN rows
Fresh(rows, at) == rows # Empty /\ at - Max(DOMAIN rows) <= MaxAge

\* validate_candles and detect_price_outliers.
Reliable(p, rows) == Fresh(rows, now) /\ (Contiguous(rows) \/ p \in Sessions)

\* What a provider may answer: its latest candles, perhaps late, perhaps with a session gap.
Answers ==
    LET Rows(ts) == [t \in ts |-> CandleAt(t, now)]
    IN  {Rows(ts) : ts \in {x \in SUBSET (0 .. now) : Cardinality(x) <= Limit}}

(* Circuit breakers.                                                       *)

\* is_open, which forgets a circuit that was open for the recovery time.
IsOpen(p) == circuit[p].opened # None /\ now - circuit[p].opened < Recovery
Checked(p) == IF IsOpen(p) THEN circuit[p] ELSE [circuit[p] EXCEPT !.opened = None]
\* record_failure: at the threshold the circuit opens, or opens again.
Failed(p) ==
    LET failures == Min({circuit[p].failures + 1, Threshold})
    IN  [failures |-> failures, opened |-> IF failures = Threshold THEN now ELSE Checked(p).opened]

-----------------------------------------------------------------------------
(* A request for candles.                                                  *)

Goto(c, step) == call' = [call EXCEPT ![c] = step]
Serve(c, rows) == served' = [served EXCEPT ![c] = [at |-> now, rows |-> Newest(Limit, rows)]]

FromCache(c) ==
    /\ call[c] = Idle
    /\ Cardinality(DOMAIN cache) >= Limit
    /\ Serve(c, cache)
    /\ UNCHANGED <<now, cache, history, circuit, call, stream, seen>>

FromHistory(c) ==
    /\ call[c] = Idle
    /\ Cardinality(DOMAIN cache) < Limit
    /\ Cardinality(DOMAIN history) >= Limit
    /\ cache' = Put(Newest(Limit, history), cache)
    /\ Serve(c, history)
    /\ UNCHANGED <<now, history, circuit, call, stream, seen>>

Ask(c) ==
    /\ call[c] = Idle
    /\ Cardinality(DOMAIN cache) < Limit
    /\ Cardinality(DOMAIN history) < Limit
    /\ Goto(c, [do |-> "ask", n |-> 1])
    /\ UNCHANGED <<now, cache, history, circuit, stream, seen, served>>

Asks(c) == call[c].do = "ask" /\ call[c].n \in DOMAIN Providers
NextProvider(c) == Goto(c, [do |-> "ask", n |-> call[c].n + 1])

\* CircuitOpenError is one of the exceptions that count as a failure.
Refused(c) ==
    /\ Asks(c)
    /\ LET p == Providers[call[c].n]
       IN  IsOpen(p) /\ circuit' = [circuit EXCEPT ![p] = Failed(p)]
    /\ NextProvider(c)
    /\ UNCHANGED <<now, cache, history, stream, seen, served>>

\* The call, its retries, and the validation of what it returns.
Fetch(c) ==
    /\ Asks(c)
    /\ LET p == Providers[call[c].n]
       IN  /\ ~IsOpen(p)
           /\ \/ /\ circuit' = [circuit EXCEPT ![p] = Failed(p)]
                 /\ NextProvider(c)
              \/ \E rows \in Answers :
                   /\ Reliable(p, rows)
                   /\ circuit' = [circuit EXCEPT ![p] = Closed]
                   /\ Goto(c, [do |-> "put", rows |-> rows])
              \/ /\ circuit' = [circuit EXCEPT ![p] = Checked(p)] \* SymbolMappingError
                 /\ NextProvider(c)
    /\ UNCHANGED <<now, cache, history, stream, seen, served>>

NoProvider(c) ==
    /\ call[c].do = "ask"
    /\ call[c].n \notin DOMAIN Providers
    /\ Goto(c, Idle)
    /\ UNCHANGED <<now, cache, history, circuit, stream, seen, served>>

PutFetched(c) ==
    /\ call[c].do = "put"
    /\ cache' = Put(call[c].rows, cache)
    /\ Goto(c, [do |-> "upsert", rows |-> call[c].rows])
    /\ UNCHANGED <<now, history, circuit, stream, seen, served>>

Store(c) ==
    /\ call[c].do = "upsert"
    /\ history' = Upsert(call[c].rows, history)
    /\ Serve(c, call[c].rows)
    /\ Goto(c, Idle)
    /\ UNCHANGED <<now, cache, circuit, stream, seen>>

-----------------------------------------------------------------------------
(* The stream.                                                             *)

Connect == stream = "down" /\ stream' = "up" /\ UNCHANGED <<now, cache, history, circuit, call, seen, served>>
Disconnect == stream = "up" /\ stream' = "down" /\ UNCHANGED <<now, cache, history, circuit, call, seen, served>>

\* An update of the current candle, or the last one of the candle before it.
Update ==
    /\ stream = "up"
    /\ now > seen
    /\ \E t \in {now, now - 1} \ {None} :
         LET row == t :> CandleAt(t, now)
         IN  /\ cache' = Put(row, cache)
             /\ \/ history' = Upsert(row, history) /\ seen' = now /\ UNCHANGED stream
                \/ stream' = "down" /\ UNCHANGED <<history, seen>> \* upsert fails: the event is not marked as seen
    /\ UNCHANGED <<now, circuit, call, served>>

Restart ==
    /\ cache' = Empty
    /\ circuit' = [p \in Range(Providers) |-> Closed]
    /\ call' = [c \in Callers |-> Idle]
    /\ stream' = (IF Streams THEN "down" ELSE "off")
    /\ seen' = None
    /\ served' = [c \in Callers |-> NotServed]
    /\ UNCHANGED <<now, history>>

\* A request is over before the next interval begins.
Tick == now < MaxTime /\ now' = now + 1 /\ (\A c \in Callers : call[c] = Idle) /\ UNCHANGED <<cache, history, circuit, call, stream, seen, served>>

Init ==
    /\ now = 0
    /\ cache = Empty
    /\ history = Empty
    /\ circuit = [p \in Range(Providers) |-> Closed]
    /\ call = [c \in Callers |-> Idle]
    /\ stream = (IF Streams THEN "down" ELSE "off")
    /\ seen = None
    /\ served = [c \in Callers |-> NotServed]

Request(c) == FromCache(c) \/ FromHistory(c) \/ Ask(c) \/ Refused(c) \/ Fetch(c) \/ NoProvider(c) \/ PutFetched(c) \/ Store(c)

Next == (\E c \in Callers : Request(c)) \/ Connect \/ Disconnect \/ Update \/ Restart \/ Tick

Spec == Init /\ [][Next]_vars

-----------------------------------------------------------------------------
\* docs/architecture/17_data_quality_reliability.md:60: stale data and gaps must not be converted into a strategy
\* signal: what a thread is given to analyse is no older than what the router would accept from a provider.
ServedIsFresh == \A c \in Callers : served[c] # NotServed => Fresh(served[c].rows, served[c].at)
=============================================================================
