---------------------------- MODULE MarketScan ----------------------------
(***************************************************************************)
(* The budgeted scan of every market (app/application/                     *)
(* budgeted_market_scan.py) over the routes of the resolver                *)
(* (app/universe/market_data_resolution.py) and the health it keeps of     *)
(* them (app/data/adaptive_failover.py).  An evaluation runs on a thread   *)
(* of its own and loads its candles under the lock of its series           *)
(* (app/data/incremental_candle_cache.py).  At the deadline the scan       *)
(* returns; the threads that still wait for an answer go on, hold their    *)
(* locks and record what becomes of their calls, also during the scans     *)
(* after it.  Time passes only while every thread waits for an answer, a   *)
(* lock or a free worker: what the program computes takes none.            *)
(***************************************************************************)
EXTENDS Integers, Sequences, FiniteSets, Functions, FiniteSetsExt, SequencesExt

CONSTANTS Symbols,       \* the assets, in the order they are submitted
          Routes,        \* pairs of a provider and its symbol
          Registry,      \* the configured routes of each asset, in order
          Discovered,    \* the Gate.io pair and the Yahoo symbol closest in price, where there is one
          MaxWorkers,    \* max_workers
          Budget,        \* budget_seconds, in ticks
          Attempts,      \* retry_attempts + 1
          Threshold,     \* failure_threshold
          Cooldown       \* cooldown_seconds, in ticks

ASSUME ScannerAssumption == MaxWorkers \in Nat \ {0} /\ Budget \in Nat \ {0} /\ Attempts \in Nat \ {0}
ASSUME HealthAssumption == Threshold \in Nat \ {0} /\ Cooldown \in Nat
ASSUME RegistryAssumption == \A s \in Range(Symbols) : Registry[s] \in Seq(Routes)

VARIABLES up,        \* the routes that answer with enough candles in time
          health,    \* consecutive failures of a route, up to Threshold, and the ticks of its cooldown left
          routes,    \* the resolved routes of each asset, in the order they are tried
          attempt,   \* of the scan in progress; 0 between scans
          left,      \* ticks to the deadline
          thread,    \* the evaluation of each asset in this attempt
          report,    \* by_symbol
          late       \* evaluations that outlived their scan

scanVars == <<up, health, routes, attempt, left, thread, report, late>>

Assets == Range(Symbols)
Unresolved == <<"unresolved">>
Out == [do |-> "out"]           \* not in this attempt
Picked == [do |-> "picked"]     \* of a retry, not submitted yet
Queued == [do |-> "queued"]     \* submitted, no worker yet
Blocked == [do |-> "blocked"]   \* waits for the lock of its series
Calling(n) == [do |-> "call", n |-> n]
Done(outcome) == [do |-> "done", is |-> outcome]

\* What an evaluation comes to for good: an error that is not retryable ends it like a market without a signal.
Evaluations == {"signal", "no_trade"}
\* The marker "all_sources_failed" of _is_retryable, and the reason at the deadline.
Failed == "all_sources_failed"
OutOfTime == "time_budget_exceeded"

Healthy == [failures |-> 0, cooling |-> 0]

-----------------------------------------------------------------------------
(* Source health.                                                          *)

Available(h, r) == h[r].cooling = 0
Success(h, r) == [h EXCEPT ![r] = Healthy]
Failure(h, r) ==
    LET failures == Min({h[r].failures + 1, Threshold})
    IN  [h EXCEPT ![r] = [failures |-> failures,
                          cooling |-> IF failures = Threshold THEN Cooldown ELSE @.cooling]]

(* Resolution.                                                             *)

\* The health after the live prices of the first n configured routes were asked for, none of which matched.
AfterMisses(s, n) ==
    LET h[k \in 0 .. n] ==
            IF k = 0 THEN health
            ELSE IF Available(h[k - 1], Registry[s][k]) /\ Registry[s][k] \notin up THEN Failure(h[k - 1], Registry[s][k])
            ELSE h[k - 1]
    IN  h[n]

\* The first configured route that is available, answers, and is close in price to the reference.
Matches(s, n, close) ==
    /\ Registry[s][n] \in up \cap close
    /\ Available(AfterMisses(s, n - 1), Registry[s][n])
    /\ \A k \in 1 .. n - 1 : Registry[s][k] \notin up \cap close \/ ~Available(AfterMisses(s, k - 1), Registry[s][k])

\* The closest Gate.io pair if it is close enough, else the closest Yahoo symbol, else no data.
Discover(s, close) ==
    LET found == SelectSeq(Discovered[s], LAMBDA r : r \in up \cap close)
    IN  SubSeq(found, 1, Min({1, Len(found)}))

First(n, list) == <<list[n]>> \o RemoveAt(list, n)

\* An asset is resolved once, before the first scan.
Resolve(s) ==
    /\ attempt = 0
    /\ routes[s] = Unresolved
    /\ \E close \in SUBSET Routes :
         \/ \E n \in DOMAIN Registry[s] :
              /\ Matches(s, n, close)
              /\ routes' = [routes EXCEPT ![s] = First(n, Registry[s])]
              /\ health' = Success(AfterMisses(s, n - 1), Registry[s][n])
         \/ /\ ~\E n \in DOMAIN Registry[s] : Matches(s, n, close)
            /\ health' = AfterMisses(s, Len(Registry[s]))
            /\ routes' = [routes EXCEPT ![s] = Discover(s, close)]
    /\ UNCHANGED <<up, attempt, left, thread, report, late>>

-----------------------------------------------------------------------------
(* Evaluations.                                                            *)

\* A thread is inside the lock of its series from the look into the cache to the stored answer.
Held(s) == \E t \in {thread[s]} \union {l[2] : l \in {k \in late : k[1] = s}} : t.do = "call"
\* It waits for an answer, or for the thread that holds its lock.
Waits(s, t) == t.do = "call" \/ (t = Blocked /\ Held(s))
Running(t) == t.do \in {"blocked", "call"}

\* The routes from the n-th on that are passed over, being in their cooldown.
Passed(s, n, h) == {k \in n .. Len(routes[s]) : \A i \in n .. k : ~Available(h, routes[s][i])}

\* Mutant of GoOn: a route that is passed over counts as one that failed, as it does in provider_router.py.
GoOnCounted(s, n, h, u) ==
    /\ LET next == n + Cardinality(Passed(s, n, h))
       IN  u = IF next \in DOMAIN routes[s] THEN Calling(next)
               ELSE Done(IF routes[s] = <<>> THEN "no_trade" ELSE Failed)
    /\ health' = [r \in Routes |-> IF r \in {routes[s][k] : k \in Passed(s, n, h)} THEN Failure(h, r)[r] ELSE h[r]]

\* To the next route to call, or to all_sources_failed; an asset without data is not retried.
GoOn(s, n, h, u) ==
    /\ LET next == n + Cardinality(Passed(s, n, h))
       IN  u = IF next \in DOMAIN routes[s] THEN Calling(next)
               ELSE Done(IF routes[s] = <<>> THEN "no_trade" ELSE Failed)
    /\ health' = h

Acquire(s, t, u) ==
    /\ t = Blocked
    /\ ~Held(s)
    /\ GoOn(s, 1, health, u)

\* The call returns; too little history, and a gap, are found after the route was recorded as healthy.
Answer(s, t, u) ==
    /\ t.do = "call"
    /\ LET r == routes[s][t.n]
       IN  \/ r \in up /\ health' = Success(health, r) /\ u \in {Done(e) : e \in Evaluations \union {Failed}}
           \/ r \notin up /\ GoOn(s, t.n + 1, Failure(health, r), u)

Step(s, t, u) == Acquire(s, t, u) \/ Answer(s, t, u)

Outcomes(s) == {Calling(n) : n \in DOMAIN routes[s]} \union {Done(e) : e \in Evaluations \union {Failed}}

\* The first asset still queued gets a free worker.
Start(s) ==
    /\ thread[s] = Queued
    /\ \A n \in DOMAIN Symbols : thread[Symbols[n]] = Queued => \A k \in DOMAIN Symbols : Symbols[k] = s => k <= n
    /\ Quantify(Assets, LAMBDA q : Running(thread[q])) < MaxWorkers
    /\ \/ Held(s) /\ thread' = [thread EXCEPT ![s] = Blocked] /\ UNCHANGED health
       \/ ~Held(s) /\ \E u \in Outcomes(s) : GoOn(s, 1, health, u) /\ thread' = [thread EXCEPT ![s] = u]
    /\ UNCHANGED <<up, routes, attempt, left, report, late>>

Evaluate(s) ==
    /\ \E u \in Outcomes(s) :
         /\ Step(s, thread[s], u)
         /\ thread' = [thread EXCEPT ![s] = u]
    /\ UNCHANGED <<up, routes, attempt, left, report, late>>

\* A thread that outlived its scan: nobody looks at its future any more.
EvaluateLate(s) ==
    /\ \E t \in {l[2] : l \in {k \in late : k[1] = s}} : \E u \in Outcomes(s) :
         /\ Step(s, t, u)
         /\ late' = (late \ {<<s, t>>}) \union (IF u.do = "done" THEN {} ELSE {<<s, u>>})
    /\ UNCHANGED <<up, routes, attempt, left, thread, report>>

-----------------------------------------------------------------------------
(* The scan.                                                               *)

StartScan ==
    /\ attempt = 0
    /\ \A s \in Assets : routes[s] # Unresolved
    /\ \A l \in late : Waits(l[1], l[2])
    /\ attempt' = 1
    /\ left' = Budget
    /\ thread' = [s \in Assets |-> Queued]
    /\ UNCHANGED <<up, health, routes, report, late>>

Submitted(s) == thread[s] \notin {Out, Picked}
AllDone == \A s \in Assets : Submitted(s) => thread[s].do = "done"

\* wait(futures, timeout)
MayReturn == AllDone \/ left = 0

\* What is not done is cancelled, or left to its thread, and reported as out of time.
Return ==
    /\ \E s \in Assets : Submitted(s)
    /\ MayReturn
    /\ report' = [s \in Assets |-> IF ~Submitted(s) THEN report[s]
                                   ELSE IF thread[s].do = "done" THEN thread[s].is ELSE OutOfTime]
    /\ late' = late \union {<<s, thread[s]>> : s \in {q \in Assets : Running(thread[q])}}
    /\ thread' = [s \in Assets |-> Out]
    /\ UNCHANGED <<up, health, routes, attempt, left>>

\* Mutant of Retryable: every market without a signal is tried again.
RetryableAll(outcome) == outcome # "signal"

Retryable(outcome) == outcome = Failed

Candidates == {s \in Assets : Retryable(report[s]) /\ left > 0 /\ attempt < Attempts}
Between == attempt > 0 /\ \A s \in Assets : thread[s] = Out

Retry ==
    /\ Between
    /\ Candidates # {}
    /\ attempt' = attempt + 1
    /\ thread' = [s \in Assets |-> IF s \in Candidates THEN Picked ELSE Out]
    /\ UNCHANGED <<up, health, routes, left, report, late>>

\* The retries are submitted, or refused when the deadline has passed since they were picked.
Submit ==
    /\ \E s \in Assets : thread[s] = Picked
    /\ thread' = [s \in Assets |-> IF thread[s] = Picked /\ left > 0 THEN Queued ELSE Out]
    /\ report' = [s \in Assets |-> IF thread[s] = Picked /\ left = 0 THEN OutOfTime ELSE report[s]]
    /\ UNCHANGED <<up, health, routes, attempt, left, late>>

\* The result is handed over.
HandOver ==
    /\ Between
    /\ Candidates = {}
    /\ attempt' = 0
    /\ left' = 0
    /\ report' = [s \in Assets |-> "none"]
    /\ UNCHANGED <<up, health, routes, thread, late>>

-----------------------------------------------------------------------------
(* The world.                                                              *)

\* Nothing can be done at once.
Idle ==
    /\ \A s \in Assets : \/ ~Submitted(s)
                         \/ thread[s].do = "done"
                         \/ Waits(s, thread[s])
                         \/ (thread[s] = Queued /\ Quantify(Assets, LAMBDA q : Running(thread[q])) = MaxWorkers)
    /\ \A l \in late : Waits(l[1], l[2])
    /\ attempt > 0 => \/ \E s \in Assets : thread[s] = Picked /\ left > 0
                      \/ \E s \in Assets : Submitted(s) /\ ~MayReturn

Tick ==
    /\ Idle
    /\ left' = IF attempt = 0 THEN 0 ELSE left - 1
    /\ health' = [r \in Routes |-> [health[r] EXCEPT !.cooling = Max({@ - 1, 0})]]
    /\ UNCHANGED <<up, routes, attempt, thread, report, late>>

Outage(r) == r \in up /\ up' = up \ {r} /\ UNCHANGED <<health, routes, attempt, left, thread, report, late>>
Recovery(r) == r \notin up /\ up' = up \union {r} /\ UNCHANGED <<health, routes, attempt, left, thread, report, late>>

ScanInit ==
    /\ up \in SUBSET Routes
    /\ health = [r \in Routes |-> Healthy]
    /\ routes = [s \in Assets |-> Unresolved]
    /\ attempt = 0
    /\ left = 0
    /\ thread = [s \in Assets |-> Out]
    /\ report = [s \in Assets |-> "none"]
    /\ late = {}

Scan == StartScan \/ Return \/ Retry \/ Submit \/ HandOver

ScanNext ==
    \/ \E s \in Assets : Resolve(s) \/ Start(s) \/ Evaluate(s) \/ EvaluateLate(s)
    \/ Scan
    \/ Tick
    \/ \E r \in Routes : Outage(r) \/ Recovery(r)

\* The process scans again and again, its threads are scheduled, calls return by their timeout, and time passes.
Fairness ==
    /\ \A s \in Assets : WF_scanVars(Resolve(s)) /\ WF_scanVars(Start(s)) /\ WF_scanVars(Evaluate(s)) /\ WF_scanVars(EvaluateLate(s))
    /\ WF_scanVars(Scan)
    /\ SF_scanVars(Tick)

ScanSpec == ScanInit /\ [][ScanNext]_scanVars /\ Fairness

-----------------------------------------------------------------------------

\* An evaluation that came to a verdict on the market keeps it to the end of the scan: neither a
\* retry nor the deadline replaces a signal, or the finding that there is none.
VerdictStands ==
    [][\A s \in Assets : report[s] \in Evaluations /\ report'[s] # report[s] => attempt' = 0]_scanVars

\* A thread of this asset gets candles from this route.
Served(s, r) ==
    /\ health'[r] = Healthy
    /\ \E t \in {thread[s]} \union {l[2] : l \in {k \in late : k[1] = s}} :
         t.do = "call" /\ routes[s][t.n] = r /\ r \in up
            /\ ((thread[s] = t /\ thread'[s] # t) \/ (<<s, t>> \in late /\ <<s, t>> \notin late'))

\* A route that is up again serves its asset again, however often it failed before and however
\* often it was passed over since: a cooldown ends.
RouteReturns ==
    \A s \in Assets, r \in Routes :
        <>[](r \in up /\ routes[s] # Unresolved /\ routes[s] # <<>> /\ Head(routes[s]) = r) => []<><<Served(s, r)>>_scanVars
=============================================================================
