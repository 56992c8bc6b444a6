---------------------------- MODULE ShadowOperation ----------------------------
(***************************************************************************)
(* The persistent shadow workers: processes that share one SQLite file,    *)
(* take turns through an expiring lease, and append their reports to a     *)
(* hash chain.  PersistentShadowService.run_forever and run_once over      *)
(* ShadowEvidenceRepository.                                               *)
(*                                                                         *)
(* Time is counted in ticks and kept relative to the present: how long ago *)
(* a worker read its clock, how long until the stored lease expires.  A    *)
(* step ends at a commit; the clocks of the workers agree.                 *)
(***************************************************************************)
EXTENDS Integers, Sequences

CONSTANTS
    Workers,      \* worker processes on one evidence database
    Interval,     \* interval_seconds
    Lease,        \* lease_seconds
    MaxWait,      \* busy_timeout: how long BEGIN IMMEDIATE waits for the lock
    MaxEvidence,  \* bound: no run starts once so many reports are stored
    MaxFailures,  \* bound: crashes and exceptions of all workers together
    None          \* no lease row; the owner id of a run that is gone

ASSUME ScheduleAssumption ==
    /\ Interval \in Nat \ {0} /\ Lease \in Nat
    /\ Interval <= Lease /\ Lease <= 2 * Interval
ASSUME WaitAssumption == MaxWait \in Nat /\ MaxWait < Interval
ASSUME BoundAssumption == MaxEvidence \in Nat /\ MaxFailures \in Nat
ASSUME NoneAssumption == None \notin Workers

VARIABLES
    lease,     \* shadow_worker_lease: owner, and ticks until expires_at
    evidence,  \* shadow_evidence, by sequence
    pc,        \* where each worker is
    age,       \* ticks since the worker's run read its clock
    rest,      \* ticks left of stop.wait(interval_seconds)
    stop,      \* the stop event of each worker
    failures   \* how many failures there were

vars == <<lease, evidence, pc, age, rest, stop, failures>>

Status == {"PASS", "HOLD", "FAIL"}
Genesis == <<>>
NoLease == [owner |-> None, left |-> -MaxWait]

(* fingerprint() of a report and of a chain entry: SHA-256 of canonical    *)
(* JSON, taken to be injective.                                            *)
Digest(report) == <<"report", report>>
ChainHash(run, digest, previous) == <<run, digest, previous>>

(* Mutant: the first row's hash is read, not the last one's.               *)
FirstHash == IF evidence = <<>> THEN Genesis ELSE evidence[1].hash

LastHash == IF evidence = <<>> THEN Genesis ELSE evidence[Len(evidence)].hash

Least(i, j) == IF i < j THEN i ELSE j
Greatest(i, j) == IF i > j THEN i ELSE j

InRun(w) == pc[w] \in {"observing", "releasing"}
-----------------------------------------------------------------------------
Init ==
    /\ lease = NoLease
    /\ evidence = <<>>
    /\ pc = [w \in Workers |-> "stopped"]
    /\ age = [w \in Workers |-> 0]
    /\ rest = [w \in Workers |-> 0]
    /\ stop = [w \in Workers |-> FALSE]
    /\ failures = 0

Tick ==
    /\ \A w \in Workers : pc[w] = "reading" => age[w] < MaxWait
    /\ lease' = [lease EXCEPT !.left = Greatest(@ - 1, -MaxWait)]
    /\ age' = [w \in Workers |-> IF pc[w] = "reading" \/ InRun(w)
                                 THEN Least(age[w] + 1, Lease) ELSE age[w]]
    /\ rest' = [w \in Workers |-> Greatest(rest[w] - 1, 0)]
    /\ UNCHANGED <<evidence, pc, stop, failures>>

(* run_once: a new owner id, and the clock that decides the lease is read. *)
Read(w) ==
    /\ Len(evidence) < MaxEvidence
    /\ pc' = [pc EXCEPT ![w] = "reading"]
    /\ age' = [age EXCEPT ![w] = 0]
    /\ rest' = [rest EXCEPT ![w] = 0]
    /\ UNCHANGED <<lease, evidence, failures>>

(* The process starts, the first time or by systemd after a failure.       *)
Start(w) ==
    /\ pc[w] \in {"stopped", "down"}
    /\ stop' = [stop EXCEPT ![w] = FALSE]
    /\ Read(w)

Wake(w) ==
    /\ pc[w] = "waiting" /\ rest[w] = 0 /\ ~stop[w]
    /\ UNCHANGED stop
    /\ Read(w)

(* Mutant: a lease counts for one interval only.                           *)
AvailableAfterInterval(w) == lease.left + age[w] <= Lease - Interval

(* acquire_lease under BEGIN IMMEDIATE, with the clock read before it: the *)
(* stored expiry is compared with, and the new one counted from, that time.*)
Available(w) == lease.left + age[w] <= 0

Acquire(w) ==
    /\ pc[w] = "reading"
    /\ Available(w)
    /\ lease' = [owner |-> w, left |-> Lease - age[w]]
    /\ pc' = [pc EXCEPT ![w] = "observing"]
    /\ UNCHANGED <<evidence, age, rest, stop, failures>>

Rest(w) ==
    /\ pc' = [pc EXCEPT ![w] = "waiting"]
    /\ age' = [age EXCEPT ![w] = 0]
    /\ rest' = [rest EXCEPT ![w] = Interval]

(* Mutant: the upsert runs whether or not the lease is available.          *)
SkipRenews(w) ==
    /\ pc[w] = "reading"
    /\ ~Available(w)
    /\ lease' = [lease EXCEPT !.left = Lease - age[w]]
    /\ Rest(w)
    /\ UNCHANGED <<evidence, stop, failures>>

Skip(w) ==
    /\ pc[w] = "reading"
    /\ ~Available(w)
    /\ Rest(w)
    /\ UNCHANGED <<lease, evidence, stop, failures>>

(* The validator answered (an exception of it is a FAIL report); append    *)
(* reads the last hash and inserts under BEGIN IMMEDIATE.                  *)
Append1(w, report) ==
    LET run == Len(evidence) + 1 IN
    evidence' = Append(evidence,
        [run |-> run, report |-> report, digest |-> Digest(report),
         previous |-> LastHash,
         hash |-> ChainHash(run, Digest(report), LastHash)])

Observe(w, report) ==
    /\ pc[w] = "observing"
    /\ Append1(w, report)
    /\ pc' = [pc EXCEPT ![w] = "releasing"]
    /\ UNCHANGED <<lease, age, rest, stop, failures>>

(* Mutant: the owner is not compared.                                      *)
UnleaseAny(w) == lease' = NoLease

(* release_lease deletes the row only if it still carries this run's id.   *)
Unlease(w) == lease' = IF lease.owner = w THEN NoLease ELSE lease

Release(w) ==
    /\ pc[w] = "releasing"
    /\ Unlease(w)
    /\ Rest(w)
    /\ UNCHANGED <<evidence, stop, failures>>
-----------------------------------------------------------------------------
(* The process ends: its owner id is nobody's from now on.                 *)
Gone(w, how) ==
    /\ pc' = [pc EXCEPT ![w] = how]
    /\ age' = [age EXCEPT ![w] = 0]
    /\ rest' = [rest EXCEPT ![w] = 0]
    /\ UNCHANGED evidence

Failure(w) ==
    /\ failures < MaxFailures
    /\ failures' = failures + 1
    /\ Gone(w, "down")

(* The lock could not be had in time, or the insert failed and was rolled  *)
(* back: the exception ends run_forever, through the release in its way.   *)
LockTimeout(w) ==
    /\ pc[w] = "reading" /\ age[w] = MaxWait
    /\ Failure(w)
    /\ UNCHANGED <<lease, stop>>

AppendFails(w) ==
    /\ pc[w] = "observing"
    /\ Unlease(w)
    /\ Failure(w)
    /\ UNCHANGED stop

Crash(w) ==
    /\ pc[w] \notin {"stopped", "down"}
    /\ lease' = IF lease.owner = w THEN [lease EXCEPT !.owner = None] ELSE lease
    /\ Failure(w)
    /\ UNCHANGED stop

(* SIGTERM sets the event; the loop leaves when it next looks.             *)
RequestStop(w) ==
    /\ pc[w] \notin {"stopped", "down"} /\ ~stop[w]
    /\ stop' = [stop EXCEPT ![w] = TRUE]
    /\ UNCHANGED <<lease, evidence, pc, age, rest, failures>>

Stop(w) ==
    /\ pc[w] = "waiting" /\ stop[w]
    /\ Gone(w, "stopped")
    /\ UNCHANGED <<lease, stop, failures>>

Step(w) ==
    \/ Wake(w) \/ Acquire(w) \/ Skip(w) \/ Release(w) \/ Stop(w)
    \/ \E report \in Status : Observe(w, report)

Next ==
    \/ Tick
    \/ \E w \in Workers :
          \/ Start(w) \/ Step(w) \/ RequestStop(w)
          \/ Crash(w) \/ LockTimeout(w) \/ AppendFails(w)

Spec == Init /\ [][Next]_vars

(* Time passes, a worker that runs keeps running, and systemd restarts one *)
(* that failed; nobody owes the start of a stopped one.                    *)
FairSpec ==
    /\ Spec
    /\ WF_vars(Tick)
    /\ \A w \in Workers : WF_vars(Step(w)) /\ WF_vars(pc[w] = "down" /\ Start(w))
-----------------------------------------------------------------------------
(* verify_chain over rows in order of sequence.                            *)
VerifyChain(chain) ==
    \A i \in 1..Len(chain) :
        LET e == chain[i]
            previous == IF i = 1 THEN Genesis ELSE chain[i - 1].hash
        IN  /\ e.digest = Digest(e.report)
            /\ e.previous = previous
            /\ e.hash = ChainHash(e.run, Digest(e.report), previous)

(* Types, and: the lease names a worker only while its run lasts.          *)
TypeOK ==
    /\ lease.owner \in Workers \cup {None}
    /\ lease.left \in -MaxWait .. Lease
    /\ lease = [owner |-> lease.owner, left |-> lease.left]
    /\ pc \in [Workers -> {"stopped", "down", "waiting", "reading",
                           "observing", "releasing"}]
    /\ age \in [Workers -> 0..Lease]
    /\ rest \in [Workers -> 0..Interval]
    /\ stop \in [Workers -> BOOLEAN]
    /\ failures \in 0..MaxFailures
    /\ \A w \in Workers : pc[w] = "reading" => age[w] <= MaxWait
    /\ lease.owner # None => InRun(lease.owner)

(* For lease_seconds after it read its clock a run has the lease, however  *)
(* long it waited for the lock and whatever the other workers did.         *)
LeaseHeld ==
    \A w \in Workers : InRun(w) /\ age[w] < Lease =>
        lease = [owner |-> w, left |-> Lease - age[w]]

(* Two workers observe at the same time only if one of them has outlived   *)
(* its lease.                                                              *)
Exclusive ==
    \A v, w \in Workers : v # w /\ InRun(v) /\ InRun(w) =>
        age[v] >= Lease \/ age[w] >= Lease

(* A lease that has not expired is only given up by the run that took it,  *)
(* or inherited by nobody when that run dies.                              *)
LeaseIsKept ==
    [][\A w \in Workers : lease.owner = w /\ lease.left > 0 /\ lease'.owner # w =>
           pc[w] # pc'[w] /\ lease'.owner = None]_vars

(* The chain verifies whatever the workers do: overlapping runs, crashes   *)
(* between append and release, rolled back inserts.                        *)
ChainValid == VerifyChain(evidence)

(* A lease outlives a crash but does not block for good: after any number  *)
(* of failures reports accumulate, unless all workers are stopped.         *)
EvidenceAccumulates ==
    (\E w \in Workers : pc[w] # "stopped") ~>
        \/ Len(evidence) >= MaxEvidence
        \/ \A w \in Workers : pc[w] = "stopped"
=============================================================================
