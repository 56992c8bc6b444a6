--------------------------- MODULE OperationProofs ---------------------------
(***************************************************************************)
(* The lease and the evidence chain of ShadowOperation, for every number   *)
(* of workers and every schedule the service accepts.  Then the gateway's  *)
(* protection against duplicates, and what a readiness of LiveOperation saw,*)
(* for any number of orders, incidents and callers.                        *)
(***************************************************************************)
EXTENDS ShadowOperation, LiveOperation, SequenceTheorems, TLAPS

(* The rows form a sequence (their hashes have no common type to name).    *)
IsChain == \E S : evidence \in Seq(S)

USE DEF InRun

LEMMA InitTypeOK == Init => TypeOK
  BY ScheduleAssumption, WaitAssumption, BoundAssumption, NoneAssumption
  DEF Init, TypeOK, NoLease

(* Every action keeps the types and the owner of the lease in its run.     *)
LEMMA TypeStep == TypeOK /\ [Next]_vars => TypeOK'
<1> SUFFICES ASSUME TypeOK, [Next]_vars PROVE TypeOK'
  OBVIOUS
<1> USE ScheduleAssumption, WaitAssumption, BoundAssumption, NoneAssumption DEF TypeOK
<1>1. CASE Tick
  <2>1. lease'.owner = lease.owner /\ lease'.left \in -MaxWait .. Lease
        /\ lease' = [owner |-> lease'.owner, left |-> lease'.left]
    BY <1>1 DEF Tick, Greatest
  <2>2. age' \in [Workers -> 0..Lease] /\ rest' \in [Workers -> 0..Interval]
    BY <1>1 DEF Tick, Greatest, Least
  <2>3. \A w \in Workers : pc'[w] = "reading" => age'[w] <= MaxWait
    BY <1>1 DEF Tick, Least
  <2> QED BY <1>1, <2>1, <2>2, <2>3 DEF Tick
<1>2. ASSUME NEW w \in Workers, Start(w) \/ Wake(w) PROVE TypeOK'
  <2>1. pc' = [pc EXCEPT ![w] = "reading"] /\ age' = [age EXCEPT ![w] = 0]
        /\ rest' = [rest EXCEPT ![w] = 0] /\ UNCHANGED <<lease, failures>>
    BY <1>2 DEF Start, Wake, Read
  <2>2. ~InRun(w)
    BY <1>2 DEF Start, Wake
  <2>3. stop' \in [Workers -> BOOLEAN]
    BY <1>2 DEF Start, Wake
  <2>4. lease'.owner # None => pc'[lease'.owner] \in {"observing", "releasing"}
    BY <2>1, <2>2
  <2>5. pc' \in [Workers -> {"stopped", "down", "waiting", "reading",
                            "observing", "releasing"}]
        /\ age' \in [Workers -> 0..Lease] /\ rest' \in [Workers -> 0..Interval]
        /\ \A v \in Workers : pc'[v] = "reading" => age'[v] <= MaxWait
    BY <2>1
  <2> QED BY <2>1, <2>3, <2>4, <2>5
<1>3. ASSUME NEW w \in Workers, Acquire(w) PROVE TypeOK'
  BY <1>3 DEF Acquire
<1>4. ASSUME NEW w \in Workers, Skip(w) PROVE TypeOK'
  BY <1>4 DEF Skip, Rest
<1>5. ASSUME NEW w \in Workers, NEW r \in Status, Observe(w, r) PROVE TypeOK'
  BY <1>5 DEF Observe
<1>6. ASSUME NEW w \in Workers, Release(w) PROVE TypeOK'
  BY <1>6 DEF Release, Unlease, Rest, NoLease
<1>7. ASSUME NEW w \in Workers, RequestStop(w) \/ Stop(w) PROVE TypeOK'
  <2>1. CASE RequestStop(w)
    <3>1. stop' \in [Workers -> BOOLEAN]
      BY <2>1 DEF RequestStop
    <3>2. UNCHANGED <<lease, evidence, pc, age, rest, failures>>
      BY <2>1 DEF RequestStop
    <3> QED BY <3>1, <3>2
  <2>2. CASE Stop(w)
    BY <2>2 DEF Stop, Gone
  <2> QED BY <1>7, <2>1, <2>2
<1>8. ASSUME NEW w \in Workers, Crash(w) PROVE TypeOK'
  BY <1>8 DEF Crash, Failure, Gone
<1>9. ASSUME NEW w \in Workers, LockTimeout(w) PROVE TypeOK'
  BY <1>9 DEF LockTimeout, Failure, Gone
<1>10. ASSUME NEW w \in Workers, AppendFails(w) PROVE TypeOK'
  BY <1>10 DEF AppendFails, Unlease, NoLease, Failure, Gone
<1>11. CASE UNCHANGED vars
  BY <1>11 DEF vars
<1> QED
  BY <1>1, <1>2, <1>3, <1>4, <1>5, <1>6, <1>7, <1>8, <1>9, <1>10, <1>11 DEF Next, Step

(* The heart of the lease: the row and the age of a run move together, and *)
(* whoever takes the row over finds it expired by a clock at most now.     *)
LEMMA LeaseStep == TypeOK /\ LeaseHeld /\ [Next]_vars => LeaseHeld'
<1> SUFFICES ASSUME TypeOK, LeaseHeld, [Next]_vars,
                    NEW v \in Workers, InRun(v)', age'[v] < Lease
             PROVE lease' = [owner |-> v, left |-> Lease - age'[v]]
  BY DEF LeaseHeld
<1> USE ScheduleAssumption, WaitAssumption, NoneAssumption DEF TypeOK
<1>1. CASE Tick
  <2>1. age[v] < Lease /\ age'[v] = age[v] + 1 /\ InRun(v)
    BY <1>1 DEF Tick, Least
  <2>2. lease = [owner |-> v, left |-> Lease - age[v]]
    BY <2>1 DEF LeaseHeld
  <2> QED BY <1>1, <2>1, <2>2 DEF Tick, Greatest
<1>2. ASSUME NEW w \in Workers, Acquire(w) PROVE lease' = [owner |-> v, left |-> Lease - age'[v]]
  <2>1. CASE v = w
    BY <1>2, <2>1 DEF Acquire
  <2>2. CASE v # w
    <3>1. InRun(v) /\ age[v] < Lease
      BY <1>2, <2>2 DEF Acquire
    <3>2. lease.left = Lease - age[v]
      BY <3>1 DEF LeaseHeld
    <3>3. lease.left + age[w] <= 0 /\ age[w] \in Nat
      BY <1>2 DEF Acquire, Available
    <3> QED BY <3>1, <3>2, <3>3
  <2> QED BY <2>1, <2>2
<1>3. ASSUME NEW w \in Workers, NEW r \in Status, Observe(w, r)
      PROVE  lease' = [owner |-> v, left |-> Lease - age'[v]]
  BY <1>3 DEF Observe, LeaseHeld
<1>4. ASSUME NEW w \in Workers, Start(w) \/ Wake(w) \/ Skip(w) \/ LockTimeout(w)
                                \/ RequestStop(w) \/ Stop(w)
      PROVE  lease' = [owner |-> v, left |-> Lease - age'[v]]
  BY <1>4 DEF Start, Wake, Read, Skip, Rest, LockTimeout, Failure, Gone, RequestStop,
              Stop, LeaseHeld
<1>5. ASSUME NEW w \in Workers, Release(w) \/ AppendFails(w) \/ Crash(w)
      PROVE  lease' = [owner |-> v, left |-> Lease - age'[v]]
  <2>1. v # w /\ InRun(v) /\ age'[v] = age[v]
    BY <1>5 DEF Release, Rest, AppendFails, Crash, Failure, Gone
  <2>2. lease = [owner |-> v, left |-> Lease - age[v]]
    BY <2>1 DEF LeaseHeld
  <2> QED BY <1>5, <2>1, <2>2 DEF Release, AppendFails, Crash, Unlease
<1>6. CASE UNCHANGED vars
  BY <1>6 DEF vars, LeaseHeld
<1> QED
  BY <1>1, <1>2, <1>3, <1>4, <1>5, <1>6 DEF Next, Step

(* One more row, linked to the last one, keeps a verified chain verified.  *)
LEMMA ChainStep == IsChain /\ ChainValid /\ [Next]_vars => IsChain' /\ ChainValid'
<1> SUFFICES ASSUME IsChain, ChainValid, [Next]_vars PROVE IsChain' /\ ChainValid'
  OBVIOUS
<1>1. CASE UNCHANGED evidence
  BY <1>1 DEF IsChain, ChainValid, VerifyChain
<1>2. ASSUME NEW w \in Workers, NEW r \in Status, Observe(w, r)
      PROVE  IsChain' /\ ChainValid'
  <2> DEFINE n == Len(evidence)
             e == [run |-> n + 1, report |-> r, digest |-> Digest(r),
                   previous |-> LastHash,
                   hash |-> ChainHash(n + 1, Digest(r), LastHash)]
  <2>1. PICK S : evidence \in Seq(S)
    BY DEF IsChain
  <2>2. evidence \in Seq(S \cup {e}) /\ e \in S \cup {e}
    BY <2>1, SeqMonotonic
  <2>3. evidence' = Append(evidence, e)
    BY <1>2 DEF Observe, Append1
  <2> HIDE DEF e
  <2>4. /\ evidence' \in Seq(S \cup {e})
        /\ Len(evidence') = n + 1 /\ n \in Nat
        /\ evidence'[n + 1] = e
        /\ \A i \in 1..n : evidence'[i] = evidence[i]
    BY <2>2, <2>3, AppendProperties, LenProperties
  <2>5. LastHash = IF n = 0 THEN Genesis ELSE evidence[n].hash
    BY <2>1, LenProperties, EmptySeq DEF LastHash
  <2>6. ASSUME NEW i \in 1..n
        PROVE  /\ evidence'[i].digest = Digest(evidence'[i].report)
               /\ evidence'[i].previous = IF i = 1 THEN Genesis ELSE evidence'[i - 1].hash
               /\ evidence'[i].hash =
                     ChainHash(evidence'[i].run, Digest(evidence'[i].report),
                               IF i = 1 THEN Genesis ELSE evidence'[i - 1].hash)
    <3>1. i # 1 => i - 1 \in 1..n
      BY <2>4
    <3> QED BY <2>4, <2>6, <3>1 DEF ChainValid, VerifyChain
  <2>7. /\ e.digest = Digest(e.report)
        /\ e.previous = IF n + 1 = 1 THEN Genesis ELSE evidence'[n].hash
        /\ e.hash = ChainHash(e.run, Digest(e.report),
                              IF n + 1 = 1 THEN Genesis ELSE evidence'[n].hash)
    <3>1. n # 0 => n \in 1..n
      BY <2>4
    <3>2. LastHash = IF n + 1 = 1 THEN Genesis ELSE evidence'[n].hash
      BY <2>4, <2>5, <3>1
    <3> QED BY <3>2 DEF e
  <2>8. ChainValid'
    <3> SUFFICES ASSUME NEW i \in 1..(n + 1)
                 PROVE  /\ evidence'[i].digest = Digest(evidence'[i].report)
                        /\ evidence'[i].previous =
                               IF i = 1 THEN Genesis ELSE evidence'[i - 1].hash
                        /\ evidence'[i].hash =
                              ChainHash(evidence'[i].run, Digest(evidence'[i].report),
                                        IF i = 1 THEN Genesis ELSE evidence'[i - 1].hash)
      BY <2>4 DEF ChainValid, VerifyChain
    <3>1. CASE i = n + 1
      BY <2>4, <2>7, <3>1
    <3>2. CASE i # n + 1
      BY <2>4, <2>6, <3>2
    <3> QED BY <3>1, <3>2
  <2> QED BY <2>4, <2>8 DEF IsChain
<1>3. ASSUME NEW w \in Workers,
             \/ Start(w) \/ Wake(w) \/ Acquire(w) \/ Skip(w) \/ Release(w)
             \/ RequestStop(w) \/ Stop(w) \/ Crash(w) \/ LockTimeout(w) \/ AppendFails(w)
      PROVE  UNCHANGED evidence
  BY <1>3 DEF Start, Wake, Read, Acquire, Skip, Release, RequestStop, Stop, Crash,
              LockTimeout, AppendFails, Failure, Gone
<1>4. Tick => UNCHANGED evidence
  BY DEF Tick
<1>5. UNCHANGED vars => UNCHANGED evidence
  BY DEF vars
<1> QED
  BY <1>1, <1>2, <1>3, <1>4, <1>5 DEF Next, Step
-----------------------------------------------------------------------------
(* The types of the lease row and of the workers.                          *)
THEOREM ShadowTypeCorrect == Spec => []TypeOK
<1>1. Init => TypeOK
  BY InitTypeOK
<1>2. TypeOK /\ [Next]_vars => TypeOK'
  BY TypeStep
<1> QED
  BY <1>1, <1>2, PTL DEF Spec

(* A run owns the lease row for lease_seconds after it read its clock.     *)
THEOREM LeaseIsHeld == Spec => []LeaseHeld
<1>1. Init => LeaseHeld
  BY DEF Init, LeaseHeld
<1>2. TypeOK /\ LeaseHeld /\ [Next]_vars => LeaseHeld'
  BY LeaseStep
<1> QED
  BY <1>1, <1>2, ShadowTypeCorrect, PTL DEF Spec

(* Two observations overlap only when one of them outlived its lease.      *)
THEOREM LeaseExcludes == Spec => []Exclusive
<1>1. TypeOK /\ LeaseHeld => Exclusive
  <2> SUFFICES ASSUME TypeOK, LeaseHeld, NEW v \in Workers, NEW w \in Workers,
                      v # w, InRun(v), InRun(w), ~(age[v] >= Lease), ~(age[w] >= Lease)
               PROVE FALSE
    BY DEF Exclusive
  <2>1. age[v] < Lease /\ age[w] < Lease
    BY ScheduleAssumption DEF TypeOK
  <2>2. lease.owner = v /\ lease.owner = w
    BY <2>1 DEF LeaseHeld
  <2> QED BY <2>2
<1> QED
  BY <1>1, ShadowTypeCorrect, LeaseIsHeld, PTL

(* verify_chain succeeds in every reachable state.                         *)
THEOREM ChainVerifies == Spec => []ChainValid
<1>1. Init => IsChain /\ ChainValid
  <2>1. <<>> \in Seq({}) /\ Len(<<>>) = 0
    BY EmptySeq
  <2> QED BY <2>1 DEF Init, IsChain, ChainValid, VerifyChain
<1>2. IsChain /\ ChainValid /\ [Next]_vars => IsChain' /\ ChainValid'
  BY ChainStep
<1> QED
  BY <1>1, <1>2, PTL DEF Spec

(* An unexpired lease changes hands only through the end of its own run.   *)
THEOREM UnexpiredLeaseStays == Spec => LeaseIsKept
<1>1. TypeOK /\ [Next]_vars =>
        [\A w \in Workers : lease.owner = w /\ lease.left > 0 /\ lease'.owner # w =>
             pc[w] # pc'[w] /\ lease'.owner = None]_vars
  <2> SUFFICES ASSUME TypeOK, Next, NEW v \in Workers,
                      lease.owner = v, lease.left > 0, lease'.owner # v
               PROVE  pc[v] # pc'[v] /\ lease'.owner = None
    OBVIOUS
  <2>1. CASE Tick
    BY <2>1 DEF Tick, TypeOK
  <2>2. ASSUME NEW w \in Workers, Acquire(w) PROVE FALSE
    <3>1. lease.left + age[w] <= 0 /\ age[w] \in 0..Lease
      BY <2>2 DEF Acquire, Available, TypeOK
    <3> QED BY <3>1, ScheduleAssumption, WaitAssumption DEF TypeOK
  <2>3. ASSUME NEW w \in Workers, Release(w) \/ AppendFails(w) \/ Crash(w)
        PROVE  pc[v] # pc'[v] /\ lease'.owner = None
    BY <2>3 DEF Release, Rest, AppendFails, Crash, Failure, Gone, Unlease, NoLease, TypeOK
  <2>4. ASSUME NEW w \in Workers,
               \/ Start(w) \/ Wake(w) \/ Skip(w) \/ RequestStop(w) \/ Stop(w)
               \/ LockTimeout(w) \/ \E r \in Status : Observe(w, r)
        PROVE  FALSE
    BY <2>4 DEF Start, Wake, Read, Skip, RequestStop, Stop, LockTimeout, Observe
  <2> QED
    BY <2>1, <2>2, <2>3, <2>4 DEF Next, Step
<1> QED
  BY <1>1, ShadowTypeCorrect, PTL DEF Spec, LeaseIsKept
-----------------------------------------------------------------------------
LEMMA LiveTypeStep == LiveTypeOK /\ [LiveNext]_liveVars => LiveTypeOK'
<1> SUFFICES ASSUME LiveTypeOK, [LiveNext]_liveVars PROVE LiveTypeOK'
  OBVIOUS
<1> USE SentAssumption, IncidentAssumption DEF LiveTypeOK, process, outside
<1>1. ASSUME NEW h \in Holders, NEW given \in BOOLEAN, EvaluateReadiness(h, given)
      PROVE  LiveTypeOK'
  BY <1>1 DEF EvaluateReadiness
<1>2. ASSUME NEW h \in Holders, NEW o \in Orders, Taken(h, o) \/ Cancelled(h, o)
      PROVE  LiveTypeOK'
  BY <1>2 DEF Taken, Cancelled
<1>3. ASSUME NEW h \in Holders, NEW o \in Orders, NEW took \in BOOLEAN, Raised(h, o, took)
      PROVE  LiveTypeOK'
  BY <1>3 DEF Raised
<1>4. CASE Trip \/ Reset
  BY <1>4 DEF Trip, Reset, CircuitState
<1>5. CASE Outside
  BY <1>5 DEF Outside
<1>6. CASE Restart
  BY <1>6 DEF Restart, CircuitState, IncidentState
<1>7. ASSUME NEW i \in Incidents, OpenIncident(i)
      PROVE  LiveTypeOK'
  BY <1>7 DEF OpenIncident, IncidentState
<1>8. ASSUME NEW i \in Incidents, NEW state \in {"ACKNOWLEDGED", "RESOLVED"},
             SetIncident(i, state)
      PROVE  LiveTypeOK'
  BY <1>8 DEF SetIncident, IncidentState
<1>9. CASE UNCHANGED liveVars
  BY <1>9 DEF liveVars
<1> QED
  BY <1>1, <1>2, <1>3, <1>4, <1>5, <1>6, <1>7, <1>8, <1>9 DEF LiveNext

(* What a step may do to the venue: take one order, once, through the      *)
(* gates, and either remember its id, leave its end unknown or report it   *)
(* cancelled.                                                              *)
LEMMA VenueStep ==
    ASSUME LiveTypeOK, [LiveNext]_liveVars, NEW o \in Orders, venue'[o] # venue[o]
    PROVE  /\ breaker = "CLOSED" /\ o \notin submitted
           /\ venue'[o] = venue[o] + 1
           /\ o \in submitted' \cup unknown' \cup cancelled'
<1> USE SentAssumption DEF LiveTypeOK, process, outside, Passes
<1>1. ASSUME NEW h \in Holders, NEW x \in Orders, Taken(h, x)
      PROVE  o = x /\ Passes(h, o) /\ venue'[o] = venue[o] + 1 /\ o \in submitted'
  BY <1>1 DEF Taken
<1>2. ASSUME NEW h \in Holders, NEW x \in Orders, NEW took \in BOOLEAN, Raised(h, x, took)
      PROVE  o = x /\ Passes(h, o) /\ venue'[o] = venue[o] + 1 /\ o \in unknown'
  BY <1>2 DEF Raised
<1>3. ASSUME NEW h \in Holders, NEW x \in Orders, Cancelled(h, x)
      PROVE  o = x /\ Passes(h, o) /\ venue'[o] = venue[o] + 1 /\ o \in cancelled'
  BY <1>3 DEF Cancelled
<1>4. ASSUME \/ \E h \in Holders, given \in BOOLEAN : EvaluateReadiness(h, given)
             \/ Trip \/ Reset \/ Outside \/ Restart \/ UNCHANGED liveVars
             \/ \E i \in Incidents : OpenIncident(i)
             \/ \E i \in Incidents, state \in {"ACKNOWLEDGED", "RESOLVED"} :
                    SetIncident(i, state)
      PROVE  FALSE
  BY <1>4 DEF EvaluateReadiness, Trip, Reset, Outside, Restart, OpenIncident,
              SetIncident, liveVars
<1> QED
  BY <1>1, <1>2, <1>3, <1>4 DEF LiveNext

(* Ids are forgotten only by a restart, which makes them unknown, and what *)
(* is unknown or was cancelled stays so.                                   *)
LEMMA KnownStep ==
    LiveTypeOK /\ [LiveNext]_liveVars =>
        /\ unknown \subseteq unknown' /\ cancelled \subseteq cancelled'
        /\ submitted \subseteq submitted' \cup unknown'
<1> USE DEF process, outside
<1>1. ASSUME NEW h \in Holders, NEW o \in Orders,
             \/ Taken(h, o) \/ Cancelled(h, o)
             \/ \E took \in BOOLEAN : Raised(h, o, took)
      PROVE  /\ unknown \subseteq unknown' /\ cancelled \subseteq cancelled'
             /\ submitted \subseteq submitted'
  BY <1>1 DEF Taken, Cancelled, Raised
<1>2. ASSUME \/ \E h \in Holders, given \in BOOLEAN : EvaluateReadiness(h, given)
             \/ Trip \/ Reset \/ Outside \/ UNCHANGED liveVars
             \/ \E i \in Incidents : OpenIncident(i)
             \/ \E i \in Incidents, state \in {"ACKNOWLEDGED", "RESOLVED"} :
                    SetIncident(i, state)
      PROVE  unknown = unknown' /\ cancelled = cancelled' /\ submitted = submitted'
  BY <1>2 DEF EvaluateReadiness, Trip, Reset, Outside, OpenIncident, SetIncident, liveVars
<1>3. Restart => unknown' = unknown \cup submitted /\ cancelled' = cancelled
  BY DEF Restart
<1> QED
  BY <1>1, <1>2, <1>3 DEF LiveNext
-----------------------------------------------------------------------------
(* Types, and every order the venue took is remembered, cancelled or       *)
(* unknown.                                                                *)
THEOREM LiveTypeCorrect == LiveSpec => []LiveTypeOK
<1>1. LiveInit => LiveTypeOK
  BY SentAssumption DEF LiveInit, ProcessInit, LiveTypeOK, CircuitState, IncidentState
<1>2. LiveTypeOK /\ [LiveNext]_liveVars => LiveTypeOK'
  BY LiveTypeStep
<1> QED
  BY <1>1, <1>2, PTL DEF LiveSpec

(* An order id reaches the venue again only after a submission that left   *)
(* no trace in the gateway: it raised, was cancelled, or its process ended.*)
THEOREM NoRememberedDuplicate == LiveSpec => []TakenTwiceOnlyForgotten
<1>1. LiveInit => TakenTwiceOnlyForgotten
  BY DEF LiveInit, TakenTwiceOnlyForgotten
<1>2. LiveTypeOK /\ TakenTwiceOnlyForgotten /\ [LiveNext]_liveVars =>
        TakenTwiceOnlyForgotten'
  <2> SUFFICES ASSUME LiveTypeOK, TakenTwiceOnlyForgotten, [LiveNext]_liveVars,
                      NEW o \in Orders, venue'[o] > 1
               PROVE  o \in unknown' \cup cancelled'
    BY DEF TakenTwiceOnlyForgotten
  <2>1. unknown \subseteq unknown' /\ cancelled \subseteq cancelled'
    BY KnownStep
  <2>2. CASE venue'[o] = venue[o]
    BY <2>1, <2>2 DEF TakenTwiceOnlyForgotten
  <2>3. CASE venue'[o] # venue[o]
    <3>1. o \notin submitted /\ venue'[o] = venue[o] + 1
      BY <2>3, VenueStep
    <3>2. venue[o] \in Nat /\ venue[o] > 0
      BY <3>1, SentAssumption DEF LiveTypeOK
    <3> QED BY <2>1, <3>1, <3>2 DEF LiveTypeOK
  <2> QED BY <2>2, <2>3
<1> QED
  BY <1>1, <1>2, LiveTypeCorrect, PTL DEF LiveSpec
-----------------------------------------------------------------------------
(* A readiness that lets orders pass was evaluated when every critical     *)
(* incident that is active now, and not among those that came since, was   *)
(* not.                                                                    *)
ReadinessLooked ==
    \A h \in Holders : readiness[h] = "active" => ActiveCritical \subseteq unseen[h]

LEMMA ReadinessStep ==
    LiveTypeOK /\ ReadinessLooked /\ [LiveNext]_liveVars => ReadinessLooked'
<1> SUFFICES ASSUME LiveTypeOK, ReadinessLooked, [LiveNext]_liveVars,
                    NEW h \in Holders, readiness'[h] = "active"
             PROVE  ActiveCritical' \subseteq unseen'[h]
  BY DEF ReadinessLooked
<1> USE IncidentAssumption DEF LiveTypeOK, ActiveCritical, process, outside
<1>1. ASSUME NEW k \in Holders, NEW given \in BOOLEAN, EvaluateReadiness(k, given)
      PROVE  ActiveCritical' \subseteq unseen'[h]
  <2>1. incident' = incident /\ unseen' = [unseen EXCEPT ![k] = {}]
    BY <1>1 DEF EvaluateReadiness
  <2>2. CASE h = k
    <3>1. ~HasCriticalOpenIncident
      BY <1>1, <2>2 DEF EvaluateReadiness
    <3>2. ActiveCritical = {}
      BY <3>1 DEF HasCriticalOpenIncident, IncidentState
    <3> QED BY <2>1, <3>2
  <2>3. CASE h # k
    <3>1. readiness[h] = "active"
      BY <1>1, <2>3 DEF EvaluateReadiness
    <3> QED BY <2>1, <2>3, <3>1 DEF ReadinessLooked
  <2> QED BY <2>2, <2>3
<1>2. ASSUME \/ \E k \in Holders, o \in Orders :
                    \/ Taken(k, o) \/ Cancelled(k, o)
                    \/ \E took \in BOOLEAN : Raised(k, o, took)
             \/ Trip \/ Reset \/ Outside \/ UNCHANGED liveVars
      PROVE  ActiveCritical' \subseteq unseen'[h]
  <2>1. incident' = incident /\ unseen' = unseen /\ readiness' = readiness
    BY <1>2 DEF Taken, Cancelled, Raised, Trip, Reset, Outside, liveVars
  <2> QED BY <2>1 DEF ReadinessLooked
<1>3. CASE Restart
  BY <1>3 DEF Restart
<1>4. ASSUME NEW i \in Incidents, OpenIncident(i)
      PROVE  ActiveCritical' \subseteq unseen'[h]
  <2>1. readiness[h] = "active" /\ unseen'[h] = unseen[h] \cup ({i} \cap Critical)
    BY <1>4 DEF OpenIncident
  <2>2. \A x \in Incidents : x # i => incident'[x] = incident[x]
    BY <1>4 DEF OpenIncident
  <2> QED BY <2>1, <2>2 DEF ReadinessLooked
<1>5. ASSUME NEW i \in Incidents, NEW state \in {"ACKNOWLEDGED", "RESOLVED"},
             SetIncident(i, state)
      PROVE  ActiveCritical' \subseteq unseen'[h]
  <2>1. /\ readiness[h] = "active" /\ incident[i] # "ABSENT" /\ incident'[i] = state
        /\ \A x \in Incidents : x # i => incident'[x] = incident[x]
    BY <1>5 DEF SetIncident
  <2>2. CASE incident[i] = "RESOLVED" /\ state # "RESOLVED"
    <3>1. unseen'[h] = unseen[h] \cup ({i} \cap Critical)
      BY <1>5, <2>2 DEF SetIncident
    <3> QED BY <2>1, <3>1 DEF ReadinessLooked
  <2>3. CASE ~(incident[i] = "RESOLVED" /\ state # "RESOLVED")
    <3>1. unseen'[h] = unseen[h]
      BY <1>5, <2>3 DEF SetIncident
    <3>2. ActiveCritical' \subseteq ActiveCritical
      BY <2>1, <2>3
    <3> QED BY <2>1, <3>1, <3>2 DEF ReadinessLooked
  <2> QED BY <2>2, <2>3
<1> QED
  BY <1>1, <1>2, <1>3, <1>4, <1>5 DEF LiveNext

(* An order reaches the venue past an active critical incident only with a *)
(* readiness from before the incident became active.                       *)
THEOREM OrdersPassUnseenOnly == LiveSpec => PassesOnlyUnseen
<1>1. LiveInit => ReadinessLooked
  BY DEF LiveInit, ProcessInit, ReadinessLooked
<1>2. ASSUME ReadinessLooked, LiveNext, venue' # venue
      PROVE  \E h \in Holders : readiness[h] = "active" /\ ActiveCritical \subseteq unseen[h]
  <2>1. \E h \in Holders, o \in Orders :
            \/ Taken(h, o) \/ Cancelled(h, o)
            \/ \E took \in BOOLEAN : Raised(h, o, took)
    BY <1>2 DEF LiveNext, EvaluateReadiness, Trip, Reset, Outside, Restart, OpenIncident,
                SetIncident, outside
  <2>2. PICK h \in Holders : readiness[h] = "active"
    BY <2>1 DEF Taken, Cancelled, Raised, Passes
  <2> QED BY <1>2, <2>2 DEF ReadinessLooked
<1> QED
  BY <1>1, <1>2, ReadinessStep, LiveTypeCorrect, PTL DEF LiveSpec, PassesOnlyUnseen
=============================================================================
