----------------------------- MODULE LiveOperation -----------------------------
(***************************************************************************)
(* The live operation boundary: LiveTradingRuntime with its activation     *)
(* gate, incidents, emergency circuit breaker and execution gateway, over  *)
(* a venue connector the repository leaves abstract.  Everything but the   *)
(* venue is in memory; nothing in the package runs concurrently, a step is *)
(* one call.                                                               *)
(***************************************************************************)
EXTENDS Integers, FiniteSets

CONSTANTS
    Orders,      \* order ids
    Incidents,   \* incident ids
    Critical,    \* those of severity CRITICAL
    Holders,     \* callers, each holding on to one RuntimeReadiness
    MaxSent      \* bound: how often the venue takes one order id

ASSUME IncidentAssumption == Critical \subseteq Incidents
ASSUME SentAssumption == MaxSent \in Nat

VARIABLES
    breaker,     \* CircuitState
    incident,    \* IncidentManager._incidents
    readiness,   \* the readiness each caller holds
    submitted,   \* LiveExecutionGateway._submitted_order_ids
    (* outside the process *)
    ready,       \* ConnectorStatus.ready
    synced,      \* local and venue positions agree
    venue,       \* how often the venue took each order
    unknown,     \* history: orders with a submission the process knows no end of
    cancelled,   \* history: orders with a submission answered CANCELLED
    unseen       \* history: critical incidents that became active since a
                 \* caller's readiness was evaluated

process == <<breaker, incident, readiness, submitted>>
outside == <<ready, synced, venue, unknown, cancelled>>
liveVars == <<process, outside, unseen>>

CircuitState == {"CLOSED", "OPEN"}
IncidentState == {"ABSENT", "OPEN", "ACKNOWLEDGED", "RESOLVED"}

(* Mutant: an incident somebody acknowledged counts as dealt with.         *)
HasCriticalUnacknowledged == \E i \in Critical : incident[i] = "OPEN"

HasCriticalOpenIncident ==
    \E i \in Critical : incident[i] \in {"OPEN", "ACKNOWLEDGED"}
-----------------------------------------------------------------------------
ProcessInit ==
    /\ breaker = "CLOSED"
    /\ incident = [i \in Incidents |-> "ABSENT"]
    /\ readiness = [h \in Holders |-> "none"]
    /\ submitted = {}

LiveInit ==
    /\ ProcessInit
    /\ ready \in BOOLEAN /\ synced \in BOOLEAN
    /\ venue = [o \in Orders |-> 0]
    /\ unknown = {} /\ cancelled = {}
    /\ unseen = [h \in Holders |-> {}]

(* evaluate_readiness; given: the environment is production, and go-live   *)
(* approval, risk controls, health and the explicit enable are handed in.  *)
EvaluateReadiness(h, given) ==
    /\ readiness' = [readiness EXCEPT ![h] =
           IF given /\ ready /\ synced /\ ~HasCriticalOpenIncident
           THEN "active" ELSE "blocked"]
    /\ unseen' = [unseen EXCEPT ![h] = {}]
    /\ UNCHANGED <<breaker, incident, submitted, outside>>

(* The gates of LiveExecutionGateway.submit, in a call with the readiness  *)
(* the caller holds and an order the live risk controller approves.        *)
Passes(h, o) ==
    /\ readiness[h] = "active"
    /\ breaker = "CLOSED"
    /\ ready
    /\ o \notin submitted

(* Mutant: the id is not remembered.                                       *)
TakenForgotten(h, o) ==
    /\ Passes(h, o)
    /\ venue[o] < MaxSent
    /\ venue' = [venue EXCEPT ![o] = @ + 1]
    /\ UNCHANGED <<process, ready, synced, unknown, cancelled, unseen>>

(* submit, and the connector answers ACCEPTED, FILLED or PENDING.          *)
Taken(h, o) ==
    /\ Passes(h, o)
    /\ venue[o] < MaxSent
    /\ venue' = [venue EXCEPT ![o] = @ + 1]
    /\ submitted' = submitted \cup {o}
    /\ UNCHANGED <<breaker, incident, readiness, ready, synced, unknown, cancelled, unseen>>

(* submit, and the connector answers CANCELLED: the venue had taken the    *)
(* order, the call reports it as accepted, the id is not recorded.         *)
Cancelled(h, o) ==
    /\ Passes(h, o)
    /\ venue[o] < MaxSent
    /\ venue' = [venue EXCEPT ![o] = @ + 1]
    /\ cancelled' = cancelled \cup {o}
    /\ UNCHANGED <<process, ready, synced, unknown, unseen>>

(* submit, and the connector raises: the venue may have taken the order,   *)
(* the id is not recorded.  An answer of REJECTED, and a call that does    *)
(* not pass the gates, change nothing.                                     *)
Raised(h, o, took) ==
    /\ Passes(h, o)
    /\ took => venue[o] < MaxSent
    /\ venue' = IF took THEN [venue EXCEPT ![o] = @ + 1] ELSE venue
    /\ unknown' = unknown \cup {o}
    /\ UNCHANGED <<process, ready, synced, cancelled, unseen>>

Trip ==
    /\ breaker' = "OPEN"
    /\ UNCHANGED <<incident, readiness, submitted, outside, unseen>>

Reset ==
    /\ breaker' = "CLOSED"
    /\ UNCHANGED <<incident, readiness, submitted, outside, unseen>>

OpenIncident(i) ==
    /\ incident[i] = "ABSENT"
    /\ incident' = [incident EXCEPT ![i] = "OPEN"]
    /\ unseen' = [h \in Holders |-> unseen[h] \cup ({i} \cap Critical)]
    /\ UNCHANGED <<breaker, readiness, submitted, outside>>

(* acknowledge and resolve take an incident in any state: an acknowledged  *)
(* resolved incident is active again.                                      *)
SetIncident(i, state) ==
    /\ incident[i] # "ABSENT"
    /\ incident' = [incident EXCEPT ![i] = state]
    /\ unseen' = IF incident[i] = "RESOLVED" /\ state # "RESOLVED"
                 THEN [h \in Holders |-> unseen[h] \cup ({i} \cap Critical)] ELSE unseen
    /\ UNCHANGED <<breaker, readiness, submitted, outside>>

(* The connector, the venue's and the local positions change on their own. *)
Outside ==
    /\ ready' \in BOOLEAN /\ synced' \in BOOLEAN
    /\ UNCHANGED <<process, venue, unknown, cancelled, unseen>>

(* A new process knows nothing of the old one: no trip, no incident, no id.*)
Restart ==
    /\ breaker' = "CLOSED"
    /\ incident' = [i \in Incidents |-> "ABSENT"]
    /\ readiness' = [h \in Holders |-> "none"]
    /\ unseen' = [h \in Holders |-> {}]
    /\ submitted' = {}
    /\ unknown' = unknown \cup submitted
    /\ UNCHANGED <<ready, synced, venue, cancelled>>

LiveNext ==
    \/ \E h \in Holders :
          \/ \E given \in BOOLEAN : EvaluateReadiness(h, given)
          \/ \E o \in Orders :
                \/ Taken(h, o) \/ Cancelled(h, o)
                \/ \E took \in BOOLEAN : Raised(h, o, took)
    \/ Trip \/ Reset \/ Outside \/ Restart
    \/ \E i \in Incidents :
          \/ OpenIncident(i)
          \/ \E state \in {"ACKNOWLEDGED", "RESOLVED"} : SetIncident(i, state)

LiveSpec == LiveInit /\ [][LiveNext]_liveVars
-----------------------------------------------------------------------------
(* Types, and: an order the venue took is remembered, or it was answered   *)
(* CANCELLED, or the process knows no end of it.                           *)
LiveTypeOK ==
    /\ breaker \in CircuitState
    /\ incident \in [Incidents -> IncidentState]
    /\ readiness \in [Holders -> {"none", "active", "blocked"}]
    /\ submitted \subseteq Orders
    /\ ready \in BOOLEAN /\ synced \in BOOLEAN
    /\ venue \in [Orders -> 0..MaxSent]
    /\ unknown \subseteq Orders /\ cancelled \subseteq Orders
    /\ unseen \in [Holders -> SUBSET Critical]
    /\ \A o \in Orders : venue[o] > 0 => o \in submitted \cup unknown \cup cancelled

(* The venue takes an order id twice only after a submission of it that    *)
(* left no trace in the gateway: its connector raised, it was answered     *)
(* CANCELLED, or the process that made it was replaced.                    *)
TakenTwiceOnlyForgotten ==
    \A o \in Orders : venue[o] > 1 => o \in unknown \cup cancelled

ActiveCritical == {i \in Critical : incident[i] \notin {"ABSENT", "RESOLVED"}}

(* Past an active critical incident an order reaches the venue only with a *)
(* readiness from before the incident was opened, or from before it became *)
(* active again (LIVE_OPERATION_RUNBOOK.md:34-39 asks for more, but submit *)
(* does not look again).  Callers keep their readiness for as long as they *)
(* like, and incidents open, are resolved and come back in between.        *)
PassesOnlyUnseen ==
    [][venue' # venue =>
          \E h \in Holders : readiness[h] = "active" /\ ActiveCritical \subseteq unseen[h]]_liveVars
=============================================================================
