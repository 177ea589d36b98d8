---------------------- MODULE OptimizedSecurityManager ----------------------
(***************************************************************************)
(* core/security/security_manager_enhanced.go: connections counted by      *)
(* address, data examined for threats, addresses blocked for a time.       *)
(* CheckConnection, IsBlocked and CheckData take several locks one after   *)
(* the other.                                                              *)
(***************************************************************************)
EXTENDS Naturals, Sequences, FiniteSets

CONSTANTS
    Peers,               \* net.Conns, each checked once
    Address,             \* the address of each
    Samples,             \* the data examined: the patterns they match, and their size
    MaxConnectionsPerIP,
    EventBufferSize

Addresses == {Address[c] : c \in Peers}

VARIABLES
    check,       \* how far CheckConnection is for each connection
    tracked,     \* ConnectionTracker.connections
    idle,        \* those not active for longer than ConnectionTimeout
    blacklist,   \* ResponseEngine.blacklist: no entry, in force, or past its time
    threats,     \* for each connection the threats CheckData has still to respond to
    responses,   \* what it has answered so far
    events,      \* the channel of threat events
    eventsOpen, done,
    counted      \* threats in metrics.ThreatsBySeverity

vars == <<check, tracked, idle, blacklist, threats, responses, events, eventsOpen, done, counted>>

Severities == {"low", "medium", "high", "critical"}
Threats == [kind : {"sql_injection", "xss", "brute_force", "anomaly", "ddos"}, severity : Severities]

TypeOK ==
    /\ check \in [Peers -> {"new", "expired", "track", "count", "allowed", "ip_blocked", "ddos_protection"}]
    /\ tracked \subseteq Peers /\ idle \subseteq tracked
    /\ blacklist \in [Addresses -> {"none", "blocked", "expired"}]
    /\ threats \in [Peers -> SUBSET Threats]
    /\ responses \in [Peers -> SUBSET {"blocked", "rate_limited", "logged"}]
    /\ events \in Seq(Threats) /\ Len(events) <= EventBufferSize
    /\ eventsOpen \in BOOLEAN /\ done \in BOOLEAN
    /\ counted \subseteq Severities

Init ==
    /\ check = [c \in Peers |-> "new"]
    /\ tracked = {} /\ idle = {}
    /\ blacklist = [a \in Addresses |-> "none"]
    /\ threats = [c \in Peers |-> {}] /\ responses = [c \in Peers |-> {}]
    /\ events = <<>> /\ eventsOpen = TRUE /\ done = FALSE /\ counted = {}

Step(c, from, to) == check[c] = from /\ check' = [check EXCEPT ![c] = to]
-----------------------------------------------------------------------------
(* IsBlocked: a look under the read lock, and the removal of an entry past *)
(* its time under the write lock, which looks again.                       *)

Entry(c) == blacklist[Address[c]]

FindsBlocked(c) ==
    /\ Entry(c) = "blocked" /\ Step(c, "new", "ip_blocked")
    /\ UNCHANGED <<tracked, idle, blacklist, threats, responses, events, eventsOpen, done, counted>>

FindsNone(c) ==
    /\ Entry(c) = "none" /\ Step(c, "new", "track")
    /\ UNCHANGED <<tracked, idle, blacklist, threats, responses, events, eventsOpen, done, counted>>

FindsExpired(c) ==
    /\ Entry(c) = "expired" /\ Step(c, "new", "expired")
    /\ UNCHANGED <<tracked, idle, blacklist, threats, responses, events, eventsOpen, done, counted>>

\* Mutant: the entry is removed without another look.
RemoveUnseen(c) ==
    /\ Step(c, "expired", "track")
    /\ blacklist' = [blacklist EXCEPT ![Address[c]] = "none"]
    /\ UNCHANGED <<tracked, idle, threats, responses, events, eventsOpen, done, counted>>

RemoveExpired(c) ==
    /\ Step(c, "expired", "track")
    /\ blacklist' = [blacklist EXCEPT ![Address[c]] = IF @ = "expired" THEN "none" ELSE @]
    /\ UNCHANGED <<tracked, idle, threats, responses, events, eventsOpen, done, counted>>

TrackConnection(c) ==
    /\ Step(c, "track", "count")
    /\ tracked' = tracked \cup {c}
    /\ UNCHANGED <<idle, blacklist, threats, responses, events, eventsOpen, done, counted>>

ConnectionsByIP(a) == {c \in tracked : Address[c] = a}

\* A send on the channel after Stop has closed it would panic: callers stop first.
Publish(t) ==
    /\ eventsOpen
    /\ events' = IF Len(events) < EventBufferSize THEN Append(events, t) ELSE events

\* Mutant: one connection too many.
CountOneMore(c) ==
    /\ Step(c, "count", "allowed")
    /\ Cardinality(ConnectionsByIP(Address[c])) <= MaxConnectionsPerIP + 1
    /\ UNCHANGED <<tracked, idle, blacklist, threats, responses, events, eventsOpen, done, counted>>

CountAllowed(c) ==
    /\ Step(c, "count", "allowed")
    /\ Cardinality(ConnectionsByIP(Address[c])) <= MaxConnectionsPerIP
    /\ UNCHANGED <<tracked, idle, blacklist, threats, responses, events, eventsOpen, done, counted>>

\* The refused connection stays tracked.
CountRefused(c) ==
    /\ Step(c, "count", "ddos_protection")
    /\ Cardinality(ConnectionsByIP(Address[c])) > MaxConnectionsPerIP
    /\ Publish([kind |-> "ddos", severity |-> "high"])
    /\ UNCHANGED <<tracked, idle, blacklist, threats, responses, eventsOpen, done, counted>>

GoesIdle(c) ==
    /\ c \in tracked /\ idle' = idle \cup {c}
    /\ UNCHANGED <<check, tracked, blacklist, threats, responses, events, eventsOpen, done, counted>>

UpdateConnection(c) ==
    /\ c \in tracked /\ idle' = idle \ {c}
    /\ UNCHANGED <<check, tracked, blacklist, threats, responses, events, eventsOpen, done, counted>>

CleanupConnections ==
    /\ ~done /\ tracked' = tracked \ idle /\ idle' = {}
    /\ UNCHANGED <<check, blacklist, threats, responses, events, eventsOpen, done, counted>>
-----------------------------------------------------------------------------
(* CheckData.                                                              *)

BySignature(d) ==
    {[kind |-> k, severity |-> IF k = "sql_injection" THEN "high" ELSE "medium"] : k \in d.matches}

\* In tenths.  The request rate is always 10 and the baseline score 0.5; more than 8 is a threat.
AnomalyScore(d) == (IF d.size = "small" THEN 0 ELSE 2) + 3
SeverityByScore(s) == IF s >= 9 THEN "critical" ELSE IF s >= 7 THEN "high"
                      ELSE IF s >= 5 THEN "medium" ELSE "low"
ByBehavior(d) ==
    {t \in {[kind |-> "anomaly", severity |-> SeverityByScore(AnomalyScore(d))]} : AnomalyScore(d) > 8}
BySize(d) == {t \in {[kind |-> "anomaly", severity |-> "medium"]} : d.size = ">10000"}

DetectThreats(c, d) ==
    /\ eventsOpen /\ check[c] = "allowed" /\ threats[c] = {}
    /\ threats' = [threats EXCEPT ![c] = BySignature(d) \cup ByBehavior(d) \cup BySize(d)]
    /\ responses' = [responses EXCEPT ![c] = {}]
    /\ UNCHANGED <<check, tracked, idle, blacklist, events, eventsOpen, done, counted>>

Response(t) == CASE t.severity \in {"critical", "high"} -> "blocked"
                 [] t.severity = "medium" -> "rate_limited"
                 [] OTHER -> "logged"

RespondToThreat(c, t) ==
    /\ Publish(t)
    /\ threats' = [threats EXCEPT ![c] = @ \ {t}]
    /\ responses' = [responses EXCEPT ![c] = @ \cup {Response(t)}]
    /\ blacklist' = IF Response(t) = "blocked"
                    THEN [blacklist EXCEPT ![Address[c]] = "blocked"] ELSE blacklist
    /\ UNCHANGED <<check, tracked, idle, eventsOpen, done, counted>>

Expire(a) ==
    /\ blacklist[a] = "blocked"
    /\ blacklist' = [blacklist EXCEPT ![a] = "expired"]
    /\ UNCHANGED <<check, tracked, idle, threats, responses, events, eventsOpen, done, counted>>

UnblockIP(a) ==
    /\ blacklist' = [blacklist EXCEPT ![a] = "none"]
    /\ UNCHANGED <<check, tracked, idle, threats, responses, events, eventsOpen, done, counted>>
-----------------------------------------------------------------------------
ProcessEvent ==
    /\ events # <<>>
    /\ counted' = counted \cup {Head(events).severity}
    /\ events' = Tail(events)
    /\ UNCHANGED <<check, tracked, idle, blacklist, threats, responses, eventsOpen, done>>

Stop ==
    /\ ~done /\ \A c \in Peers : check[c] # "count" /\ threats[c] = {}
    /\ done' = TRUE /\ eventsOpen' = FALSE
    /\ UNCHANGED <<check, tracked, idle, blacklist, threats, responses, events, counted>>

Next ==
    \/ \E c \in Peers :
        \/ FindsBlocked(c) \/ FindsNone(c) \/ FindsExpired(c) \/ RemoveExpired(c)
        \/ TrackConnection(c) \/ CountAllowed(c) \/ CountRefused(c)
        \/ GoesIdle(c) \/ UpdateConnection(c)
        \/ \E d \in Samples : DetectThreats(c, d)
        \/ \E t \in threats[c] : RespondToThreat(c, t)
    \/ \E a \in Addresses : Expire(a) \/ UnblockIP(a)
    \/ CleanupConnections \/ ProcessEvent \/ Stop
-----------------------------------------------------------------------------
(* However many connections of one address are checked at the same time,   *)
(* no more than MaxConnectionsPerIP of those still tracked were let in:    *)
(* each is tracked before it counts.                                       *)
AdmittedWithinLimit ==
    \A a \in Addresses :
        Cardinality({c \in ConnectionsByIP(a) : check[c] = "allowed"}) <= MaxConnectionsPerIP

(* A block that is in force is lifted by UnblockIP only, never by somebody *)
(* who looked at the address when an earlier block had run out.            *)
BlockLasts(a) == blacklist[a] = "blocked" /\ blacklist'[a] = "none" => UnblockIP(a)

LimitsAreKept == []AdmittedWithinLimit /\ [][\A a \in Addresses : BlockLasts(a)]_vars
=============================================================================
