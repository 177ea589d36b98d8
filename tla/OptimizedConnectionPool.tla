----------------------- MODULE OptimizedConnectionPool ----------------------
(***************************************************************************)
(* core/pool/enhanced_pool.go, OptimizedConnectionPool: connections, their *)
(* grouping by protocol, and two background goroutines that look at a      *)
(* snapshot and remove connections one by one later: the health checker    *)
(* and the cleaner of idle connections.  Every method of the pool is one   *)
(* critical section.  GetConnectionByProtocol may return any healthy       *)
(* connection of the protocol; which one has fewest requests is left out.  *)
(***************************************************************************)
EXTENDS Integers, FiniteSets, SequencesExt

CONSTANTS
    Connections,     \* connections offered to the pool, each once
    Protocols,
    MaxConnections, MinConnections,  \* config
    NoProtocol       \* Protocol of a connection not yet classified

VARIABLES
    offered,     \* connections for which AddConnection was called
    pooled,      \* keys of p.connections
    protocolOf,  \* conn.Protocol
    groups,      \* p.protocolMap
    closes,      \* Close calls of the pool on each net.Conn
    lost,        \* net.Conns that their user has closed
    healthy,     \* conn.Healthy
    stale,       \* connections not used for MaxIdleTime
    total,       \* metrics.TotalConnections
    poolOpen,    \* p.running
    toCheck,     \* rest of the health checker's snapshot
    toClean      \* rest of what the cleaner decided to remove

vars == <<offered, pooled, protocolOf, groups, closes, lost, healthy, stale,
          total, poolOpen, toCheck, toClean>>
mapVars  == <<pooled, protocolOf, groups, closes, total>>
userVars == <<lost, healthy, stale>>

TypeOK ==
    /\ offered \subseteq Connections /\ pooled \subseteq offered
    /\ protocolOf \in [Connections -> Protocols \cup {NoProtocol}]
    /\ groups \in [Protocols -> Seq(Connections)]
    /\ closes \in [Connections -> Nat]
    /\ lost \subseteq offered /\ healthy \subseteq offered /\ stale \subseteq offered
    /\ total \in Int /\ poolOpen \in BOOLEAN
    /\ toCheck \subseteq offered /\ toClean \subseteq offered

Init ==
    /\ offered = {} /\ pooled = {}
    /\ protocolOf = [c \in Connections |-> NoProtocol]
    /\ groups = [p \in Protocols |-> <<>>]
    /\ closes = [c \in Connections |-> 0]
    /\ lost = {} /\ healthy = {} /\ stale = {}
    /\ total = 0 /\ poolOpen = TRUE
    /\ toCheck = {} /\ toClean = {}
-----------------------------------------------------------------------------
AddConnection(c) ==
    /\ c \notin offered
    /\ offered' = offered \cup {c}
    /\ IF Cardinality(pooled) >= MaxConnections
       THEN /\ closes' = [closes EXCEPT ![c] = @ + 1]
            /\ UNCHANGED <<pooled, healthy, total>>
       ELSE /\ pooled' = pooled \cup {c}
            /\ healthy' = healthy \cup {c}
            /\ total' = total + 1
            /\ UNCHANGED closes
    /\ UNCHANGED <<protocolOf, groups, lost, stale, poolOpen, toCheck, toClean>>

Use(c) ==
    /\ stale' = stale \ {c}
    /\ UNCHANGED <<offered, mapVars, lost, healthy, poolOpen, toCheck, toClean>>

GetConnection(c) == c \in pooled /\ c \in healthy /\ Use(c)

GetConnectionByProtocol(p) == \E c \in ToSet(groups[p]) : c \in healthy /\ Use(c)

\* Mutant: the old group keeps the connection.
LeaveGroupNot(c) == groups

\* removeFromProtocolMap.
LeaveGroup(c) ==
    IF protocolOf[c] = NoProtocol THEN groups
    ELSE [groups EXCEPT ![protocolOf[c]] = RemoveFirst(@, c)]

UpdateConnectionProtocol(c, p) ==
    /\ c \in pooled
    /\ groups' = [LeaveGroup(c) EXCEPT ![p] = Append(@, c)]
    /\ protocolOf' = [protocolOf EXCEPT ![c] = p]
    /\ UNCHANGED <<offered, pooled, closes, userVars, total, poolOpen, toCheck, toClean>>

\* Mutant: an id that is not in the pool is not looked for.
TakeOutUnchecked(c) ==
    /\ groups' = LeaveGroup(c)
    /\ pooled' = pooled \ {c}
    /\ closes' = [closes EXCEPT ![c] = @ + 1]
    /\ total' = total - 1
    /\ UNCHANGED protocolOf

TakeOut(c) ==
    \/ c \notin pooled /\ UNCHANGED mapVars
    \/ /\ c \in pooled
       /\ groups' = LeaveGroup(c)
       /\ pooled' = pooled \ {c}
       /\ closes' = [closes EXCEPT ![c] = @ + 1]
       /\ total' = total - 1
       /\ UNCHANGED protocolOf

RemoveConnection(c) ==
    /\ c \in offered /\ TakeOut(c)
    /\ UNCHANGED <<offered, userVars, poolOpen, toCheck, toClean>>
-----------------------------------------------------------------------------
(* performHealthCheck: SetReadDeadline fails on a closed net.Conn only.    *)

HealthSnapshot ==
    /\ poolOpen /\ toCheck = {} /\ pooled # {}
    /\ toCheck' = pooled
    /\ UNCHANGED <<offered, mapVars, userVars, poolOpen, toClean>>

IsClosed(c) == c \in lost \/ closes[c] > 0

CheckPassed(c) ==
    /\ c \in toCheck /\ ~IsClosed(c)
    /\ toCheck' = toCheck \ {c}
    /\ healthy' = healthy \cup {c}
    /\ UNCHANGED <<offered, mapVars, lost, stale, poolOpen, toClean>>

CheckFailed(c) ==
    /\ c \in toCheck /\ IsClosed(c) /\ c \in healthy
    /\ healthy' = healthy \ {c}
    /\ UNCHANGED <<offered, mapVars, lost, stale, poolOpen, toCheck, toClean>>

RemoveFailed(c) ==
    /\ c \in toCheck \ healthy /\ TakeOut(c)
    /\ toCheck' = toCheck \ {c}
    /\ UNCHANGED <<offered, userVars, poolOpen, toClean>>
-----------------------------------------------------------------------------
\* How many the cleaner removes: the idle ones, down to MinConnections.
Surplus(idle) ==
    LET most == Cardinality(pooled) - MinConnections
    IN  IF most <= 0 THEN 0 ELSE IF Cardinality(idle) > most THEN most ELSE Cardinality(idle)

CleanSnapshot ==
    /\ poolOpen /\ toClean = {}
    /\ \E chosen \in SUBSET (pooled \cap stale) :
        /\ Cardinality(chosen) = Surplus(pooled \cap stale) /\ chosen # {}
        /\ toClean' = chosen
    /\ UNCHANGED <<offered, mapVars, userVars, poolOpen, toCheck>>

CleanOne(c) ==
    /\ c \in toClean /\ TakeOut(c)
    /\ toClean' = toClean \ {c}
    /\ UNCHANGED <<offered, userVars, poolOpen, toCheck>>

\* The counters are left as they are.
Close ==
    /\ poolOpen /\ poolOpen' = FALSE
    /\ closes' = [c \in Connections |-> IF c \in pooled THEN closes[c] + 1 ELSE closes[c]]
    /\ pooled' = {}
    /\ groups' = [p \in Protocols |-> <<>>]
    /\ UNCHANGED <<offered, protocolOf, total, userVars, toCheck, toClean>>
-----------------------------------------------------------------------------
(* Users of connections: one is idle for long, or closed by its handler.   *)

GoIdle(c) ==
    /\ c \in pooled /\ stale' = stale \cup {c}
    /\ UNCHANGED <<offered, mapVars, lost, healthy, poolOpen, toCheck, toClean>>

UserCloses(c) ==
    /\ c \in pooled /\ lost' = lost \cup {c}
    /\ UNCHANGED <<offered, mapVars, healthy, stale, poolOpen, toCheck, toClean>>

Next ==
    \/ \E c \in Connections :
        \/ AddConnection(c) \/ GetConnection(c) \/ RemoveConnection(c)
        \/ \E p \in Protocols : UpdateConnectionProtocol(c, p)
        \/ CheckPassed(c) \/ CheckFailed(c) \/ RemoveFailed(c)
        \/ CleanOne(c) \/ GoIdle(c) \/ UserCloses(c)
    \/ \E p \in Protocols : GetConnectionByProtocol(p)
    \/ HealthSnapshot \/ CleanSnapshot \/ Close

Spec == Init /\ [][Next]_vars
-----------------------------------------------------------------------------
(* The two maps and the counter tell the same story: a connection is       *)
(* listed once, under its protocol, as long as it is in the pool, however  *)
(* the checker, the cleaner and RemoveConnection race to remove it and     *)
(* while it is reclassified; TotalConnections counts them until Close.     *)
MapsAgree ==
    /\ poolOpen => total = Cardinality(pooled)
    /\ \A p \in Protocols :
        /\ IsInjective(groups[p])
        /\ ToSet(groups[p]) = {c \in pooled : protocolOf[c] = p}

(* The pool closes a connection once, exactly when it takes it out or does *)
(* not let it in: none is closed twice, none is dropped open.              *)
ClosedExactlyOnce ==
    \A c \in offered : closes[c] = IF c \in pooled THEN 0 ELSE 1

(* A connection is in both maps and open, or in neither and closed once.   *)
PoolAgrees == MapsAgree /\ ClosedExactlyOnce
=============================================================================
