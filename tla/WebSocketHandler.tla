-------------------------- MODULE WebSocketHandler --------------------------
(***************************************************************************)
(* core/protocols/websocket/handler.go: the limit on connections, and a    *)
(* connection's way through the handler's map and the message bus, with    *)
(* the heartbeat that pings it.  The upgrade is golang.org/x/net's.        *)
(***************************************************************************)
EXTENDS Naturals, FiniteSets

CONSTANTS
    Sockets,         \* connections given to Handle
    MaxConnections

VARIABLES
    stage,       \* what Handle does for each
    current,     \* connLimiter.current
    turnedAway,  \* connections over the limit
    mapped,      \* h.connections
    onBus,       \* registered with the message bus
    heart,       \* the heartbeat goroutine
    alive,       \* wsConn.isAlive
    pinging,     \* the heartbeat sends, with wsConn.mu held
    closed

vars == <<stage, current, turnedAway, mapped, onBus, heart, alive, pinging, closed>>
heartVars == <<heart, alive, pinging>>

TypeOK ==
    /\ stage \in [Sockets -> {"new", "upgrading", "created", "mapped", "reading", "pong",
                              "unmapping", "unregistering", "releasing", "closing", "done"}]
    /\ current \in 0..Cardinality(Sockets)
    /\ turnedAway \subseteq Sockets /\ mapped \subseteq Sockets /\ onBus \subseteq Sockets
    /\ heart \subseteq Sockets /\ alive \subseteq Sockets /\ pinging \subseteq Sockets
    /\ closed \subseteq Sockets

Init ==
    /\ stage = [s \in Sockets |-> "new"] /\ current = 0
    /\ turnedAway = {} /\ mapped = {} /\ onBus = {}
    /\ heart = {} /\ alive = {} /\ pinging = {} /\ closed = {}
-----------------------------------------------------------------------------
Move(s, from, to) == stage[s] = from /\ stage' = [stage EXCEPT ![s] = to]

\* Mutant: the limit is tested before it is counted against, not with it.
TryAcquireLate(s) ==
    /\ stage[s] = "new" /\ current' = current + 1
    /\ IF current <= MaxConnections
       THEN Move(s, "new", "upgrading") /\ UNCHANGED <<turnedAway, closed>>
       ELSE /\ Move(s, "new", "done")
            /\ turnedAway' = turnedAway \cup {s} /\ closed' = closed \cup {s}
    /\ UNCHANGED <<mapped, onBus, heartVars>>

\* The increment is not taken back from a connection that is over the limit.
TryAcquire(s) ==
    /\ stage[s] = "new" /\ current' = current + 1
    /\ IF current + 1 <= MaxConnections
       THEN Move(s, "new", "upgrading") /\ UNCHANGED <<turnedAway, closed>>
       ELSE /\ Move(s, "new", "done")
            /\ turnedAway' = turnedAway \cup {s} /\ closed' = closed \cup {s}
    /\ UNCHANGED <<mapped, onBus, heartVars>>

\* The upgrade calls handleWebSocket, which makes the connection and its heartbeat.
Upgrade(s) ==
    /\ Move(s, "upgrading", "created")
    /\ heart' = heart \cup {s} /\ alive' = alive \cup {s}
    /\ UNCHANGED <<current, turnedAway, mapped, onBus, pinging, closed>>

Map(s) ==
    /\ Move(s, "created", "mapped") /\ mapped' = mapped \cup {s}
    /\ UNCHANGED <<current, turnedAway, onBus, heartVars, closed>>

RegisterConnection(s) ==
    /\ Move(s, "mapped", "reading") /\ onBus' = onBus \cup {s}
    /\ UNCHANGED <<current, turnedAway, mapped, heartVars, closed>>

\* "pong" is noted under wsConn.mu; anything else is broadcast, see MessageBus.
ReadPong(s) ==
    /\ Move(s, "reading", "pong")
    /\ UNCHANGED <<current, turnedAway, mapped, onBus, heartVars, closed>>

UpdatePong(s) ==
    /\ s \notin pinging /\ Move(s, "pong", "reading")
    /\ UNCHANGED <<current, turnedAway, mapped, onBus, heartVars, closed>>

ReadFails(s) ==
    /\ Move(s, "reading", "unmapping")
    /\ UNCHANGED <<current, turnedAway, mapped, onBus, heartVars, closed>>

Unmap(s) ==
    /\ Move(s, "unmapping", "unregistering") /\ mapped' = mapped \ {s}
    /\ UNCHANGED <<current, turnedAway, onBus, heartVars, closed>>

UnregisterConnection(s) ==
    /\ Move(s, "unregistering", "releasing") /\ onBus' = onBus \ {s}
    /\ UNCHANGED <<current, turnedAway, mapped, heartVars, closed>>

\* The slot is free before the connection is closed.
Release(s) ==
    /\ Move(s, "releasing", "closing") /\ current' = current - 1
    /\ UNCHANGED <<turnedAway, mapped, onBus, heartVars, closed>>

Close(s) ==
    /\ s \notin pinging /\ Move(s, "closing", "done")
    /\ alive' = alive \ {s} /\ closed' = closed \cup {s}
    /\ UNCHANGED <<current, turnedAway, mapped, onBus, heart, pinging>>
-----------------------------------------------------------------------------
PingBegins(s) ==
    /\ s \in heart \ pinging /\ s \in alive
    /\ pinging' = pinging \cup {s}
    /\ UNCHANGED <<stage, current, turnedAway, mapped, onBus, heart, alive, closed>>

PingEnds(s) ==
    /\ s \in pinging /\ pinging' = pinging \ {s}
    /\ UNCHANGED <<stage, current, turnedAway, mapped, onBus, heart, alive, closed>>

\* The heartbeat ends; the read loop is not told.
PingFails(s) ==
    /\ s \in pinging /\ pinging' = pinging \ {s}
    /\ alive' = alive \ {s} /\ heart' = heart \ {s}
    /\ UNCHANGED <<stage, current, turnedAway, mapped, onBus, closed>>

HeartEnds(s) ==
    /\ s \in heart \ pinging /\ s \notin alive /\ heart' = heart \ {s}
    /\ UNCHANGED <<stage, current, turnedAway, mapped, onBus, alive, pinging, closed>>

Next ==
    \E s \in Sockets :
        \/ TryAcquire(s) \/ Upgrade(s) \/ Map(s) \/ RegisterConnection(s)
        \/ ReadPong(s) \/ UpdatePong(s) \/ ReadFails(s)
        \/ Unmap(s) \/ UnregisterConnection(s) \/ Release(s) \/ Close(s)
        \/ PingBegins(s) \/ PingEnds(s) \/ PingFails(s) \/ HeartEnds(s)
-----------------------------------------------------------------------------
Holding == {s \in Sockets : stage[s] \notin {"new", "closing", "done"}}

(* The limiter counts the connections that hold a slot and, for ever, all  *)
(* that were turned away: the limit shrinks with each.  No more than the   *)
(* limit hold a slot; map and bus hold no other connections, and nothing   *)
(* is on the bus that is closed.                                           *)
LimitShrinks ==
    /\ current = Cardinality(Holding) + Cardinality(turnedAway)
    /\ Cardinality(Holding) <= MaxConnections
    /\ mapped \subseteq Holding /\ onBus \subseteq Holding \ closed
    /\ heart \cap closed \subseteq Sockets \ alive
=============================================================================
