---------------------------- MODULE GRPCHandler -----------------------------
(***************************************************************************)
(* core/protocols/grpc/handler.go: client connections, one per target, and *)
(* the server that the first caller makes.                                 *)
(***************************************************************************)
EXTENDS Naturals, FiniteSets

CONSTANTS
    Callers,    \* goroutines in GetConnection, Handle and RegisterService
    Targets,
    MaxDials,   \* bound: client connections dialled
    MaxServers  \* bound: servers made

Dialled == 1..MaxDials

VARIABLES
    connections,  \* cm.connections, a partial function from targets
    dials,        \* connections dialled so far
    shut,         \* those shut down
    caller,       \* what each goroutine does
    servers,      \* servers made so far; the last is h.grpcServer, 0 for nil
    services,     \* servers that had the service registered
    serving       \* servers that connections were given to

vars == <<connections, dials, shut, caller, servers, services, serving>>
clientVars == <<connections, dials, shut>>
serverVars == <<servers, services, serving>>

Idle == [doing |-> "idle"]

TypeOK ==
    /\ DOMAIN connections \subseteq Targets
    /\ \A t \in DOMAIN connections : connections[t] \in Dialled
    /\ dials \in 0..MaxDials /\ shut \subseteq 1..dials
    /\ \A c \in Callers : caller[c] = Idle
            \/ caller[c] \in [doing : {"dialling"}, target : Targets]
                       \cup [doing : {"initialising", "ready"}, what : {"handle", "register"}]
    /\ servers \in 0..MaxServers
    /\ services \subseteq 1..servers /\ serving \subseteq 1..servers

Init ==
    /\ connections = <<>> /\ dials = 0 /\ shut = {}
    /\ caller = [c \in Callers |-> Idle]
    /\ servers = 0 /\ services = {} /\ serving = {}
-----------------------------------------------------------------------------
Usable(t) == t \in DOMAIN connections /\ connections[t] \notin shut

\* GetConnection, the look under the read lock.
LookUp(c, t) ==
    /\ caller[c] = Idle
    /\ caller' = [caller EXCEPT ![c] =
                    IF Usable(t) THEN Idle ELSE [doing |-> "dialling", target |-> t]]
    /\ UNCHANGED <<clientVars, serverVars>>

\* Mutant: no second look under the write lock.
DialBlindly(c) ==
    /\ caller[c].doing = "dialling" /\ caller' = [caller EXCEPT ![c] = Idle]
    /\ LET t == caller[c].target IN
        /\ dials < MaxDials /\ dials' = dials + 1
        /\ connections' = [u \in DOMAIN connections \cup {t} |->
                            IF u = t THEN dials + 1 ELSE connections[u]]
    /\ UNCHANGED <<shut, serverVars>>

\* The second look, the dial and the store; the dial may fail.
Dial(c) ==
    /\ caller[c].doing = "dialling" /\ caller' = [caller EXCEPT ![c] = Idle]
    /\ LET t == caller[c].target IN
        \/ UNCHANGED <<connections, dials>>
        \/ /\ ~Usable(t) /\ dials < MaxDials /\ dials' = dials + 1
           /\ connections' = [u \in DOMAIN connections \cup {t} |->
                                IF u = t THEN dials + 1 ELSE connections[u]]
    /\ UNCHANGED <<shut, serverVars>>

Remove(S) ==
    /\ shut' = shut \cup {connections[t] : t \in S}
    /\ connections' = [t \in DOMAIN connections \ S |-> connections[t]]
    /\ UNCHANGED <<dials, caller, serverVars>>

CloseConnection(t) == t \in DOMAIN connections /\ Remove({t})
CloseAll == connections # <<>> /\ Remove(DOMAIN connections)

\* A caller shuts down the connection it was given.
UserCloses(t) ==
    /\ Usable(t) /\ shut' = shut \cup {connections[t]}
    /\ UNCHANGED <<connections, dials, caller, serverVars>>
-----------------------------------------------------------------------------
\* Handle and RegisterService look for a server without a lock.
CheckServer(c, what) ==
    /\ caller[c] = Idle
    /\ caller' = [caller EXCEPT ![c] =
                    [doing |-> IF servers = 0 THEN "initialising" ELSE "ready", what |-> what]]
    /\ UNCHANGED <<clientVars, serverVars>>

InitializeServer(c) ==
    /\ caller[c].doing = "initialising" /\ servers < MaxServers
    /\ servers' = servers + 1
    /\ caller' = [caller EXCEPT ![c].doing = "ready"]
    /\ UNCHANGED <<clientVars, services, serving>>

UseServer(c) ==
    /\ caller[c].doing = "ready" /\ caller' = [caller EXCEPT ![c] = Idle]
    /\ IF caller[c].what = "handle"
       THEN serving' = serving \cup {servers} /\ UNCHANGED services
       ELSE services' = services \cup {servers} /\ UNCHANGED serving
    /\ UNCHANGED <<clientVars, servers>>

Next ==
    \/ \E c \in Callers :
        \/ \E t \in Targets : LookUp(c, t)
        \/ \E what \in {"handle", "register"} : CheckServer(c, what)
        \/ Dial(c) \/ InitializeServer(c) \/ UseServer(c)
    \/ \E t \in Targets : CloseConnection(t) \/ UserCloses(t)
    \/ CloseAll
-----------------------------------------------------------------------------
(* Every client connection that is not shut down is the one in the map for *)
(* its target, whoever dialled at the same time: none is left open and     *)
(* forgotten.  Servers are not so careful: as many are made as goroutines  *)
(* found none, but none after a goroutine has found one.                   *)
DialledIsKept ==
    /\ \A d \in 1..dials : d \in shut \/ \E t \in DOMAIN connections : connections[t] = d
    /\ servers <= Cardinality(Callers)
=============================================================================
