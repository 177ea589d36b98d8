-------------------------- MODULE ProtocolManager ---------------------------
(***************************************************************************)
(* core/governance/protocol_manager.go and wasm_protocol_loader.go: the    *)
(* versions of a protocol and their roll-out, and the WASM modules that    *)
(* are loaded for them and expire.                                         *)
(***************************************************************************)
EXTENDS Naturals, FiniteSets

CONSTANTS
    Versions,    \* of one protocol; protocols do not touch each other
    Callers,     \* goroutines in LoadWASMProtocol and ExecuteWASMProtocol
    Rates,       \* traffic rates, 0 and 100 among them
    MaxVersions, \* bound: Protocol objects made
    MaxModules   \* bound: modules instantiated

VARIABLES
    protocols,   \* pm.protocols: a partial function from versions
    made,        \* Protocol objects made so far
    activeProtocol, \* pm.activeProtocols: the object, 0 for none
    enabled,
    modules,     \* wpl.modules: a partial function from versions to modules
    instances,   \* modules instantiated so far
    closed,      \* those closed
    timers,      \* expirations to come: versions, each with the module it was started for
    loaderActive,
    caller,
    late         \* modules stored by loads that had seen the loader active, after Deactivate

vars == <<protocols, made, activeProtocol, enabled, modules, instances, closed, timers,
          loaderActive, caller, late>>
protocolVars == <<protocols, made, activeProtocol>>
moduleVars == <<modules, instances, closed, timers, late>>

Statuses == {"inactive", "testing", "active", "deprecating"}
Protocol == [object : 1..MaxVersions, status : Statuses, rate : Rates]
Idle == [doing |-> "idle"]
Doing == [doing : {"loading", "storing", "executing"}, version : Versions]
         \cup [doing : {"running"}, version : Versions, module : 1..MaxModules]

TypeOK ==
    /\ DOMAIN protocols \subseteq Versions
    /\ \A v \in DOMAIN protocols : protocols[v] \in Protocol
    /\ made \in 0..MaxVersions /\ activeProtocol \in 0..made
    /\ enabled \in BOOLEAN /\ loaderActive \in BOOLEAN
    /\ DOMAIN modules \subseteq Versions
    /\ instances \in 0..MaxModules
    /\ \A v \in DOMAIN modules : modules[v] \in 1..instances
    /\ closed \subseteq 1..instances /\ late \subseteq 1..instances
    /\ timers \subseteq Versions \X (1..instances)
    /\ caller \in [Callers -> {Idle} \cup Doing]

\* The trust store lists nothing.
Init ==
    /\ protocols = <<>> /\ made = 0 /\ activeProtocol = 0 /\ enabled = TRUE
    /\ modules = <<>> /\ instances = 0 /\ closed = {} /\ timers = {}
    /\ loaderActive = TRUE /\ late = {}
    /\ caller = [c \in Callers |-> Idle]
-----------------------------------------------------------------------------
\* A new object, also in the place of one that is active.
Store(v) ==
    /\ made < MaxVersions /\ made' = made + 1
    /\ protocols' = [u \in DOMAIN protocols \cup {v} |->
            IF u = v THEN [object |-> made + 1, status |-> "inactive", rate |-> 0] ELSE protocols[u]]
    /\ UNCHANGED activeProtocol

\* UploadProtocol, its signature accepted.
UploadProtocol(v) ==
    /\ Store(v) /\ UNCHANGED <<enabled, moduleVars, loaderActive, caller>>

WithStatus(ps, v, status, rate) ==
    [ps EXCEPT ![v] = [object |-> @.object, status |-> status, rate |-> rate]]

StartProtocolTesting(v) ==
    /\ v \in DOMAIN protocols
    /\ protocols' = WithStatus(protocols, v, "testing", 0)
    /\ UNCHANGED <<made, activeProtocol, enabled, moduleVars, loaderActive, caller>>

\* Mutant: the versions that were active stay so.
DemotedNone(v) == protocols

Demoted(v) == [u \in DOMAIN protocols |->
    IF u # v /\ protocols[u].status = "active"
    THEN [object |-> protocols[u].object, status |-> "deprecating", rate |-> 0]
    ELSE protocols[u]]

\* At 100 the version becomes the active one, and the others that are active go.
UpdateProtocolTraffic(v, rate) ==
    /\ v \in DOMAIN protocols /\ protocols[v].status \in {"testing", "active"}
    /\ IF rate = 100
       THEN /\ protocols' = WithStatus(Demoted(v), v, "active", 100)
            /\ activeProtocol' = protocols[v].object
       ELSE /\ protocols' = [protocols EXCEPT ![v].rate = rate]
            /\ UNCHANGED activeProtocol
    /\ UNCHANGED <<made, enabled, moduleVars, loaderActive, caller>>

\* The version stays in activeProtocols.
DeprecateProtocol(v) ==
    /\ v \in DOMAIN protocols
    /\ protocols' = WithStatus(protocols, v, "deprecating", 0)
    /\ UNCHANGED <<made, activeProtocol, enabled, moduleVars, loaderActive, caller>>

Toggle ==
    /\ enabled' = ~enabled
    /\ UNCHANGED <<protocolVars, moduleVars, loaderActive, caller>>
-----------------------------------------------------------------------------
\* LoadProtocol asks whether the loader is active before it takes the lock.
LoadCheck(c, v) ==
    /\ caller[c] = Idle /\ enabled /\ loaderActive
    /\ caller' = [caller EXCEPT ![c] = [doing |-> "loading", version |-> v]]
    /\ UNCHANGED <<protocolVars, enabled, moduleVars, loaderActive>>

\* A module for the version exists, or the code does not compile: an error.
LoadFails(c) ==
    /\ caller[c].doing = "loading" /\ caller' = [caller EXCEPT ![c] = Idle]
    /\ UNCHANGED <<protocolVars, enabled, moduleVars, loaderActive>>

Load(c) ==
    /\ caller[c].doing = "loading" /\ instances < MaxModules
    /\ LET v == caller[c].version
           n == instances + 1
       IN /\ v \notin DOMAIN modules
          /\ modules' = [u \in DOMAIN modules \cup {v} |-> IF u = v THEN n ELSE modules[u]]
          /\ instances' = n /\ timers' = timers \cup {<<v, n>>}
          /\ late' = IF loaderActive THEN late ELSE late \cup {n}
    /\ caller' = [caller EXCEPT ![c].doing = "storing"]
    /\ UNCHANGED <<protocolVars, enabled, closed, loaderActive>>

\* LoadWASMProtocol, after the loader's success.
LoadStores(c) ==
    /\ caller[c].doing = "storing" /\ Store(caller[c].version)
    /\ caller' = [caller EXCEPT ![c] = Idle]
    /\ UNCHANGED <<enabled, moduleVars, loaderActive>>

Unload(V) ==
    /\ closed' = closed \cup {modules[v] : v \in V}
    /\ modules' = [v \in DOMAIN modules \ V |-> modules[v]]

UnloadProtocol(v) ==
    /\ v \in DOMAIN modules /\ Unload({v})
    /\ UNCHANGED <<protocolVars, enabled, instances, timers, late, loaderActive, caller>>

\* Five minutes after a load, whatever module the version has by then is unloaded.
CheckExpiration(t) ==
    /\ t \in timers /\ timers' = timers \ {t}
    /\ IF t[1] \in DOMAIN modules THEN Unload({t[1]}) ELSE UNCHANGED <<modules, closed>>
    /\ UNCHANGED <<protocolVars, enabled, instances, late, loaderActive, caller>>

Deactivate ==
    /\ loaderActive /\ loaderActive' = FALSE /\ Unload(DOMAIN modules)
    /\ UNCHANGED <<protocolVars, enabled, instances, timers, late, caller>>

Activate ==
    /\ ~loaderActive /\ loaderActive' = TRUE
    /\ UNCHANGED <<protocolVars, enabled, moduleVars, caller>>

\* ExecuteWASMProtocol: the version's status, then the module, then the call.
ExecuteCheck(c, v) ==
    /\ caller[c] = Idle /\ enabled
    /\ v \in DOMAIN protocols /\ protocols[v].status \in {"active", "testing"}
    /\ caller' = [caller EXCEPT ![c] = [doing |-> "executing", version |-> v]]
    /\ UNCHANGED <<protocolVars, enabled, moduleVars, loaderActive>>

ExecuteProtocol(c) ==
    /\ caller[c].doing = "executing"
    /\ LET v == caller[c].version IN
        caller' = [caller EXCEPT ![c] =
            IF v \in DOMAIN modules
            THEN [doing |-> "running", version |-> v, module |-> modules[v]] ELSE Idle]
    /\ UNCHANGED <<protocolVars, enabled, moduleVars, loaderActive>>

\* With the result, or an error when the module was closed meanwhile.
Executed(c) ==
    /\ caller[c].doing = "running" /\ caller' = [caller EXCEPT ![c] = Idle]
    /\ UNCHANGED <<protocolVars, enabled, moduleVars, loaderActive>>

Next ==
    \/ \E v \in Versions :
        \/ UploadProtocol(v) \/ StartProtocolTesting(v) \/ DeprecateProtocol(v) \/ UnloadProtocol(v)
        \/ \E r \in Rates : UpdateProtocolTraffic(v, r)
        \/ \E c \in Callers : LoadCheck(c, v) \/ ExecuteCheck(c, v)
    \/ \E c \in Callers :
        LoadFails(c) \/ Load(c) \/ LoadStores(c) \/ ExecuteProtocol(c) \/ Executed(c)
    \/ \E t \in timers : CheckExpiration(t)
    \/ Toggle \/ Deactivate \/ Activate
-----------------------------------------------------------------------------
(* At most one version is active, whatever is uploaded, tested, rolled out *)
(* and deprecated in whatever order, and then it is the one that           *)
(* GetActiveProtocol returns (which may also return one that is no longer  *)
(* active, deprecated or replaced).                                        *)
OneActive ==
    \A v \in DOMAIN protocols : protocols[v].status = "active" =>
        activeProtocol = protocols[v].object

(* A module that is not closed is in the map, and the loader, once         *)
(* deactivated, holds none but those of loads that had asked before.       *)
ModulesAccounted ==
    /\ \A n \in 1..instances : n \in closed \/ \E v \in DOMAIN modules : modules[v] = n
    /\ ~loaderActive => \A v \in DOMAIN modules : modules[v] \in late

(* One version governs, and no module runs that is not accounted for.      *)
GovernedOnce == OneActive /\ ModulesAccounted
=============================================================================
