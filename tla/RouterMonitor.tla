---------------------------- MODULE RouterMonitor ---------------------------
(***************************************************************************)
(* core/router/router_monitor.go: requests are counted one atomic or       *)
(* locked step at a time, while collector, health and alert checks run.    *)
(* collectMetrics holds the mutex and asks for it once more in GetMetrics: *)
(* the first collection never ends, and whoever asks for the mutex after   *)
(* it waits for ever, among them every later caller of RecordRequest.      *)
(***************************************************************************)
EXTENDS Naturals, FiniteSets

CONSTANTS
    Recorders,      \* goroutines in RecordRequest
    Routes,         \* method and path
    TimesLimit,     \* response times kept: 10000 in the code
    TimesDropped,   \* how many go when there are more: 1000 in the code
    MaxRequests     \* bound: requests recorded

VARIABLES
    collecting,     \* whether a collection holds rm.mutex
    total, ok, bad, \* TotalRequests, SuccessfulRequests, FailedRequests
    times,          \* len(responseTimes)
    routes,         \* routeMetrics: per route, the requests that went well and ill
    recorder,       \* where each recorder is in RecordRequest
    running, cancelled, loops

vars == <<collecting, total, ok, bad, times, routes, recorder, running, cancelled, loops>>
requestVars == <<total, ok, bad, times, routes, recorder>>
lifeVars    == <<running, cancelled, loops>>

Loops == {"collector", "health", "alerts"}
Stages == {"outcome", "times", "route"}
Busy == [at : Stages, route : Routes, good : BOOLEAN]
Out == [at |-> "out"]

TypeOK ==
    /\ collecting \in BOOLEAN /\ running \in BOOLEAN /\ cancelled \in BOOLEAN
    /\ {total, ok, bad} \subseteq 0..MaxRequests
    /\ times \in 0..TimesLimit
    /\ routes \in [Routes -> [good : 0..MaxRequests, bad : 0..MaxRequests]]
    /\ recorder \in [Recorders -> Busy \cup {Out}]
    /\ loops \subseteq Loops

Init ==
    /\ collecting = FALSE /\ total = 0 /\ ok = 0 /\ bad = 0 /\ times = 0
    /\ routes = [r \in Routes |-> [good |-> 0, bad |-> 0]]
    /\ recorder = [g \in Recorders |-> Out]
    /\ running = FALSE /\ cancelled = FALSE /\ loops = {}
-----------------------------------------------------------------------------
Go(g, from, to) ==
    /\ recorder[g] # Out /\ recorder[g].at = from
    /\ recorder' = [recorder EXCEPT ![g] = IF to = "out" THEN Out ELSE [at |-> to, route |-> @.route, good |-> @.good]]

RecordRequest(g, route, good) ==
    /\ recorder[g] = Out /\ total < MaxRequests
    /\ recorder' = [recorder EXCEPT ![g] = [at |-> "outcome", route |-> route, good |-> good]]
    /\ total' = total + 1
    /\ UNCHANGED <<collecting, ok, bad, times, routes, lifeVars>>

CountOutcome(g) ==
    /\ Go(g, "outcome", "times")
    /\ IF recorder[g].good THEN ok' = ok + 1 /\ UNCHANGED bad
                           ELSE bad' = bad + 1 /\ UNCHANGED ok
    /\ UNCHANGED <<collecting, total, times, routes, lifeVars>>

\* Under a mutex of its own, which no collection keeps.
recordResponseTime(g) ==
    /\ Go(g, "times", "route")
    /\ times' = IF times + 1 > TimesLimit THEN times + 1 - TimesDropped ELSE times + 1
    /\ UNCHANGED <<collecting, total, ok, bad, routes, lifeVars>>

\* Mutant: a route counts only what went well.
updateRouteMetricsGood(g) ==
    /\ ~collecting /\ Go(g, "route", "out")
    /\ routes' = [routes EXCEPT ![recorder[g].route].good = @ + (IF recorder[g].good THEN 1 ELSE 0)]
    /\ UNCHANGED <<collecting, total, ok, bad, times, lifeVars>>

updateRouteMetrics(g) ==
    /\ ~collecting /\ Go(g, "route", "out")
    /\ LET r == recorder[g].route IN
       routes' = IF recorder[g].good THEN [routes EXCEPT ![r].good = @ + 1]
                                     ELSE [routes EXCEPT ![r].bad = @ + 1]
    /\ UNCHANGED <<collecting, total, ok, bad, times, lifeVars>>
-----------------------------------------------------------------------------
\* Started again after a Stop, the loops find the old context cancelled and end.
Start ==
    /\ ~collecting /\ ~running
    /\ running' = TRUE /\ loops' = Loops
    /\ UNCHANGED <<collecting, requestVars, cancelled>>

Stop ==
    /\ ~collecting /\ running
    /\ running' = FALSE /\ cancelled' = TRUE
    /\ UNCHANGED <<collecting, requestVars, loops>>

LoopExits(l) ==
    /\ cancelled /\ l \in loops /\ (l = "collector" => ~collecting)
    /\ loops' = loops \ {l}
    /\ UNCHANGED <<collecting, requestVars, running, cancelled>>

\* The rates are written, and then GetMetrics waits for the lock its caller holds.
\* Until then the metrics that performHealthCheck and checkAlerts read are all zero,
\* above no threshold, and from then on they wait too: no alert is ever triggered.
collectMetrics ==
    /\ "collector" \in loops /\ ~collecting
    /\ collecting' = TRUE
    /\ UNCHANGED <<requestVars, lifeVars>>

Next ==
    \/ \E g \in Recorders :
        \/ \E r \in Routes, good \in BOOLEAN : RecordRequest(g, r, good)
        \/ CountOutcome(g) \/ recordResponseTime(g) \/ updateRouteMetrics(g)
    \/ Start \/ Stop \/ collectMetrics
    \/ \E l \in Loops : LoopExits(l)
-----------------------------------------------------------------------------
\* What the routes have counted.
Counted == UNION {{r} \X (1..(routes[r].good + routes[r].bad)) : r \in Routes}
At(stages) == Cardinality({g \in Recorders : recorder[g] # Out /\ recorder[g].at \in stages})

(* Whatever calls are under way, and though a collection may have stopped  *)
(* them for ever: the outcomes lag behind the total by the calls between   *)
(* the two counters, and the routes behind the outcomes by the calls that  *)
(* have not had the mutex; a collector that never ends keeps Stop from it, *)
(* so that the monitor says it is running, and runs, for good.             *)
RoutesAddUp ==
    /\ total = ok + bad + At({"outcome"})
    /\ ok + bad = Cardinality(Counted) + At({"times", "route"})
    /\ times <= TimesLimit
    /\ collecting => "collector" \in loops
=============================================================================
