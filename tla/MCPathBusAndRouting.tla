------------------------- MODULE MCPathBusAndRouting ------------------------
(***************************************************************************)
(* The serving path, a connection's buffer and the numbers in it, the      *)
(* message bus, and what routes a request: the router's cache, its nodes,  *)
(* and the HTTP router. They share nothing, so each behaviour is a         *)
(* behaviour of one of them; the initial state chooses which.              *)
(***************************************************************************)
EXTENDS ServingPath, FiniteSets, TLC

CONSTANTS
    Clients, SubIds, Topics, Publishers, MaxClients, RetryAttempts,
    MaxPublishes, Keys, Sizes, MaxSize, MaxMemory, MaxHits, Hashes, Hash,
    RequestHash, Ruled, CacheSize, FailoverThreshold, MaxFailures,
    RecoveryThreshold, MaxBalanced, Methods, Paths, Patterns, First, Matches,
    Writers, MaxRoutes, MaxSent, MatchedKeys, NodeIDs, Lookups, RouteWorkers,
    HTTPRequests, BufferSize, SliceLengths

\* Limits are numbers, and only so many goroutines publish; a node has its hashes
\* in order, and a request one; only so many requests and keys are cached.
ASSUME RoutingAssumption ==
    /\ IsFiniteSet(Publishers) /\ IsFiniteSet(Clients)
    /\ MaxClients \in Nat /\ RetryAttempts \in Nat /\ MaxPublishes \in Nat
    /\ Hash \in [NodeIDs -> Seq(Hashes)] /\ RequestHash \in [Lookups -> Hashes]
    /\ Ruled \in [Lookups -> SUBSET NodeIDs] /\ IsFiniteSet(Lookups)
    /\ Hashes \subseteq Nat /\ CacheSize \in Nat \ {0} /\ MaxBalanced \in Nat
    /\ FailoverThreshold \in Nat /\ MaxFailures \in Nat /\ RecoveryThreshold \in Nat
    /\ Matches \in [Patterns -> SUBSET Paths] /\ MaxRoutes \in Nat
    /\ IsFiniteSet(Keys) /\ Sizes \subseteq Nat
    /\ MaxSize \in Nat /\ MaxMemory \in Nat /\ MaxHits \in Nat
    /\ BufferSize \in Nat /\ SliceLengths \subseteq Nat /\ MaxSent \in Nat

VARIABLES
    which,
    busKnown, gone, inactive, subscriptions, topicSubs, busJob, targets, stage,
    tries, received, published, delivered, failed, closing,
    entries, order, memory, policy, setting, sweep,
    balanced, ring, sorted, nodesKnown, editing, unhealthy, failures, successes,
    cache, older, work,
    routes, middlewares, trees, writer, request,
    buffer, bufferedClosed, call, timed, deadline, bufferedSent, fin, taken,
    got, right, careless

Bus == INSTANCE MessageBus WITH
    known <- busKnown, job <- busJob

Cache == INSTANCE RouterCache WITH
    Matching <- MatchedKeys

Nodes == INSTANCE RoutingNodes WITH
    Nodes <- NodeIDs, Requests <- Lookups, Workers <- RouteWorkers,
    known <- nodesKnown

Router == INSTANCE HTTPRouter WITH
    Requests <- HTTPRequests

Buffered == INSTANCE BufferedConn WITH
    Bits <- 2, Word <- 3, Half <- 2, Fixed <- {35}, Size <- BufferSize,
    Lengths <- SliceLengths, closed <- bufferedClosed, sent <- bufferedSent

busVars ==
    <<busKnown, gone, inactive, subscriptions, topicSubs, busJob, targets,
      stage, tries, received, published, delivered, failed, closing>>
cacheVars ==
    <<entries, order, memory, policy, setting, sweep>>
nodesVars ==
    <<balanced, ring, sorted, nodesKnown, editing, unhealthy, failures,
      successes, cache, older, work>>
routerVars ==
    <<routes, middlewares, trees, writer, request>>
bufferedVars ==
    <<buffer, bufferedClosed, call, timed, deadline, bufferedSent, fin, taken,
      got, right, careless>>
-----------------------------------------------------------------------------
suiteVars == <<which, vars, busVars, cacheVars, nodesVars, routerVars,
              bufferedVars>>

SuiteInit ==
    /\ which \in {"path", "bus", "cache", "nodes", "router", "buffered"}
    /\ Init /\ Bus!Init /\ Cache!Init
    /\ Nodes!Init /\ Router!Init /\ Buffered!Init
    /\ which # "path" => handlers = CHOOSE h \in HandlerSets : TRUE

SuiteNext ==
    \/ /\ which = "path" /\ Next
       /\ UNCHANGED <<which, busVars, cacheVars, nodesVars, routerVars,
                        bufferedVars>>
    \/ /\ which = "bus" /\ Bus!Next
       /\ UNCHANGED <<which, vars, cacheVars, nodesVars, routerVars,
                        bufferedVars>>
    \/ /\ which = "cache" /\ Cache!Next
       /\ UNCHANGED <<which, vars, busVars, nodesVars, routerVars,
                        bufferedVars>>
    \/ /\ which = "nodes" /\ Nodes!Next
       /\ UNCHANGED <<which, vars, busVars, cacheVars, routerVars,
                        bufferedVars>>
    \/ /\ which = "router" /\ Router!Next
       /\ UNCHANGED <<which, vars, busVars, cacheVars, nodesVars, bufferedVars>>
    \/ /\ which = "buffered" /\ Buffered!Next
       /\ UNCHANGED <<which, vars, busVars, cacheVars, nodesVars, routerVars>>
    \/ which # "path" /\ UNCHANGED suiteVars   \* the others may stop

SuiteSpec == SuiteInit /\ [][SuiteNext]_suiteVars

\* Two of the connections bear the names of the bus's clients: the fewer the
\* permutations, the less each state costs.
Symmetry == Permutations(Clients) \cup Permutations(SubIds)

\* The instances that the run checks: the nodes' second hashes collide.
HashesOfNodes == <<<<1, 3>>, <<2, 3>>>>
HashesOfRequests == <<2>>
NodesRuled == <<{1}>>
FirstCharacters == [p \in Paths \cup Patterns |-> "/"]
AllMatch == [p \in Patterns |-> Paths]
-----------------------------------------------------------------------------
(* The bus's index by topic agrees with its map of subscriptions, and it   *)
(* delivers at least once what it reports as delivered.                    *)
BusDelivers ==
    which = "bus" => Bus!TypeOK /\ Bus!IndexAgrees /\ Bus!AtLeastOnce

(* The stream of a connection and the numbers in a buffer come out as they *)
(* went in, unless a caller reads more than there is.                      *)
BytesKept ==
    which = "buffered" =>
        Buffered!TypeOK /\ Buffered!StreamKept /\ Buffered!NumbersComeBack

(* The route cache's map, list and memory count tell the same story,       *)
(* within its limits.                                                      *)
CacheAgrees == which = "cache" => Cache!TypeOK /\ Cache!CacheAgrees

(* The ring, the balancer and the health of the nodes agree.               *)
RingAgrees == which = "nodes" => Nodes!TypeOK /\ Nodes!RingAgrees

(* The answer for a path changes only in favour of a more exact route.     *)
AnswersSettle == []Router!TypeOK /\ Router!AnswersSettle
=============================================================================
