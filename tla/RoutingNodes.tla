---------------------------- MODULE RoutingNodes ----------------------------
(***************************************************************************)
(* The nodes that core/router/enhanced_router.go routes to: the balancer's *)
(* list and hash ring, the multidimensional router's map                   *)
(* (multidimensional_router.go), the cache of routes, and the workers that *)
(* look a request up in all of them, one after the other.                  *)
(***************************************************************************)
EXTENDS Naturals, Sequences, FiniteSets

CONSTANTS
    Nodes, Requests, Workers,
    Hashes,      \* the positions of the ring, an interval of Nat
    Hash,        \* [Nodes -> sequence of the positions of its replicas]
    RequestHash, \* [Requests -> Hashes], that of its path
    Ruled,       \* [Requests -> the nodes that the rules name for its criteria]
    CacheSize, FailoverThreshold, MaxFailures, RecoveryThreshold,
    MaxBalanced  \* bound: AddNode is not called with a longer list

VARIABLES
    balanced,    \* loadBalancer.nodes
    ring,        \* consistentHash.hashRing
    sorted,      \* consistentHash.sortedHashes: how often each position is in it
    known,       \* multidimRouter.nodes
    editing,     \* AddNode and RemoveNode between balancer and multidimensional router
    unhealthy, failures, successes,
    cache,       \* OptimizedRouteCache.entries: request -> its route
    older,       \* the order of the AccessTimes of its entries
    work         \* what each worker of the router does

vars == <<balanced, ring, sorted, known, editing, unhealthy, failures, successes, cache, older, work>>
cacheVars == <<cache, older>>
nodeVars == <<balanced, ring, sorted, known, editing>>
healthVars == <<unhealthy, failures, successes>>

Counts == 0..(IF MaxFailures > RecoveryThreshold THEN MaxFailures ELSE RecoveryThreshold)
Route == [node : Nodes, fresh : BOOLEAN]
Cached == DOMAIN cache
Idle == [stage |-> "idle"]
Work == {Idle} \cup [stage : {"dimensions", "balance"}, request : Requests]
               \cup [stage : {"put"}, request : Requests, node : Nodes]

TypeOK ==
    /\ balanced \in Seq(Nodes)
    /\ DOMAIN ring \subseteq Hashes /\ \A h \in DOMAIN ring : ring[h] \in Nodes
    /\ sorted \in [Hashes -> Nat]
    /\ known \subseteq Nodes /\ unhealthy \subseteq Nodes
    /\ editing \in [Nodes -> {"none", "adding", "removing"}]
    /\ failures \in [Nodes -> Counts] /\ successes \in [Nodes -> Counts]
    /\ cache \in [Cached -> Route] /\ Cached \subseteq Requests
    /\ Cardinality(Cached) <= CacheSize /\ older \subseteq Cached \X Cached
    /\ work \in [Workers -> Work]

Init ==
    /\ balanced = <<>> /\ ring = <<>> /\ sorted = [h \in Hashes |-> 0]
    /\ known = {} /\ editing = [n \in Nodes |-> "none"]
    /\ unhealthy = {} /\ failures = [n \in Nodes |-> 0] /\ successes = [n \in Nodes |-> 0]
    /\ cache = <<>> /\ older = {} /\ work = [w \in Workers |-> Idle]
-----------------------------------------------------------------------------
Replicas(n) == {Hash[n][i] : i \in 1..Len(Hash[n])}
Times(n, h) == Cardinality({i \in 1..Len(Hash[n]) : Hash[n][i] = h})

\* loadBalancer.AddNode does not ask whether the node is there already.
BalancerAdd(n) ==
    /\ editing[n] = "none" /\ Len(balanced) < MaxBalanced
    /\ balanced' = Append(balanced, n)
    /\ ring' = [h \in DOMAIN ring \cup Replicas(n) |-> IF h \in Replicas(n) THEN n ELSE ring[h]]
    /\ sorted' = [h \in Hashes |-> sorted[h] + Times(n, h)]
    /\ editing' = [editing EXCEPT ![n] = "adding"]
    /\ UNCHANGED <<known, healthVars, cacheVars, work>>

FirstOf(n) == CHOOSE i \in 1..Len(balanced) :
                balanced[i] = n /\ \A j \in 1..(i - 1) : balanced[j] # n

WithoutFirst(n) ==
    IF \E i \in 1..Len(balanced) : balanced[i] = n
    THEN SubSeq(balanced, 1, FirstOf(n) - 1) \o SubSeq(balanced, FirstOf(n) + 1, Len(balanced))
    ELSE balanced

\* Mutant: the ring forgets the first replica only.
RingWithoutFirst(n) == [h \in DOMAIN ring \ {Hash[n][1]} |-> ring[h]]

RingWithout(n) == [h \in DOMAIN ring \ Replicas(n) |-> ring[h]]

BalancerRemove(n) ==
    /\ editing[n] = "none"
    /\ balanced' = WithoutFirst(n)
    /\ ring' = RingWithout(n)
    /\ sorted' = [h \in Hashes |-> IF sorted[h] > Times(n, h) THEN sorted[h] - Times(n, h) ELSE 0]
    /\ editing' = [editing EXCEPT ![n] = "removing"]
    /\ UNCHANGED <<known, healthVars, cacheVars, work>>

\* multidimRouter.AddNode and RemoveNode; no cached route is taken back.
DimensionsFollow(n) ==
    /\ editing[n] # "none"
    /\ known' = IF editing[n] = "adding" THEN known \cup {n} ELSE known \ {n}
    /\ editing' = [editing EXCEPT ![n] = "none"]
    /\ UNCHANGED <<balanced, ring, sorted, healthVars, cacheVars, work>>
-----------------------------------------------------------------------------
\* What is written to FailureCount and SuccessCount from outside.
Report(n) ==
    /\ \/ /\ failures[n] + 1 \in Counts /\ failures' = [failures EXCEPT ![n] = @ + 1]
          /\ UNCHANGED successes
       \/ /\ successes[n] + 1 \in Counts /\ successes' = [successes EXCEPT ![n] = @ + 1]
          /\ UNCHANGED failures
    /\ UNCHANGED <<nodeVars, unhealthy, cacheVars, work>>

InBalancer == {balanced[i] : i \in 1..Len(balanced)}

\* performHealthCheck of the router, over the balancer's nodes.
RouterHealthCheck ==
    /\ LET failed == {n \in InBalancer : failures[n] >= FailoverThreshold}
           better == {n \in InBalancer \ failed : successes[n] > failures[n]}
       IN unhealthy' = (unhealthy \cup failed) \ better
    /\ UNCHANGED <<nodeVars, failures, successes, cacheVars, work>>

\* performHealthCheck of the multidimensional router: the node is the same object.
DimensionsHealthCheck ==
    /\ LET failed == {n \in known : failures[n] >= MaxFailures}
           better == {n \in known \ failed : n \in unhealthy /\ successes[n] >= RecoveryThreshold}
       IN /\ unhealthy' = (unhealthy \cup failed) \ better
          /\ failures' = [n \in Nodes |-> IF n \in better THEN 0 ELSE failures[n]]
    /\ UNCHANGED <<nodeVars, successes, cacheVars, work>>
-----------------------------------------------------------------------------
\* The order among the entries kept, once r was used.
Used(kept, r) == (older \cap ((kept \ {r}) \X (kept \ {r}))) \cup ((kept \ {r}) \X {r})

\* A hit answers the request and makes the entry the last used.
CacheGet(w, r) ==
    /\ work[w] = Idle
    /\ IF r \in Cached /\ cache[r].fresh
       THEN older' = Used(Cached, r) /\ UNCHANGED work
       ELSE work' = [work EXCEPT ![w] = [stage |-> "dimensions", request |-> r]] /\ UNCHANGED older
    /\ UNCHANGED <<nodeVars, healthVars, cache>>

\* multidimRouter.SelectNode: any healthy node that the rules name, by the strategy.
DimensionsSelect(w) ==
    /\ work[w].stage = "dimensions"
    /\ LET candidates == (known \cap Ruled[work[w].request]) \ unhealthy IN
        IF candidates = {}
        THEN work' = [work EXCEPT ![w].stage = "balance"]
        ELSE \E n \in candidates :
                work' = [work EXCEPT ![w] = [stage |-> "put", request |-> @.request, node |-> n]]
    /\ UNCHANGED <<nodeVars, healthVars, cacheVars>>

\* The next hash of sortedHashes, around the ring; it may no longer name a node.
NextHash(h) ==
    LET after == {g \in Hashes : sorted[g] > 0 /\ g >= h}
        any   == IF after # {} THEN after ELSE {g \in Hashes : sorted[g] > 0}
    IN {g \in any : \A f \in any : g <= f}
RingGet(h) == {ring[g] : g \in NextHash(h) \cap DOMAIN ring}

FirstHealthy ==
    {balanced[i] : i \in {k \in 1..Len(balanced) :
        balanced[k] \notin unhealthy /\ \A j \in 1..(k - 1) : balanced[j] \in unhealthy}}

\* loadBalancer.SelectNode: the ring's node, else the first (ConsistentHashStrategy);
\* or any, by the other strategies.  Without a healthy node the request fails.
BalancerSelect(w) ==
    /\ work[w].stage = "balance"
    /\ LET candidates == InBalancer \ unhealthy
           named == RingGet(RequestHash[work[w].request]) \cap candidates
           chosen == IF named # {} THEN named ELSE FirstHealthy
       IN IF candidates = {} THEN work' = [work EXCEPT ![w] = Idle]
          ELSE \E n \in chosen \cup candidates :
                work' = [work EXCEPT ![w] = [stage |-> "put", request |-> @.request, node |-> n]]
    /\ UNCHANGED <<nodeVars, healthVars, cacheVars>>

\* evictLRU.
LeastUsed == {q \in Cached : \A p \in Cached : <<p, q>> \notin older}

\* A full cache loses its least recently used entry, also when the request has one.
CachePut(w) ==
    /\ work[w].stage = "put"
    /\ \E lost \in IF Cardinality(Cached) >= CacheSize THEN {{q} : q \in LeastUsed} ELSE {{}} :
        LET r == work[w].request
            kept == Cached \ lost
        IN /\ cache' = [q \in kept \cup {r} |->
                            IF q = r THEN [node |-> work[w].node, fresh |-> TRUE] ELSE cache[q]]
           /\ older' = Used(kept, r)
    /\ work' = [work EXCEPT ![w] = Idle]
    /\ UNCHANGED <<nodeVars, healthVars>>

CacheExpire ==
    /\ \E r \in Cached : cache[r].fresh /\ cache' = [cache EXCEPT ![r].fresh = FALSE]
    /\ UNCHANGED <<nodeVars, healthVars, older, work>>

CacheCleanup ==
    /\ LET kept == {r \in Cached : cache[r].fresh} IN
        /\ kept # Cached /\ cache' = [r \in kept |-> cache[r]]
        /\ older' = older \cap (kept \X kept)
    /\ UNCHANGED <<nodeVars, healthVars, work>>

Next ==
    \/ \E n \in Nodes : BalancerAdd(n) \/ BalancerRemove(n) \/ DimensionsFollow(n) \/ Report(n)
    \/ \E w \in Workers :
        \/ \E r \in Requests : CacheGet(w, r)
        \/ DimensionsSelect(w) \/ BalancerSelect(w) \/ CachePut(w)
    \/ RouterHealthCheck \/ DimensionsHealthCheck \/ CacheExpire \/ CacheCleanup
-----------------------------------------------------------------------------
(* Whatever nodes are added, added again and removed, and whichever of     *)
(* their hashes collide, a position of the ring names a node that the      *)
(* balancer has, and is among the sorted hashes that a lookup searches;    *)
(* and balancer and multidimensional router know the same nodes but for    *)
(* those being edited and those that were added twice and removed once.    *)
RingAgrees ==
    /\ \A h \in DOMAIN ring : ring[h] \in InBalancer /\ sorted[h] > 0
    /\ \A n \in Nodes : editing[n] = "none" =>
        (n \in known => n \in InBalancer)
=============================================================================
