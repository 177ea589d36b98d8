------------------------- MODULE UnifiedBufferPool --------------------------
(***************************************************************************)
(* pkg/buffer/unified_pool.go: a lock-free list of free buffers in front   *)
(* of a sync.Pool.  Every atomic instruction of Get and Put is a step of   *)
(* its own, so the counter lags behind the list, and the test of Put       *)
(* against maxPoolSize is stale by the time the node is linked.            *)
(*                                                                         *)
(* A list node is garbage collected: its address is used again only when   *)
(* neither the list nor a local variable of a goroutine refers to it.      *)
(***************************************************************************)
EXTENDS Integers, FiniteSets, TLC

CONSTANTS
    Procs,         \* goroutines calling Get, Put and PreAllocate
    Buffers,       \* the BytesBuffers that can exist
    Nodes,         \* addresses of bufferNodes
    Nil,           \* the nil pointer
    MaxPoolSize,   \* p.maxPoolSize
    Word           \* 2^64 in the code: count wraps modulo Word

ASSUME PoolAssumption ==
    /\ IsFiniteSet(Procs) /\ IsFiniteSet(Nodes)
    /\ Nil \notin Nodes /\ Nil \notin Buffers
    /\ MaxPoolSize \in Nat \ {0}
    /\ Word \in Nat /\ Word > MaxPoolSize + 2 * Cardinality(Procs)

VARIABLES
    head,      \* p.head
    next,      \* next field of each node
    buf,       \* buf field of each node
    count,     \* p.count
    linked,    \* nodes that Put's CAS linked and no Get's CAS unlinked (history)
    syncPool,  \* buffers lying in the sync.Pool
    owned,     \* buffers each goroutine got and did not put back
    pc,        \* the next atomic instruction of each goroutine
    arg,       \* the buffer of its Put in progress
    node,      \* its local newNode
    cur,       \* its local currentHead
    nextNode   \* its local nextNode, in Get

vars == <<head, next, buf, count, linked, syncPool, owned, pc, arg, node, cur, nextNode>>

Labels == {"idle", "getLoad", "getCas", "getDec",
           "putTest", "putLoad", "putCas", "putInc"}

TypeOK ==
    /\ head \in Nodes \cup {Nil}
    /\ next \in [Nodes -> Nodes \cup {Nil}]
    /\ buf \in [Nodes -> Buffers \cup {Nil}]
    /\ count \in 0..(Word - 1)
    /\ linked \subseteq Nodes
    /\ syncPool \subseteq Buffers
    /\ owned \in [Procs -> SUBSET Buffers]
    /\ pc \in [Procs -> Labels]
    /\ arg \in [Procs -> Buffers \cup {Nil}]
    /\ node \in [Procs -> Nodes \cup {Nil}]
    /\ cur \in [Procs -> Nodes \cup {Nil}]
    /\ nextNode \in [Procs -> Nodes \cup {Nil}]

InList == {buf[n] : n \in linked}
Held   == UNION {owned[p] : p \in Procs}
InPut  == {arg[p] : p \in Procs} \ {Nil}
\* Buffers the next make() may return: those nobody refers to.
Unmade == Buffers \ (InList \cup Held \cup InPut \cup syncPool)

\* Mutant: a node's address is reused while a goroutine still refers to it.
FreeUncollected == Nodes \ (linked \cup {node[p] : p \in Procs})

\* Addresses the next &bufferNode{} may return.
Free   == Nodes \ (linked \cup {cur[p] : p \in Procs} \cup {node[p] : p \in Procs})

Init ==
    /\ head = Nil
    /\ next = [n \in Nodes |-> Nil]
    /\ buf = [n \in Nodes |-> Nil]
    /\ count = 0
    /\ linked = {}
    /\ syncPool = {}
    /\ owned = [p \in Procs |-> {}]
    /\ pc = [p \in Procs |-> "idle"]
    /\ arg = [p \in Procs |-> Nil]
    /\ node = [p \in Procs |-> Nil]
    /\ cur = [p \in Procs |-> Nil]
    /\ nextNode = [p \in Procs |-> Nil]

Step(p, from, to) == pc[p] \in from /\ pc' = [pc EXCEPT ![p] = to]
-----------------------------------------------------------------------------
(* Get.  The load of p.head and the read of currentHead.next are one step: *)
(* the next field of a node is not written after it was linked.            *)

GetLoad(p) ==
    /\ head # Nil
    /\ Step(p, {"idle", "getLoad"}, "getCas")
    /\ cur' = [cur EXCEPT ![p] = head]
    /\ nextNode' = [nextNode EXCEPT ![p] = next[head]]
    /\ UNCHANGED <<head, next, buf, count, linked, syncPool, owned, arg, node>>

\* The list is empty: sync.Pool gives one of its buffers or makes one.
GetFromSyncPool(p) ==
    /\ head = Nil
    /\ Step(p, {"idle", "getLoad"}, "idle")
    /\ \E b \in syncPool \cup Unmade :
        /\ owned' = [owned EXCEPT ![p] = @ \cup {b}]
        /\ syncPool' = syncPool \ {b}
    /\ UNCHANGED <<head, next, buf, count, linked, arg, node, cur, nextNode>>

GetCasWins(p) ==
    /\ head = cur[p]
    /\ Step(p, {"getCas"}, "getDec")
    /\ head' = nextNode[p]
    /\ linked' = linked \ {cur[p]}
    /\ owned' = [owned EXCEPT ![p] = @ \cup {buf[cur[p]]}]
    /\ cur' = [cur EXCEPT ![p] = Nil]
    /\ nextNode' = [nextNode EXCEPT ![p] = Nil]
    /\ UNCHANGED <<next, buf, count, syncPool, arg, node>>

GetCasLoses(p) ==
    /\ head # cur[p]
    /\ Step(p, {"getCas"}, "getLoad")
    /\ cur' = [cur EXCEPT ![p] = Nil]
    /\ nextNode' = [nextNode EXCEPT ![p] = Nil]
    /\ UNCHANGED <<head, next, buf, count, linked, syncPool, owned, arg, node>>

\* Mutants: a counter below zero; a counter that stops at zero.
GetDecSigned(p) ==
    /\ Step(p, {"getDec"}, "idle")
    /\ count' = count - 1
    /\ UNCHANGED <<head, next, buf, linked, syncPool, owned, arg, node, cur, nextNode>>

GetDecSaturating(p) ==
    /\ Step(p, {"getDec"}, "idle")
    /\ count' = IF count = 0 THEN 0 ELSE count - 1
    /\ UNCHANGED <<head, next, buf, linked, syncPool, owned, arg, node, cur, nextNode>>

GetDec(p) ==
    /\ Step(p, {"getDec"}, "idle")
    /\ count' = IF count = 0 THEN Word - 1 ELSE count - 1
    /\ UNCHANGED <<head, next, buf, linked, syncPool, owned, arg, node, cur, nextNode>>
-----------------------------------------------------------------------------
(* Put, and PreAllocate, which puts a buffer of its own making.            *)

Put(p, b) ==
    /\ b \in owned[p]
    /\ Step(p, {"idle"}, "putTest")
    /\ arg' = [arg EXCEPT ![p] = b]
    /\ owned' = [owned EXCEPT ![p] = @ \ {b}]
    /\ UNCHANGED <<head, next, buf, count, linked, syncPool, node, cur, nextNode>>

\* int(count): a counter below zero is below maxPoolSize here, not in Put.
AsInt(n) == IF n >= Word \div 2 THEN n - Word ELSE n

PreAllocate(p) ==
    /\ AsInt(count) < MaxPoolSize
    /\ Step(p, {"idle"}, "putTest")
    /\ \E b \in Unmade : arg' = [arg EXCEPT ![p] = b]
    /\ UNCHANGED <<head, next, buf, count, linked, syncPool, owned, node, cur, nextNode>>

\* Mutant: <= for <.
PutTestRoomInclusive(p) ==
    /\ count <= MaxPoolSize
    /\ Step(p, {"putTest"}, "putLoad")
    /\ \E n \in Free :
        /\ node' = [node EXCEPT ![p] = n]
        /\ buf' = [buf EXCEPT ![n] = arg[p]]
        /\ next' = [next EXCEPT ![n] = Nil]
    /\ UNCHANGED <<head, count, linked, syncPool, owned, arg, cur, nextNode>>

PutTestRoom(p) ==
    /\ count < MaxPoolSize
    /\ Step(p, {"putTest"}, "putLoad")
    /\ \E n \in Free :
        /\ node' = [node EXCEPT ![p] = n]
        /\ buf' = [buf EXCEPT ![n] = arg[p]]
        /\ next' = [next EXCEPT ![n] = Nil]
    /\ UNCHANGED <<head, count, linked, syncPool, owned, arg, cur, nextNode>>

PutTestFull(p) ==
    /\ count >= MaxPoolSize
    /\ Step(p, {"putTest"}, "idle")
    /\ syncPool' = syncPool \cup {arg[p]}
    /\ arg' = [arg EXCEPT ![p] = Nil]
    /\ UNCHANGED <<head, next, buf, count, linked, owned, node, cur, nextNode>>

PutLoad(p) ==
    /\ Step(p, {"putLoad"}, "putCas")
    /\ cur' = [cur EXCEPT ![p] = head]
    /\ next' = [next EXCEPT ![node[p]] = head]
    /\ UNCHANGED <<head, buf, count, linked, syncPool, owned, arg, node, nextNode>>

\* Mutant: a store in place of the CAS.
PutCasBlind(p) ==
    /\ Step(p, {"putCas"}, "putInc")
    /\ head' = node[p]
    /\ linked' = linked \cup {node[p]}
    /\ arg' = [arg EXCEPT ![p] = Nil]
    /\ node' = [node EXCEPT ![p] = Nil]
    /\ cur' = [cur EXCEPT ![p] = Nil]
    /\ UNCHANGED <<next, buf, count, syncPool, owned, nextNode>>

PutCasWins(p) ==
    /\ head = cur[p]
    /\ Step(p, {"putCas"}, "putInc")
    /\ head' = node[p]
    /\ linked' = linked \cup {node[p]}
    /\ arg' = [arg EXCEPT ![p] = Nil]
    /\ node' = [node EXCEPT ![p] = Nil]
    /\ cur' = [cur EXCEPT ![p] = Nil]
    /\ UNCHANGED <<next, buf, count, syncPool, owned, nextNode>>

PutCasLoses(p) ==
    /\ head # cur[p]
    /\ Step(p, {"putCas"}, "putLoad")
    /\ cur' = [cur EXCEPT ![p] = Nil]
    /\ UNCHANGED <<head, next, buf, count, linked, syncPool, owned, arg, node, nextNode>>

PutInc(p) ==
    /\ Step(p, {"putInc"}, "idle")
    /\ count' = IF count = Word - 1 THEN 0 ELSE count + 1
    /\ UNCHANGED <<head, next, buf, linked, syncPool, owned, arg, node, cur, nextNode>>

\* The garbage collector empties a sync.Pool when it likes.
CollectSynced(b) ==
    /\ b \in syncPool
    /\ syncPool' = syncPool \ {b}
    /\ UNCHANGED <<head, next, buf, count, linked, owned, pc, arg, node, cur, nextNode>>

GetStep(p) ==
    GetLoad(p) \/ GetFromSyncPool(p) \/ GetCasWins(p) \/ GetCasLoses(p) \/ GetDec(p)

PutStep(p) ==
    \/ PutTestRoom(p) \/ PutTestFull(p) \/ PutLoad(p)
    \/ PutCasWins(p) \/ PutCasLoses(p) \/ PutInc(p)

Next ==
    \/ \E p \in Procs : GetStep(p) \/ PutStep(p) \/ PreAllocate(p)
    \/ \E p \in Procs, b \in Buffers : Put(p, b)
    \/ \E b \in Buffers : CollectSynced(b)

Spec == Init /\ [][Next]_vars
-----------------------------------------------------------------------------
AtPc(labels) == {p \in Procs : pc[p] \in labels}

(* No buffer is in two hands: not in two nodes of the list, not held by    *)
(* two goroutines, not free and held at once.  Two goroutines that load    *)
(* the same head must not both obtain its buffer, whatever is pushed and   *)
(* popped between their load and their CAS.                                *)
SingleOwner ==
    /\ \A m, n \in linked : buf[m] = buf[n] => m = n
    /\ \A p, q \in Procs :
        p # q => owned[p] \cap owned[q] = {} /\ (arg[p] = arg[q] => arg[p] = Nil)
    /\ InList \cap (Held \cup InPut \cup syncPool) = {}
    /\ Held \cap (InPut \cup syncPool) = {}
    /\ InPut \cap syncPool = {}

(* The chain from p.head runs through the linked nodes and no other: the   *)
(* head and the next fields never lead to an unlinked or unpublished node, *)
(* and no node is reached along two ways.                                  *)
ListIntact ==
    /\ head \in linked \cup {Nil}
    /\ \A n \in linked : next[n] = Nil \/ next[n] \in linked \ {head}
    /\ \A m, n \in linked : next[m] = next[n] /\ next[m] # Nil => m = n

\* The nodes on the chain from p.head, followed for at most |Nodes| links.
Chain ==
    LET walk[k \in 0..Cardinality(Nodes)] ==
            IF k = 0 THEN {head} \ {Nil}
            ELSE walk[k - 1] \cup ({next[n] : n \in walk[k - 1]} \ {Nil})
    IN  walk[Cardinality(Nodes)]

(* The list is intact, and its history variable is what it says: the       *)
(* linked nodes are the nodes that a reader of p.head reaches.             *)
ListIsChain == ListIntact /\ linked = Chain

Length == Cardinality(linked)
Incs   == Cardinality(AtPc({"putInc"}))              \* additions outstanding
Decs   == Cardinality(AtPc({"getDec"}))              \* subtractions outstanding
Puts   == Cardinality(AtPc({"putLoad", "putCas"}))   \* Puts past their test

\* What the counter would be if it were a signed integer.
Signed == Length - Incs + Decs

(* p.count differs from the length of the list by exactly the operations   *)
(* that changed the list and have not updated the counter yet: it is short *)
(* of the Puts and ahead of the Gets between their CAS and their add, and  *)
(* it is 2^64 - k when the Puts prevail.  Count(), which the comment at    *)
(* unified_pool.go:137 says "returns the current number" of buffers,       *)
(* returns that.                                                           *)
CountAccounted == count = IF Signed < 0 THEN Signed + Word ELSE Signed

(* maxPoolSize is a soft limit: N concurrent Puts overrun it by at most    *)
(* N - 1 buffers.                                                          *)
OverrunBounded == Length + Puts <= MaxPoolSize + Cardinality(Procs) - 1

\* For the runs: goroutines, buffers and nodes are alike.
Symmetry == Permutations(Procs) \cup Permutations(Buffers) \cup Permutations(Nodes)
=============================================================================
