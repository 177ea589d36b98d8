------------------------- MODULE ProtocolProcessor --------------------------
(***************************************************************************)
(* core/performance/performance_tuner.go: connections become tasks, which  *)
(* are batched or queued, run by workers or, when the queue is full, by a  *)
(* goroutine of their own, and answered; a cache of protocols by opening   *)
(* bytes overrides what the detector found.                                *)
(***************************************************************************)
EXTENDS Naturals, Sequences, FiniteSets

CONSTANTS
    Tasks,      \* calls of ProcessConnection, one connection each
    Workers,
    Keys,       \* the first 64 bytes of a connection
    NoData,     \* "", the key when no data came with the connection
    Protocols,  \* those with a handler
    BatchSize, QueueSize, CacheSize,
    MaxChanges  \* bound: calls of Start and UpdateConfig

VARIABLES
    status,    \* of the processor; "panicked" ends the program
    stopOpen,  \* the stop channels are not closed
    batching,  \* config.EnableBatching
    ticker,    \* batchProcessor runs
    changes,
    caller,    \* what ProcessConnection does for each task
    opening,   \* task.Data
    protocol,  \* task.Protocol
    batch, queue,
    worker,    \* the task of a worker, or what it does without one
    direct,    \* tasks with a goroutine of their own
    answered,  \* ResultChan holds a result
    handled,   \* calls of Handle per connection
    cache      \* oldest first

vars == <<status, stopOpen, batching, ticker, changes, caller, opening, protocol,
          batch, queue, worker, direct, answered, handled, cache>>
runVars  == <<status, stopOpen, batching, ticker, changes>>
callVars == <<caller, opening, protocol>>
workVars == <<worker, direct, answered, handled, cache>>

NoWork == {"off", "free", "exited"}
Entry == [key : Keys, protocol : Protocols, fresh : BOOLEAN]
IsEntries(c) == Len(c) <= Cardinality(Keys) /\ \A i \in 1..Len(c) : c[i] \in Entry

TypeOK ==
    /\ status \in {"new", "running", "stopped", "panicked"}
    /\ stopOpen \in BOOLEAN /\ batching \in BOOLEAN /\ ticker \in BOOLEAN
    /\ changes \in 0..MaxChanges
    /\ caller \in [Tasks -> {"idle", "entered", "waiting", "returned"}]
    /\ opening \in [Tasks -> Keys] /\ protocol \in [Tasks -> Protocols \cup {"unknown"}]
    /\ batch \in Seq(Tasks) /\ Len(batch) < BatchSize
    /\ queue \in Seq(Tasks) /\ Len(queue) <= QueueSize
    /\ worker \in [Workers -> Tasks \cup NoWork] /\ direct \subseteq Tasks
    /\ answered \subseteq Tasks /\ handled \in [Tasks -> Nat]
    /\ IsEntries(cache)

Init ==
    /\ status = "new" /\ stopOpen = TRUE
    /\ batching \in BOOLEAN /\ ticker = FALSE /\ changes = 0
    /\ caller = [t \in Tasks |-> "idle"]
    /\ opening = [t \in Tasks |-> NoData] /\ protocol = [t \in Tasks |-> "unknown"]
    /\ batch = <<>> /\ queue = <<>>
    /\ worker = [w \in Workers |-> "off"] /\ direct = {}
    /\ answered = {} /\ handled = [t \in Tasks |-> 0]
    /\ cache = <<>>
-----------------------------------------------------------------------------
Start ==
    /\ status \in {"new", "stopped"} /\ changes < MaxChanges
    /\ status' = "running" /\ changes' = changes + 1
    /\ ticker' = batching
    /\ worker' = [w \in Workers |-> IF worker[w] \in NoWork THEN "free" ELSE worker[w]]
    /\ UNCHANGED <<stopOpen, batching, callVars, batch, queue, direct, answered, handled, cache>>

\* The stop channels are made once, so the Stop after a second Start panics.
Stop ==
    /\ status = "running"
    /\ status' = IF stopOpen THEN "stopped" ELSE "panicked"
    /\ stopOpen' = FALSE
    /\ UNCHANGED <<batching, ticker, changes, callVars, batch, queue, workVars>>

UpdateConfig ==
    /\ changes < MaxChanges /\ changes' = changes + 1
    /\ batching' = ~batching
    /\ UNCHANGED <<status, stopOpen, ticker, callVars, batch, queue, workVars>>
-----------------------------------------------------------------------------
CacheIndex(k) == {i \in 1..Len(cache) : cache[i].key = k}
Cached(k) == {cache[i].protocol : i \in {j \in CacheIndex(k) : cache[j].fresh}}

\* ProcessConnection up to SelectProcessor; p is what the detector found.
Enter(t, k, p) ==
    /\ caller[t] = "idle"
    /\ LET known == Cached(k) \cup (IF Cached(k) = {} THEN {p} ELSE {})
           proceeds == status = "running" /\ known # {"unknown"}
       IN /\ caller' = [caller EXCEPT ![t] = IF proceeds THEN "entered" ELSE "returned"]
          /\ \E q \in known : protocol' = [protocol EXCEPT ![t] = q]
    /\ opening' = [opening EXCEPT ![t] = k]
    /\ UNCHANGED <<runVars, batch, queue, workVars>>

Fit(tasks) == IF Len(tasks) <= QueueSize - Len(queue) THEN Len(tasks) ELSE QueueSize - Len(queue)

\* Mutant: the tasks that do not fit are dropped.
DispatchDropping(tasks) ==
    queue' = queue \o SubSeq(tasks, 1, Fit(tasks)) /\ UNCHANGED direct

\* processBatch: as many as fit go to the queue, the others get goroutines.
Dispatch(tasks) ==
    /\ queue' = queue \o SubSeq(tasks, 1, Fit(tasks))
    /\ direct' = direct \cup {tasks[i] : i \in (Fit(tasks) + 1)..Len(tasks)}

SubmitBatchTask(t) ==
    /\ caller[t] = "entered" /\ batching
    /\ caller' = [caller EXCEPT ![t] = "waiting"]
    /\ IF Len(batch) + 1 >= BatchSize
       THEN batch' = <<>> /\ Dispatch(Append(batch, t))
       ELSE batch' = Append(batch, t) /\ UNCHANGED <<queue, direct>>
    /\ UNCHANGED <<runVars, opening, protocol, worker, answered, handled, cache>>

\* A task that finds the queue full is answered with an error.
SubmitTask(t) ==
    /\ caller[t] = "entered" /\ ~batching
    /\ caller' = [caller EXCEPT ![t] = "waiting"]
    /\ IF Len(queue) < QueueSize
       THEN queue' = Append(queue, t) /\ UNCHANGED answered
       ELSE answered' = answered \cup {t} /\ UNCHANGED queue
    /\ UNCHANGED <<runVars, opening, protocol, batch, worker, direct, handled, cache>>

\* With the result, or after config.Timeout without one.
Return(t) ==
    /\ caller[t] = "waiting"
    /\ caller' = [caller EXCEPT ![t] = "returned"]
    /\ answered' = answered \ {t}
    /\ UNCHANGED <<runVars, opening, protocol, batch, queue, worker, direct, handled, cache>>
-----------------------------------------------------------------------------
BatchTick ==
    /\ ticker /\ batch # <<>>
    /\ batch' = <<>> /\ Dispatch(batch)
    /\ UNCHANGED <<runVars, callVars, worker, answered, handled, cache>>

BatchExits ==
    /\ ticker /\ ~stopOpen /\ ticker' = FALSE
    /\ UNCHANGED <<status, stopOpen, batching, changes, callVars, batch, queue, workVars>>

WorkerTakes(w) ==
    /\ worker[w] = "free" /\ queue # <<>>
    /\ worker' = [worker EXCEPT ![w] = Head(queue)] /\ queue' = Tail(queue)
    /\ UNCHANGED <<runVars, callVars, batch, direct, answered, handled, cache>>

WorkerExits(w) ==
    /\ worker[w] = "free" /\ ~stopOpen
    /\ worker' = [worker EXCEPT ![w] = "exited"]
    /\ UNCHANGED <<runVars, callVars, batch, queue, direct, answered, handled, cache>>

Place(k, c) == CHOOSE i \in 1..Len(c) : c[i].key = k
Others(k, c) ==
    IF \A i \in 1..Len(c) : c[i].key # k THEN c
    ELSE SubSeq(c, 1, Place(k, c) - 1) \o SubSeq(c, Place(k, c) + 1, Len(c))

\* Mutant: an entry is not made room for.
CachedUnbounded(k, p) == Append(Others(k, cache), [key |-> k, protocol |-> p, fresh |-> TRUE])

\* updateCache deletes the oldest entry of a full cache unless its key is empty.
CachedAfter(k, p) ==
    LET full == Len(cache) >= CacheSize
        kept == IF full /\ cache[1].key # NoData THEN Tail(cache) ELSE cache
    IN Append(Others(k, kept), [key |-> k, protocol |-> p, fresh |-> TRUE])

\* processTask: Handle, the cache, the result.
ProcessTask(t) ==
    /\ handled' = [handled EXCEPT ![t] = @ + 1]
    /\ cache' = CachedAfter(opening[t], protocol[t])
    /\ answered' = IF caller[t] = "returned" THEN answered ELSE answered \cup {t}

WorkerProcesses(w) ==
    /\ worker[w] \in Tasks
    /\ ProcessTask(worker[w])
    /\ worker' = [worker EXCEPT ![w] = "free"]
    /\ UNCHANGED <<runVars, callVars, batch, queue, direct>>

DirectProcesses(t) ==
    /\ t \in direct /\ direct' = direct \ {t}
    /\ ProcessTask(t)
    /\ UNCHANGED <<runVars, callVars, batch, queue, worker>>

\* Time passes: the oldest fresh entry outlives config.CacheTTL.
Age ==
    /\ \E i \in 1..Len(cache) :
        /\ cache[i].fresh /\ \A j \in 1..(i - 1) : ~cache[j].fresh
        /\ cache' = [cache EXCEPT ![i] = [key |-> @.key, protocol |-> @.protocol, fresh |-> FALSE]]
    /\ UNCHANGED <<runVars, callVars, batch, queue, worker, direct, answered, handled>>

\* The oldest n have expired.
CleanExpiredCache ==
    /\ \E n \in 1..Len(cache) :
        /\ \A i \in 1..Len(cache) : cache[i].fresh <=> i > n
        /\ cache' = SubSeq(cache, n + 1, Len(cache))
    /\ UNCHANGED <<runVars, callVars, batch, queue, worker, direct, answered, handled>>

Next ==
    /\ status # "panicked"
    /\ \/ Start \/ Stop \/ UpdateConfig \/ BatchTick \/ BatchExits \/ Age \/ CleanExpiredCache
       \/ \E t \in Tasks :
            \/ \E k \in Keys, p \in Protocols \cup {"unknown"} : Enter(t, k, p)
            \/ SubmitBatchTask(t) \/ SubmitTask(t) \/ Return(t) \/ DirectProcesses(t)
       \/ \E w \in Workers : WorkerTakes(w) \/ WorkerExits(w) \/ WorkerProcesses(w)
-----------------------------------------------------------------------------
Places(t) ==
    Cardinality({i \in 1..Len(batch) : batch[i] = t}) + Cardinality({i \in 1..Len(queue) : queue[i] = t})
    + Cardinality({w \in Workers : worker[w] = t}) + (IF t \in direct THEN 1 ELSE 0)

(* A connection whose caller waits is in one place - batch, queue, worker  *)
(* or a goroutine of its own - or answered; and it is handled once, in the *)
(* end, even when its caller has given up.                                 *)
HeldOnce ==
    \A t \in Tasks :
        /\ Places(t) + handled[t] <= 1
        /\ caller[t] = "waiting" => Places(t) = 1 \/ t \in answered

(* The cache keeps its size, until a connection without initial data has   *)
(* been handled: its entry is never the one deleted, and once it is the    *)
(* oldest the cache grows.                                                 *)
CacheBounded ==
    Len(cache) > CacheSize => \E t \in Tasks : opening[t] = NoData /\ handled[t] = 1

(* Connections are held once and the cache is bounded.                     *)
TasksAndCache == HeldOnce /\ CacheBounded
=============================================================================
