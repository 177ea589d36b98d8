# muxcore in TLA+

muxcore (`src/README.md`) accepts HTTP, WebSocket, gRPC and custom protocols on
one port.  This directory holds TLA+ models of its components, the TLC
configurations that check them, and TLAPS proofs about them.  Paths below are
relative to `src/`.

* `<Component>.tla` – the component: state, one action per step of the code, properties.
* `MC*.tla` and `*.cfg` – the instances TLC checks.  Components that share nothing
  share a run: the MC module puts their variables side by side, the initial state chooses
  which one moves (`which`), and no step of one touches the others; a suite's property about a
  component is guarded by `which`.  The constants are in the cfg; those of the components nothing is proved
  about are definitions of the MC module.
* `<Module>_proofs.tla` – theorems and their proofs, about a component or about the suite `MC*` it is checked in.
* `PROJECT.json` – for every definition the lines it models, the runs, for every
  checked property a mutation of the code it catches, the hazards, the theorems.

```
tlc -config PathBusAndRouting.cfg MCPathBusAndRouting
tlapm MCPoolAndProtocols_proofs.tla
```

An operator under a comment that begins with *Mutant:* is a wrong variant of the definition
below it, used to see that a property notices; no specification uses it.

## 1. Inventory

### 1.1 How a connection travels

```
 client --> Listener.acceptLoop --> ConnectionPool.AddConnection
                  |  Submit
                  v
            GoroutinePool worker / overflow goroutine
                  |  ProtocolDetector.DetectProtocol   (buffers: UnifiedBufferPool, BufferedConn)
                  |     read, three detection layers
                  v
         ProcessorManager / handler map  --> HTTP | WebSocket | gRPC handler
                                               |  OptimizedRouter.RouteRequest (queues, cache, load balancer)
                                               |  CircuitBreaker, SecurityManager, Observability
```

The control plane (`core/control`) builds and starts the parts and stops
listener, router and observability again.  Everything runs in one process;
parts share memory under mutexes, use atomics (`pkg/buffer/unified_pool.go`) and Go
channels.  Nothing is persisted, so there is no crash recovery; failure means
timeouts, refused or failed calls, cancelled contexts and components stopped while in use.

### 1.2 Components

For each: state – operations – what is hard – what makes it correct.

**Modelled.**

| component | state | operations | hard | correct when |
|---|---|---|---|---|
| goroutine pool `core/pool/goroutine_pool.go` | task channel, worker wait group, context | Submit (queue, drop, or a goroutine of its own), worker loop, Shutdown | Submit races Shutdown; `select` picks any ready case; overflow goroutines are in no wait group | a task is in one place; queued tasks run while the pool is open; Shutdown returns, after which workers run nothing |
| unified buffer pool `pkg/buffer/unified_pool.go` | lock-free list, counter, `sync.Pool` | Get, Put, PreAllocate | ABA, the counter lags behind the list, capacity is tested before linking | one owner per buffer; list intact; counter explains the list; overrun bounded |
| circuit breaker `core/reliability/reliability_manager.go` | state, three failure counters, opening time | AllowRequest, Record*Failure, RecordSuccess | AllowRequest gives up its lock twice; half-open keeps the counters | only legal transitions; closed iff counters within thresholds; nobody admitted while open; open is left |
| router queue `core/router/enhanced_router.go` | request and result channel, workers, context | RouteRequest, worker loop, Stop | one result channel for all callers; two timeouts; Stop with a full channel | each request processed once; calls return; Stop ends the workers; own result |
| listener `core/listener/listener.go` | socket, context, accept loop | accept loop, Stop | Stop while a connection is between accept, pool and submit | no connection forgotten; Stop returns; no client shut out by silent ones |
| connection pool `core/pool/connection_pool.go` | map of connections | AddConnection, RemoveConnection, Close | removal closes; several closers | a pooled connection is open, a removed one closed once |
| protocol detector `core/detector/protocol_detector.go` | handler map, buffer of the connection | DetectProtocol | error paths, buffer handling, who closes | failed detections leave nothing behind; protocols are recognised |
| processor manager `core/handler/processor_manager.go` | groups, turn counters, two kinds of RWMutex | SelectProcessor, AddProcessor, RegisterHandler, metrics loop | nested locks in both orders, waiting writers block readers | turns distinct, shares even, selections return |
| control plane `core/control` | `state`, its own context, what runs in listener and router | Start, Stop, monitor loop | a Start that fails half-way; restart uses contexts that are cancelled for good | `state` says what runs; Stop returns and leaves no accept loop, monitor or socket |
| enhanced goroutine pool `core/pool/enhanced_pool.go` | task channel, workers, atomic counters, scaler | Submit, SubmitWithTimeout, worker loop, autoScaler, Shutdown | counters lag behind what they count; scaler goes by stale numbers; Shutdown waits under the lock a finishing task needs | counters explain the workers and tasks; at most MaxWorkers; Shutdown returns |
| enhanced connection pool `core/pool/enhanced_pool.go` | connections, grouping by protocol, counter | add, get, reclassify, remove, health check, clean-up, Close | three parties remove by stale snapshots | maps and counter agree; each connection is closed once |
| message bus `core/bus` (connections and subscriptions) | connections, subscriptions, index by topic, metrics | Register, Unregister, Subscribe, Unsubscribe, Publish, Broadcast, clean-up, Close | deliveries with retries go on while their targets are removed | index agrees with subscriptions; delivered means arrived; every publication counted |
| HTTP connection manager `core/pool/connection_manager.go` | limiter, writer pool, metrics | Handle, Start, Stop | panics on the way, a writer's mutex taken twice, keep-alive | slots and writers given back, no writer in two hands |
| WebSocket handler `core/protocols/websocket/handler.go` | limiter, connections, bus registration, heartbeats | Handle, handleWebSocket, heartbeat | refused connections, clean-up against heartbeat | slots accounted for; map and bus hold live connections only |
| gRPC handler `core/protocols/grpc/handler.go` | client connections, server | GetConnection, CloseConnection, CloseAll, Handle, RegisterService | double-checked dialling; a server made without a lock | no dialled connection forgotten |
| protocol processor `core/performance/performance_tuner.go` | batch, queue, workers, protocol cache | ProcessConnection, batching, Start, Stop, UpdateConfig | full queue, timeouts, stop with tasks queued | a task is held once and answered; the cache bounded |
| logger `pkg/logger` | event channel, processor, rolling file | log calls, Fatal, Stop, rotation | Fatal flushes beside the processor; rotation re-enters the mutex | Stop writes what was sent, in order |
| security manager `core/security/security_manager.go` | event channel, handlers, threshold | PublishEvent, UpdateSecurityLevel, the loops, Close | Close against Publish, loops that join the wait group late | nothing is handled after Close |
| connection checks `core/security/security_manager_enhanced.go` | tracked connections, blacklist, threats | CheckConnection, CheckData, IsBlocked, UnblockIP, clean-up, Stop | check-then-act over several locks | limit per address; a block lasts |
| DoS protector `core/security/dos_protection.go` | counts per fingerprint, blocks | CheckFingerprint, clean-up | the same | at most the threshold admitted in a window |
| governance `core/governance` | versions, WASM modules with expiry timers; policies, listeners | upload, test, traffic, deprecate, load, execute, expire; add, update, remove, notify | stale timers, use after unload, notices out of order | one active version; modules accounted for; listeners know |
| errors `pkg/errors` | handlers by priority, breaker, reporters, metrics | RegisterHandler, Handle, ResetMetrics | a breaker and a reporter without locks | the first capable handler gets the error; the breaker does not open early |
| observability `core/observability/observability.go` | bounded channels, series, spans, alerts | Record, StartSpan, FinishSpan, clean-up, alerts, Stop | drop when full, clean-up of what is in use | fresh points kept; a span in one place |
| router monitor `core/router/router_monitor.go` | counters, response times, per-route metrics | RecordRequest, collector, Start, Stop | counters in steps; lock re-entry in the collector | counters add up |
| router cache `core/router/router_cache.go` | entries, access list, memory | Get, Set, Delete, InvalidatePattern, eviction, clean-up | room is made before the old entry goes | map, list and memory agree; limits |
| routing nodes `core/router/enhanced_router.go`, `multidimensional_router.go` | balancer, hash ring, node map, route cache | AddNode, RemoveNode, health checks, worker look-ups | colliding hashes, nodes added twice | the ring names nodes that exist |
| HTTP router, radix tree `core/router/http_router.go`, `radix_tree.go` | routes, middlewares, trees | AddRoute, Use, ServeHTTP | routes change while handlers run | answers settle |
| resource quotas `core/performance/resource_manager.go` | quotas | SetQuota | check and store under two locks | at most 100 % |
| adaptive monitor `core/performance/adaptive_performance.go` | counts, histogram, decisions | RecordRequest, collect, tune, RecordResult | lock re-entry; decisions named by the second | results find their decisions |
| performance monitor `core/performance/performance_monitor.go` | tuning channel, actions, GOMAXPROCS | Start, Stop, thresholds, execution | two pairs of loops; blocked sender | actions in order, once |
| router configuration `core/router/router_config.go` | configurations by name, validators, change handlers | LoadConfig, UpdateConfig, DeleteConfig, AddValidator, AddChangeHandler | handlers run under the mutex | handlers know what is stored |
| buffered connection `core/network/buffered_conn.go`, byte buffer `pkg/buffer/bytes_buffer.go` | slice, read and write position, mutex, deadline | Read, Peek, Reset, Close; fixed-width numbers, varints, zigzag | Read copies past the write position; Peek grows the slice; a call waits with the mutex held | the stream comes out in order, numbers as written |
| configuration `core/config` | what viper read and what was Set over it | NewConfigManager, Reload | defaults are Set over the file | every key has the value of the file, or its default |
| users and roles `core/security/auth.go` | users, roles, enabled | AddUser, RemoveUser, AddRole, RemoveRole, Enable, Disable, CheckPermission | enabled is read before the lock | an answer was right during the call |

**Planned.**

| component | state and operations | hard | correct when |
|---|---|---|---|
| message queues and events `core/bus` | priority heap, event handlers | handlers iterated outside the lock | priority order, no lost handler |

The hazards are in `PROJECT.json`, each at its line with the properties that cover it.

### 1.3 Not modelled

* `core/api`, `core/interceptor`, `cmd` – adapters over the above, an interface, flag parsing and signals.
* `core/deployment` and the CPU affinity manager of `core/performance` – nothing constructs them.  Overlapping UpdateConfig calls of the first
  would mix their flags, Disable of the second hands out cores that are in use.
* `core/protocols/http` – formatting of responses over net/http.
* `core/protocols/websocket/batch_processor.go` – unreachable: `upgradeConnection` always returns an error, so no
  connection, send queue or batch of `OptimizedWebSocketHandler` ever exists.
* Degradation control in `core/reliability` – a level computed from a snapshot under one lock.
* Memory mapping and the pinning of threads in `core/performance` (system calls), predictions and health reports (they only read).
* TLS, tokens, SYN cookies and packet patterns in `core/security`; error values and conversion tables in `pkg/errors` – data
  processing without state of their own.
* Alerts and alert handlers of the router monitor – behind a collection that never ends.
* Scripts; the repository has no tests.

## 2. Modules

### GoroutinePool, TaskExecutor

`queue` is the task channel, `job[w]` what worker `w` does (`Waiting` in its
select, a task, `Exited`), `temps` the goroutines of Submit's `default` case, `cancelled`
the context, `shutdown` how far Shutdown is.  `Submit` has one disjunct per select
case – enqueue, drop on a cancelled context, spawn – each enabled when the Go
runtime may choose it: with a cancelled context and room in the channel both of the first
two are, and `default` is only taken when neither is.  `Take`, `Exit` and `Finish` are the worker, `Cancel`
and `Return` Shutdown.

`TaskExecutor` is what a caller may rely on: a submitted task is accepted
or rejected, an accepted one may start, a started one finishes; nothing runs twice
or is both rejected and run.  `PhaseOf` maps the pool's state to the phase of a task and
`ImplementsExecutor` says that every behaviour of the pool is one of
TaskExecutor's.

Worth knowing: a task may be put in the channel of a cancelled pool, and stay there for good
(`StrandedStaysStranded`): the wait promised at `goroutine_pool.go:75` covers the workers
only.

### UnifiedBufferPool

One action per atomic instruction of Get and Put; `at[p]` is where
goroutine `p` is, `cur`, `nextNode`, `node`, `arg` its local variables.  `head`, `next`, `buf` are the list, `count` the
atomic counter with its width (`Word` stands for 2^64 so that it wraps; PreAllocate reads it as signed, `AsInt`),
`syncPool` the contents of the `sync.Pool`, `owned[p]` the buffers `p` holds.  `Free`, the nodes the
allocator may hand out, are the nodes nothing refers to, the local variables of goroutines included: this is
the garbage collector, and it is why the ABA problem of such lists does
not arise in Go (the mutant `FreeUncollected` reuses nodes at once and breaks `SingleOwner`).  `CollectSynced` is the garbage
collector emptying the `sync.Pool`.

### CircuitBreaker

The failure counters are those of the code, at most `MaxCount` calls of each Record method since the
last reset (a bound of the instance); `successes` remembers RecordSuccess calls for the violation
run only.  Time is one bit, `elapsed`: whether more than `resetTimeout` has passed since the last failure
(`Elapse`).  AllowRequest is three critical sections: the read lock (`AllowAtOnce`, `AllowUpgrade`),
the write lock (`AllowHalfOpen`) and the read after it (`AllowReread`); any method of another goroutine fits in
between.

### RouterQueue

`requestQueue` and `resultQueue` are the two channels, `busy[w]` the request whose result worker `w` is about
to send.  A timeout may strike whenever a caller waits (`SubmitTimeout`, `ResultTimeout`).  What a worker computes
is abstracted to which request the result belongs to, which is what callers can get wrong.
`gone`, `abandoned` and `dropped` record the past: the requests whose result was taken or thrown away, and how
many callers gave up and how many results were thrown away by workers that stop.

### ServingPath

Composes listener, connection pool, detector and an instance of GoroutinePool
(`Pool`) whose tasks are the detections of connections.  `loop` and `hand` are the accept loop, `stop` Listener.Stop,
`connections`, `closed`, `netCloses` the pool and the Close calls that reach the
socket, `detect[c]` where DetectProtocol is for `c`, and `client`, `sent` the other end.  A client may send what it wants when it
wants, or nothing; `handlers` are the names registered with the detector.
The detector's buffer is modelled by what it does: `bufferPool.Get` returns a
buffer that `Reset` has emptied, so the slice the bytes are read into has length 0 (`Window`) and no layer sees
anything of what was sent.

### ProcessorManager

Both RWMutexes as Go implements them: `readers`, `writer` and `announced` of the manager's lock `"m"` and of
the lock `"group"` of one protocol's group; a waiting writer (`Announce`) keeps new readers out.
SelectProcessor reads under m (`SelectLookup`), then holds the group for reading (`SelectReadGroup`) while it takes m
for writing to draw its turn (`SelectWantM`, `SelectTurn`), and picks `Handlers[turn % len]` (`SelectPick`).  AddProcessor,
RegisterHandler and the metrics loop take m and then the group.  `rrIndex` is the turn counter,
`cur[s]` the turn drawn, `size` the number of handlers, `served` a history of picks.

### ControlPlane

A call of Start or Stop holds `cp.mu` from beginning to end; `call` is the step it is at.  Of the
listener and the router it has what outlives a call: their contexts (`listenerDone`, `routerDone`), the socket, and how
many accept loops, monitors and sets of router workers are alive.  Those contexts are made by the constructors
and cancelled for good by the first Stop, the plane's own is made by every Start, which is why a
restarted plane is "running" and accepts nothing; `StateIsTrue` says so by its premise.

### OptimizedGoroutinePool

Workers one atomic instruction at a time (`worker[w]`): receive, count itself busy, run, count the task, update the
task time, count itself idle; `Expire`, `DropIdle`, `Leave` on timeout or cancellation.  `scaler` is autoScaler with
the values it has read.  Tasks are counted, not told apart.  `closing = "waiting"` is Shutdown in
`wg.Wait` with `p.mutex` held, so `UpdateTaskTime` is disabled.

### OptimizedConnectionPool

Each method is one critical section.  The health checker and the cleaner take a snapshot (`toCheck`, `toClean`) and remove
from it one by one later; `closes` counts the Close calls of the pool on each net.Conn, `lost` are
those their user closed.

### MessageBus

`subscriptions` and `topicSubs` are the two maps.  Publish and Broadcast take their targets under the lock (`Launch`) and deliver to each in a
goroutine of its own (`stage[p][t]`): look the connection up again, filter and handle, send with retries.  A
failing Send may have delivered (`SendFails`).  `received` counts arrivals.

### What works on one connection or request

**ProtocolProcessor.** `caller[t]` is ProcessConnection for one task, which may be in `batch`, `queue`, a `worker`'s hand or
`direct` (the goroutine of processBatch's `default`); `answered` are the result channels that hold a result, `cache`
the protocol cache, oldest first.  Timeouts, the batch ticker, Start, Stop and UpdateConfig come at any
moment.  A task can outlive its caller: it is handled all the same, once.

**OptimizedConnectionHandler.** `stage[c]` follows Handle through limiter, middlewares and deferred calls; `Recover` is a
panic caught by the recovery middleware, `WriteLocksTwice` a Write before WriteHeader, which takes
the writer's mutex twice and leaves the connection `stuck` with its slot and its writer.  A connection that is kept alive stays in `open` and is
read by nobody.

**WebSocketHandler.** `stage[s]` follows Handle and handleWebSocket with the deferred clean-up, `heart` and `pinging` the heartbeat
goroutine.  `turnedAway` are the connections over the limit: TryAcquire counts before it tests and nobody takes the count back, so
`LimitShrinks` states the limit that is left.

**GRPCHandler.** GetConnection's double-checked locking, CloseConnection and CloseAll over `connections`, a partial function; the server is made by
whoever finds none, without a lock, so there may be several (`servers`), of which connections and services may see different ones.

**Logging.** Events are numbered by call.  `hand[h]` is the event a goroutine is writing: the processor or the sender of a
fatal event, who flushes the channel beside it.  `stuck` is a rotation that has asked for the mutex it
holds; from then on nothing is written, the channel fills and senders wait.

**BufferedConn.** The byte buffer is a record `buf`, `rpos`, `wpos` with the operations of the code; a byte nobody wrote is 0.
Read and Peek are around it, taken apart where they wait in `Conn.Read`: `call` is the one call that waits, since it holds the
mutex.  The peer sends the bytes 1, 2, 3…; `taken` is how far the connection was read, `got` how far Read has handed it out.  A
Read that asks for more than is there, or for nothing, is `careless`; `StreamKept` holds until the first of them.
Numbers are written and read back (`Written`, `NumberAhead`) in every state in which all that was written has been read, so at every
position the buffer gets to.  A byte has 3 bits and a word 3, so that varints take up to two groups and a word does not fill the last of
them; `Fixed` is a number of two bytes.

### What decides and governs

**AuthManager.** `enabled` is read without the lock (`BeginCheck`), users and roles under it (`CheckPermission`); `check[p].true` collects
what would have been right at each moment of the call.
**Configuration.** The two layers of viper, `loaded` and `override`, under validateConfig; all keys are alike.
**RouterConfig.** LoadConfig is taken apart at the calls of the change handlers, which run with the mutex held; a handler that asks
for a configuration is `stuck`.

**SecurityManager.** Publications send under a `select` with the context and a full channel; `loop` are the two goroutines, which join the wait
group themselves when they begin (`registered`); Close is its five steps with the five second timeout.  `late` are the loops
that began after Close had stopped waiting.

**OptimizedSecurityManager, DOSProtector.** One step per critical section: looking at the block, removing it when it ran
out, tracking, counting.  Time is an age (`expired`, `idle`, `age`).  CheckConnection tracks before it
counts, which is why the limit holds although two locks are taken; the DoS protector may lift a block it has not seen, yet its
window count holds.

**ProtocolManager.** `protocols` with status and rate per version, `activeProtocol`; the WASM loader's `modules` and `timers`,
which are told apart by the module they were started for, although the code unloads by name.
**PolicyEngine.** `notices` are the notifying goroutines, `unsure` the IDs whose last changes may be told in the wrong order.

**ErrorManager.** Handle in its stages; `Best` are the capable handlers of the highest priority.  The breaker's counter is read and written
in two steps by each caller.  A fatal error ends the process in logError, before any handler.

### What measures and tunes

**Metrics, Tracing.** Points and spans from creation to clean-up through the bounded channels; ages stand for the retention times.
**RouterMonitor.** RecordRequest one counter at a time; `collecting` is the collection that asks for the
mutex it holds: it never ends, and `RoutesAddUp` says what the counters are worth then.
**ResourceManager.** SetQuota's check and store; shares of one resource in quarters.
**AdaptiveMonitor.** Requests, the histogram behind the mutex that the first collection keeps for ever, and decisions named by
type and second: the result of the later of two is booked to the earlier.
**PerformanceMonitor.** Two pairs of loops at most (`MaxStarts`), the tuning channel, and GOMAXPROCS read and set in two steps.

### What routes

**RouterCache.** `entries`, `order` and `memory` with every eviction a step of its own under the mutex (`setting`).
**RoutingNodes.** AddNode and RemoveNode edit the balancer with its ring first and the multidimensional router next (`editing`);
`sorted` counts how often a position of the ring is listed, since colliding and repeated nodes list it again.  Workers look a request
up in cache, multidimensional router and balancer, one after the other.
**HTTPRouter.** Routes in the order of their addition, exact paths before patterns; ServeHTTP holds the read lock while
the handler runs; a waiting writer keeps new readers out.  The radix tree is what Insert leaves: one child
per first character, and a Search that never leaves the root.

## 3. Runs

All states are explored; none is truncated by a constraint.

| run | instance | shows |
|---|---|---|
| `pool_and_protocols` | pool: 4 tasks, 2 workers, queue of 2; processor: 2 tasks, 1 worker, batches of 2, queue and cache of 1; HTTP: 3 connections, 2 writers, limit 2; WebSocket: 3 connections, limit 1; gRPC: 2 callers, 2 targets; logger: 2 senders, 4 events, one fatal, channel of 1 | one place per task, refinement of TaskExecutor, `PoolDrains`; `TasksHandled`, `SlotsAccounted`, `LogIsFlushed`.  4 tasks fill both workers and the queue, or leave some for overflow goroutines |
| `buffer_pool` | 2 goroutines, 4 buffers, 3 nodes, capacity 1 | ownership, list, counter, overrun.  2 nodes can be linked at once, one above the capacity, and one more is free for reuse |
| `breaker_and_security` | breaker: 2 callers, rate 5/10, thresholds 1 and 2, 3 calls of each kind between resets; security: 2 publishers, channel of 1; checks: 2 connections of one address, limit 1; DoS: 2 goroutines, threshold 2, 4 requests; 2 versions and 2 modules; 2 policies; 2 callers with 3 errors; 3 points, 3 spans, channels of 1; 2 recorders, 3 requests; permissions: 1 check, 1 user, 2 roles; 2 keys of the file; 2 router configurations and 2 handlers | both callers can be in the gaps of AllowRequest while failures are recorded, every threshold is met and exceeded; `SecurityQuiet`, `SettingsHold`, `LimitsHold`, `Governed`, `ErrorsHandled`, `MeasurementsKept` |
| `circuit_breaker_rate` | the breaker with 3 callers | **violation** of the failure rate, see findings |
| `router_and_plane` | 2 callers, 2 workers, 5 calls in all; 3 Starts | 5 calls are one more than the result channel holds, so it can be full of results nobody waits for; 3 Starts are a failed one, a good one and a restart |
| `router_queue_own` | 3 calls | **violation**: results reach other callers |
| `path_bus_and_routing` | path: 3 connections, 1 worker, queue of 1, first bytes HTTP or end of stream, handlers with and without one for "unknown"; bus: 2 clients, 2 subscriptions, 1 topic, 1 publisher, 1 retry; connection buffer: a slice of 2, reads of 0 to 3 and 3 bytes sent; numbers of 3 bits, 2 in a slice of at most 4; cache: 3 keys, 3 sizes, limits 2; nodes: 2 with one colliding replica; HTTP router: 2 paths and a pattern, 3 routes | one detection on the worker, one queued, one on an overflow goroutine, and a Stop at any moment; a publication with two targets while both may disappear; slices that grow and requests that straddle their end; `BusDelivers`, `BytesKept`, `CacheAgrees`, `RingAgrees`, `AnswersSettle` |
| `serving_path_live` | 3 connections, 1 worker, queue of 1, clients that send something unrecognised or nothing | accepted connections are closed or handed over, clients are accepted, Stop returns |
| `serving_path_detect` | 3 connections | **violation**: HTTP is turned away |
| `manager_and_pools` | manager: 2 selectors, 1 adder, metrics loop, 2 handlers at first, 5 selections; goroutines: 2 submitters, 1 to 2 workers in 3 slots, queue of 1, 3 submissions; connections: 3, limit 2, minimum 1, 2 protocols; 2 quota setters; 3 requests and decisions of 2 seconds; 2 pairs of tuning loops | turns and shares; counters and limit of the goroutine pool; maps and closes of the connection pool; `TuningHolds`.  No deadlock check: several of them do block for good, see findings |
| `processor_manager_live` | the manager with 2 selections, fair | **violation**: selections that never return |
| `optimized_pool_shutdown` | the goroutine pool with 2 submissions, fair | **violation**: a Shutdown that never returns |

Some properties name several statements about one component, which stay definitions of
their own in its module and are explained there: `PoolDrains` (ShutdownReturns, QueuedTasksRun), `RequestsAccounted` (ProcessedOnce,
BacklogIsAbandoned), `EverythingStops` (CallsReturn, StopEndsWorkers, PlaneStops), `ConnectionsAccounted` (ClosedOnce, NothingLeftBehind,
NoneForgotten, HandlerOwnsConnection), `PathSettles` (StopReturns, ClientsAreAccepted, AcceptedIsReleased), `TurnsFair` (DistinctTurns,
EvenShares), `CountsAndLimit` (Accounted, WithinMaxWorkers), `PoolAgrees` (MapsAgree, ClosedExactlyOnce), and the properties of the
MC modules, which name those of the components they compose.

In the suites the components that are not the one under fairness may stop: a disjunct lets them stutter, so that the deadlock
check is about the component that is meant to go on (pool, breaker, path).  What the others do when they block is in their
properties.

The bounds: `MaxCalls` and the like limit how often an actor starts an operation, never what may happen within one.

### Fairness

Goroutines that can take a step do so in the end (weak fairness per goroutine), timers fire.  Strong
fairness is used where the code depends on a random choice of the kernel not always
going the same way: that some connection is accepted in the end, among transient errors.  For the random choice of a worker's
`select` between queue and context weak fairness is enough, since finitely many tasks are submitted.  Nobody
outside owes anything: clients need not send, nobody need call Stop, no caller needs to make a call.

### Findings

1. `core/detector/protocol_detector.go:168` – detection looks at an empty buffer; no protocol
   is ever recognised (`HttpIsRecognised`).
2. `core/router/enhanced_router.go:306` – a caller takes the oldest result, not its own
   (`OwnResult`); after one timeout every later caller is one result behind (`BacklogIsAbandoned`).
3. `core/reliability/reliability_manager.go:135` – successes do not count in the
   denominator of the failure rate, which is always 1 (`OpensAtFailureRate`).
4. `core/handler/processor_manager.go:456` – lock order inversion; SelectProcessor, AddProcessor and the
   metrics loop can wait for each other for ever (`SelectReturns`).
5. `core/pool/enhanced_pool.go:720` – Shutdown waits for the workers with `p.mutex` held, which a worker
   needs after its task: with a task running neither goes on (`ShutdownReturns`).

Seen while modelling, stated by a property or by the model's shape, and not a run of its own:

* *Restart.* A control plane that was stopped and started again reports "running" with an accept loop that returns
  at once (`control_plane.go:67`).  Stop after a second Start closes closed channels in the protocol processor and in the HTTP connection manager.
  A second Start of the performance monitor launches a second pair of loops, a second Stop panics.
* *Self-deadlocks.* The collectors of the router monitor (`router_monitor.go:406`) and of the adaptive monitor
  (`adaptive_performance.go`, collectMetrics) ask for the mutex they hold, at their first collection; so no alert is ever triggered.  A rotation
  of the log file, by size or by the hour, does the same (`rolling_writer.go:128`, `:110`) and all logging stops.  The
  response writer's Write before WriteHeader, and gzip's Close after a panic, lock the writer twice (`connection_manager.go:242`).
* *Slots.* A WebSocket connection over the limit is counted for ever (`websocket/handler.go:199`).  Kept-alive HTTP connections stay open
  and unread; failed requests may outnumber all.
* *Delivery.* Publish turns delivery mode "at most once" (the zero value) into "at least once" and retries may deliver
  twice (`enhanced_message_bus.go:642`).
* *Byte streams.* BytesBuffer.Read copies up to the end of its slice, not up to what was written: `BufferedConn.Read` with
  a slice smaller than the buffer, and larger than what has arrived, returns bytes nobody sent and leaves Remain negative
  (`buffered_conn.go:72`).  A Read of length 0 throws away what is buffered.  The deadline Peek sets is never cleared, and the reads
  after it inherit it.  Close waits for a read that waits for the peer; Available and Reset after Close dereference nil.
* *Settings.* A key that a file once left out keeps its default whatever later files say, since validateConfig Sets it
  over them.  A router change handler that calls the configuration manager blocks it for good, and no handler hears of
  DeleteConfig.  A permission may be refused after checks were disabled.
* *Caches.* An empty key is never evicted from the protocol cache (`performance_tuner.go:423`); batching that is switched on after
  Start has no ticker; the router cache may evict the entry it is about to replace, and more than it needs.
* *Routing.* RadixTree.Insert replaces a child with the same first character and Search finds nothing, so the HTTP
  connection manager's router answers 404.  RemoveNode leaves cached routes to the node; a node added twice and removed once stays in the
  balancer.  The multidimensional router writes its round-robin map under a read lock.
* *Governance.* The policy engine compares new content with itself, so an update never counts as a change of content.
* *Errors.* A fatal error ends the process before the graceful-shutdown handler sees it; the retry recovery always returns an
  error; the metrics reporter writes a map without a lock; nobody calls the breaker handler's IsOpen; Handle of an error that is no MuxError
  dereferences nil, and one built-in converter calls itself for ever.
* *Logger.* Fatal may exit before its own event is written, when the processor has it in hand.
* *Pools.* The enhanced goroutine pool may fall below MinWorkers when workers time out together (`enhanced_pool.go:560`).
* *Monitor.* After Stop the performance monitor may block in a send for ever; Disable does not stop its loops.

## 4. Proofs

Each theorem holds for every value of the constants that satisfies the `ASSUME`s of its module, which every run of the module
evaluates.  The theorems that state a property of a run are in `PROJECT.json`.  A theorem about a component of a suite is about the
suite's specification; its proof is that each step of the component keeps the component's invariant and that the steps of the
others leave its variables alone.

**MCPoolAndProtocols_proofs.**
*Pool* (`PoolAssumption`: a queue size of at least 1; the markers `Waiting` and `Exited` differ and are no tasks).  The inductive
invariant is `TypeOK /\ OnePlace /\ ShutdownOrder`; `ShutdownOrder` says that the workers of a pool whose Shutdown has returned are
gone, not only idle, and that nothing is turned away or shut down without the context being cancelled.  From it `TypeCorrect`,
`OnePlaceHolds`, `ShutdownQuiescesHolds`, `StrandedForEver`, and `ImplementsTaskExecutor`: every step of the pool maps under
`PhaseOf` to a step of TaskExecutor or a stutter.
*Handlers* (`HandlersAssumption`: finitely many connections, sockets and callers, limits in Nat, the markers apart).
`SlotsAccountedHolds` counts connections by stage with cardinalities: `SlotCounts` and `SocketCounts` are the limiters as functions of
the stages, one step moves one connection; `WritersHeld` says from which stage to which a connection has a writer,
`SocketsPlaced` where map and bus hold a socket, and `Makers` that servers made and about to be made are no more than the callers.
*Logger*.  `LogIsFlushedHolds` needs where every event is (`NewEvents`, `SentEvents`: channel, one hand or the file, once), that only
senders of fatal events handle events beside the processor (`LogRules`), and for the order that file, hand and channel one
after the other are what was sent (`SentInOrder`).
*Processor* (`ProcessorAssumption`: finitely many openings, batch and cache sizes of at least 1, a queue size and a bound on changes in Nat; a worker's
markers are no tasks, "unknown" no protocol).  `TasksHandledHolds`: no task is twice in batch or queue, with two workers or in two of batch, queue, workers and goroutines
(`TasksApart`); a placed task has not been handled and its caller waits or has given up, one whose caller waits is placed or answered (`TasksFollowed`).
The cache has each key once, which bounds its length by the openings, and each is the opening of a connection that was handled; a cache
only outgrows its size where the oldest entry has no data, and that entry, too, came from a connection handled (`CacheKept`).

**MCRouterAndPlane_proofs.**
*Router* (`RouterAssumption`: finitely many callers and workers, at least one worker).  `RequestsAccounted` is inductive together with the
types and `PlacedWereSubmitted`: what is in the channels, with workers or gone was submitted by an earlier call, so that what a caller is about
to submit is nowhere yet.
*Control plane* (`StartsAssumption`: `MaxStarts` in Nat).  `StateIsTrue` is not inductive; `PlaneInv` says what is alive at each step of a
call: `StateOfCall`, `AcceptLoopAlive`, `MonitorAlive`, `RouterAlive`, and with `StartsCounted` that what a Start makes a Stop ends.

**MCPathBusAndRouting_proofs** (`RoutingAssumption`: finitely many publishers, clients, look-ups and keys, limits in Nat, a hash in
`Hashes` for every replica and look-up; nothing about which hashes collide, which paths a pattern matches or how large entries are).
*Path* (`PathAssumption`: as the pool's, and a marker for "no connection").  The invariant follows a connection:
`HandMatchesLoop` (what the accept loop has in hand), `Unseen` (clients not accepted are nowhere, what is in hand is not in
the pool), `Stage` (where its detection is, by place in the goroutine pool, and how it ended), `Filed` (when ConnectionPool has it).
`PathUsesPool` states that the path implements GoroutinePool under its instance `Pool`, so that every theorem of the pool holds of it.
*Bus*.  `BusDeliversHolds` adds `Attempts` to its property: a delivery that goes on has a try left, one
that ended well has arrived, and nothing arrives that was not tried; publications under way are counted with cardinalities.
*Nodes*.  `RingAgreesHolds` needs that every position of the ring is one of its own node's replicas, so that removing another node leaves
it alone, and that a node about to be told to the multidimensional router is in the balancer; how often `sorted` lists a position is counted per
node (`TimesIsCount`), which is why colliding and repeated nodes do no harm.
*Cache*.  `CacheInv`: the access list has each key of the map once, memory is the number of pairs of a key and a byte of its entry
(`Taken`), and `Limits` says what room a Set has made at each step: it stores only if the entry fits or the cache is empty, so that memory is
exceeded only by an entry alone in it.
*HTTP router*.  `AnswersSettleHolds` is an action property; its invariant is that the route of a request being served is still the first that
matches it (`RouteChosen`), for which a lemma says what an added route does to "first" (exact paths before patterns, earlier before later).
*Buffered connection*.  `StreamKeptHolds`: what lies between the positions of the buffer is the stream from `got` to `taken` (`StreamInv`),
while no Read was careless.

**MCManagerAndPools_proofs** (`PoolsAssumption`, `ManagerAssumption`: finitely many goroutines, markers apart, `MinWorkers <= MaxWorkers`;
`TuningAssumption`: finitely many types, recorders and buckets, default quotas that fit, bounds in Nat).
`PoolAgreesHolds` adds to its property that a connection never offered is neither closed nor classified.
`CountsAndLimitHolds` needs that the scaler, whose numbers are stale, is the only one to add workers after the start, so that there is room
for what it is about to add (`RoomForMore`); the counters are cardinalities of the slots by state.  `TurnsFairHolds` counts, per handler, picks
served and drawn: handler `i` has one of every `size` turns (`EvenTurns`, `Share`), with lemmas about division for the turn that is added.
`TuningHoldsHolds` has three invariants.  *Quotas* (`QuotasInv`): as long as nobody stored between another's check and
store, what each setter has checked still fits beside the quotas of the other types.  *Adaptive* (`AdaptiveInv`): the requests counted are in the histogram or about to
be, and a decision is marked exactly if it is the earliest of its name and not the one being executed.  *Performance* (`PerfInv`):
`ActionsPlaced` says where the actions are, once each, counting what the loops hold as pairs of a loop and a position; `InOrder` that history,
hand, channel and what is to be sent are the numbers in order, of which each step moves the first from one sequence to the end of the one before it;
`RaisesCounted` that the processors read by a tuner, and the raises under way, are of gc actions executed.  `LoopsStarted` is what makes the statement
about a single pair true when the second one starts from nothing.

**UnifiedBufferPool_proofs** (finitely many goroutines and nodes, a capacity of at least 1, and a word larger than the capacity plus
twice the number of goroutines).  The list is described by the history variable `linked` (the set of nodes on the chain) instead of a
recursive reachability.  `ListIntact` says that head is linked or Nil, the successor of a linked node is linked or
Nil, and no two links lead to the same node; the invariant adds that what a
goroutine is about to swing head to is still the successor of the head it read, as long as
that node is linked – which holds because a node somebody still holds is never reused – and, buffer by buffer, who owns
what (`OwnedOnce`).
`CountAccountedHolds` counts goroutines between the list and the counter with cardinalities.
That `linked` is what it says is checked by TLC (`ListIsChain`).

**MCBreakerAndSecurity_proofs.**
*Breaker* (`BreakerAssumption`: thresholds in Nat).  The inductive invariant is `TypeOK`, `ClosedIffWithinThresholds` and that the two
connection counters are equal; `TransitionsLegal` and `NotAllowedWhileOpenHolds` are action properties that follow from it.
*Security* (`SecurityAssumption`: finitely many publishers and connections, limits in Nat).  `SecurityQuietHolds`: `HandlersCounted` (a
publication is being sent, in the channel, with the loop or settled, and only settled ones have started handlers), `LoopsAwaited` (what a
Close that waited to the end has waited for), `LookingOn` (a permission check that waits for the lock has seen what is true now).
`LimitsHoldHolds`: the limit per address is inductive as it stands, since a connection is tracked before it is counted; the DoS window needs that
everything let in was counted (`WindowCounted`).
*Settings, governance, errors* (`GovernanceAssumption`: defaults are values, 0 and 100 are rates, a breaker threshold of at least 1).
`SettingsHoldHolds`: overrides are the defaults of keys some file left out (`DefaultsStay`); during a load the handlers before `loading.next` know
the new configuration (`RoutingInv`).  `GovernedHolds`: the active version is the object `activeProtocol` (`VersionsInv`), a loader past its check
accounts for the modules loaded after deactivation (`ModulesInv`, `CallersInv`); an ID that is not `unsure` has at most one notice left, and that
one tells the truth (`SureKnown`, from `ObjectsOfOne` and `NoticesCounted`).  `ErrorsHandledHolds`: the handlers stay sorted by priority under insertion
(`HandlersKept`), so the first capable one is the best; what callers read of the failure count is never more than the failures
(`FailuresCounted`), and one who reached the threshold is on its way to the test (`BreakerTested`).
*Measurements* (`MeasuringAssumption`: finitely many recorders and routes, limits in Nat, no more response times dropped than there are).
`MeasurementsKeptHolds`: what is kept of the metrics is inductive as it stands; no span is twice in the channel or in two places (`SpansApart`);
the monitor's total is what was counted by outcome and the calls before that counter, and the outcomes are what the routes add up to, as the size of
a set of pairs, and the calls before the routes (`MonitorInv`), which also bounds each route's counts.

Model-checked only:

* all liveness (`PoolDrains`, `OpenIsLeft`, `EverythingStops`, `PathSettles` and the violations): it depends on fairness and ENABLED, which the prover does not handle;
* `ListIsChain`, which is reachability along links, and `NumbersComeBack` in `BytesKept`, which folds over the groups of a number: induction over data.

## 5. Plan

1. *Done*: the components under *Modelled*; the proofs above.
2. *Next*: message queue and events; the race on `m.groups` of the processor manager.
3. *Abstract specifications*: a bounded mailbox that RouterQueue implements; a set of open connections that
   OptimizedConnectionPool implements; "accepted, then closed or handled" for the serving path.
