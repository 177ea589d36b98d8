------------------------- MODULE MCPoolAndProtocols -------------------------
(***************************************************************************)
(* The goroutine pool, and the components that work on single connections  *)
(* and requests: the batching protocol processor, the handlers for HTTP,   *)
(* WebSocket and gRPC, and the asynchronous logger. They share nothing, so *)
(* each behaviour is a behaviour of one of them; the initial state chooses *)
(* which. Nothing that the pool's fairness is about is enabled in its      *)
(* initial state, so the fairness says nothing while another moves.        *)
(***************************************************************************)
EXTENDS GoroutinePool, FiniteSets

CONSTANTS
    NoData, Protocols, BatchSize, CacheSize, MaxChanges, Connections, Writers,
    MaxConcurrentConns, MaxStarts, Sockets, MaxConnections, Callers, Targets,
    MaxDials, MaxServers, Senders, Fatals, BufferSize, MaxEvents,
    ProcessorTasks, ProcessorWorkers, ProcessorQueueSize, Openings

\* Limits are numbers, and only so many connections and callers exist.
ASSUME HandlersAssumption ==
    /\ IsFiniteSet(Connections) /\ "none" \notin Writers
    /\ MaxConcurrentConns \in Nat /\ MaxStarts \in Nat
    /\ IsFiniteSet(Sockets) /\ MaxConnections \in Nat
    /\ IsFiniteSet(Callers) /\ MaxDials \in Nat /\ MaxServers \in Nat
    /\ "processor" \notin Senders /\ BufferSize \in Nat /\ MaxEvents \in Nat

\* A batch has a task, a cache an entry; data may be missing, a protocol be unknown.
ASSUME ProcessorAssumption ==
    /\ ProcessorTasks \cap {"off", "free", "exited"} = {}
    /\ IsFiniteSet(Openings) /\ NoData \in Openings /\ "unknown" \notin Protocols
    /\ BatchSize \in Nat \ {0} /\ CacheSize \in Nat \ {0}
    /\ ProcessorQueueSize \in Nat /\ MaxChanges \in Nat

VARIABLES
    which,
    processorStatus, stopOpen, batching, ticker, changes, processorCaller,
    opening, protocol, batch, processorQueue, worker, direct, answered, handled,
    cache,
    httpStage, writer, idle, httpStatus, httpCurrent, open, active, total,
    successful, failed, running, starts, httpShutdown,
    wsStage, wsCurrent, turnedAway, mapped, onBus, heart, alive, pinging, closed,
    connections, dials, shut, grpcCaller, servers, services, serving,
    calls, sender, sent, channel, hand, flushing, processor, stuck, written,
    stopping, exited

Processor == INSTANCE ProtocolProcessor WITH
    Tasks <- ProcessorTasks, Workers <- ProcessorWorkers, Keys <- Openings,
    QueueSize <- ProcessorQueueSize, status <- processorStatus,
    caller <- processorCaller, queue <- processorQueue

HTTP == INSTANCE OptimizedConnectionHandler WITH
    stage <- httpStage, status <- httpStatus, current <- httpCurrent,
    shutdown <- httpShutdown

WebSocket == INSTANCE WebSocketHandler WITH
    stage <- wsStage, current <- wsCurrent

GRPC == INSTANCE GRPCHandler WITH
    caller <- grpcCaller

Log == INSTANCE Logging

processorVars ==
    <<processorStatus, stopOpen, batching, ticker, changes, processorCaller,
      opening, protocol, batch, processorQueue, worker, direct, answered,
      handled, cache>>
httpVars ==
    <<httpStage, writer, idle, httpStatus, httpCurrent, open, active, total,
      successful, failed, running, starts, httpShutdown>>
wsVars ==
    <<wsStage, wsCurrent, turnedAway, mapped, onBus, heart, alive, pinging,
      closed>>
grpcVars ==
    <<connections, dials, shut, grpcCaller, servers, services, serving>>
logVars ==
    <<calls, sender, sent, channel, hand, flushing, processor, stuck, written,
      stopping, exited>>
-----------------------------------------------------------------------------
suiteVars == <<which, vars, processorVars, httpVars, wsVars, grpcVars, logVars>>

SuiteInit ==
    /\ which \in {"pool", "processor", "http", "ws", "grpc", "log"}
    /\ Init /\ Processor!Init /\ HTTP!Init
    /\ WebSocket!Init /\ GRPC!Init /\ Log!Init
    /\ which # "processor" => ~batching

SuiteNext ==
    \/ /\ which = "pool" /\ Next
       /\ UNCHANGED <<which, processorVars, httpVars, wsVars, grpcVars,
                        logVars>>
    \/ /\ which = "processor" /\ Processor!Next
       /\ UNCHANGED <<which, vars, httpVars, wsVars, grpcVars, logVars>>
    \/ /\ which = "http" /\ HTTP!Next
       /\ UNCHANGED <<which, vars, processorVars, wsVars, grpcVars, logVars>>
    \/ /\ which = "ws" /\ WebSocket!Next
       /\ UNCHANGED <<which, vars, processorVars, httpVars, grpcVars, logVars>>
    \/ /\ which = "grpc" /\ GRPC!Next
       /\ UNCHANGED <<which, vars, processorVars, httpVars, wsVars, logVars>>
    \/ /\ which = "log" /\ Log!Next
       /\ UNCHANGED <<which, vars, processorVars, httpVars, wsVars, grpcVars>>
    \/ which # "pool" /\ UNCHANGED suiteVars   \* the others may stop

SuiteSpec == SuiteInit /\ [][SuiteNext]_suiteVars /\ Fairness
-----------------------------------------------------------------------------
(* A task is answered once and the cache keeps its bound, also while the   *)
(* processor is stopped or its batching switched.                          *)
TasksHandled ==
    which = "processor" => Processor!TypeOK /\ Processor!TasksAndCache

(* The handlers give back the slots, writers and connections they take, up *)
(* to the WebSocket handler's slots that are lost.                         *)
SlotsAccounted ==
    /\ which = "http" => HTTP!TypeOK /\ HTTP!SlotsAndWriters
    /\ which = "ws" => WebSocket!TypeOK /\ WebSocket!LimitShrinks
    /\ which = "grpc" => GRPC!TypeOK /\ GRPC!DialledIsKept

(* The logger's Stop returns when everything sent before is written.       *)
LogIsFlushed == which = "log" => Log!TypeOK /\ Log!StopFlushes
=============================================================================
