-------------------------- MODULE MCManagerAndPools -------------------------
(***************************************************************************)
(* The processor manager, the two enhanced pools, and the components that  *)
(* tune: resource quotas, cores and the two performance monitors. They     *)
(* share nothing, so each behaviour is a behaviour of one of them; the     *)
(* initial state chooses which.                                            *)
(***************************************************************************)
EXTENDS ProcessorManager, TLC

CONSTANTS
    Submitters, Slots, MinWorkers, MaxWorkers, TaskQueueSize, ScaleUp, Scale,
    MaxSubmits, Connections, Protocols, MaxConnections, MinConnections,
    NoProtocol, Whole, Recorders, Buckets, LearningLimit, MaxRequests,
    MaxSecond, Capacity, MaxStarts, MaxActions, QuotaSetters, DefaultShare

\* A configuration that makes sense, of a machine that can run it.
ASSUME PoolsAssumption ==
    /\ NoProtocol \notin Protocols
    /\ IsFiniteSet(Slots) /\ IsFiniteSet(Submitters)
    /\ TaskQueueSize \in Nat /\ MaxSubmits \in Nat
    /\ MinWorkers \in Nat /\ MaxWorkers \in Nat /\ MinWorkers <= MaxWorkers

\* The default quotas add up to no more than the whole; 0 is no bucket.
ASSUME TuningAssumption ==
    /\ Whole \in Nat /\ IsFiniteSet(DOMAIN DefaultShare)
    /\ DefaultShare \in [DOMAIN DefaultShare -> 0..Whole]
    /\ Cardinality(UNION {{t} \X (1..DefaultShare[t]) : t \in DOMAIN DefaultShare}) <= Whole
    /\ IsFiniteSet(Recorders) /\ IsFiniteSet(Buckets) /\ 0 \notin Buckets
    /\ LearningLimit \in Nat /\ MaxRequests \in Nat /\ MaxSecond \in Nat
    /\ Capacity \in Nat /\ MaxStarts \in Nat /\ MaxActions \in Nat

VARIABLES
    which,
    queued, worker, workerCount, idleWorkers, submitted, completed, rejected,
    submit, goroutinesBegun, scaler, open, closing,
    offered, pooled, protocolOf, groups, closes, lost, healthy, stale, total,
    poolOpen, toCheck, toClean,
    quotas, setter, disturbed,
    holder, requests, histogram, recorder, second, decisions, learned, tuning,
    loops, done,
    enabled, starts, stopped, toSend, monitors, tuningChan, tuner,
    tuningActions, procs, kindOf

Goroutines == INSTANCE OptimizedGoroutinePool WITH
    begun <- goroutinesBegun

Conns == INSTANCE OptimizedConnectionPool

Quotas == INSTANCE ResourceManager WITH
    Setters <- QuotaSetters, Share <- DefaultShare

Adaptive == INSTANCE AdaptiveMonitor

Tuning == INSTANCE PerformanceMonitor

goroutinesVars ==
    <<queued, worker, workerCount, idleWorkers, submitted, completed, rejected,
      submit, goroutinesBegun, scaler, open, closing>>
connectionsVars ==
    <<offered, pooled, protocolOf, groups, closes, lost, healthy, stale, total,
      poolOpen, toCheck, toClean>>
quotasVars ==
    <<quotas, setter, disturbed>>
adaptiveVars ==
    <<holder, requests, histogram, recorder, second, decisions, learned, tuning,
      loops, done>>
perfVars ==
    <<enabled, starts, stopped, toSend, monitors, tuningChan, tuner,
      tuningActions, procs, kindOf>>
-----------------------------------------------------------------------------
suiteVars == <<which, vars, goroutinesVars, connectionsVars, quotasVars,
              adaptiveVars, perfVars>>

SuiteInit ==
    /\ which \in {"manager", "goroutines", "connections", "quotas", "adaptive",
                  "perf"}
    /\ Init /\ Goroutines!Init /\ Conns!Init
    /\ Quotas!Init /\ Adaptive!Init /\ Tuning!Init

SuiteNext ==
    \/ /\ which = "manager" /\ Next
       /\ UNCHANGED <<which, goroutinesVars, connectionsVars, quotasVars,
                        adaptiveVars, perfVars>>
    \/ /\ which = "goroutines" /\ Goroutines!Next
       /\ UNCHANGED <<which, vars, connectionsVars, quotasVars, adaptiveVars,
                        perfVars>>
    \/ /\ which = "connections" /\ Conns!Next
       /\ UNCHANGED <<which, vars, goroutinesVars, quotasVars, adaptiveVars,
                        perfVars>>
    \/ /\ which = "quotas" /\ Quotas!Next
       /\ UNCHANGED <<which, vars, goroutinesVars, connectionsVars,
                        adaptiveVars, perfVars>>
    \/ /\ which = "adaptive" /\ Adaptive!Next
       /\ UNCHANGED <<which, vars, goroutinesVars, connectionsVars,
                        quotasVars, perfVars>>
    \/ /\ which = "perf" /\ Tuning!Next
       /\ UNCHANGED <<which, vars, goroutinesVars, connectionsVars,
                        quotasVars, adaptiveVars>>

SuiteSpec == SuiteInit /\ [][SuiteNext]_suiteVars

\* The connections bear the names of the slots: the fewer the permutations, the
\* less each state costs.
Symmetry == Permutations(Slots) \cup Permutations(Protocols)

\* The instance that the run checks.
SharesOfTypes == [http |-> 2, streaming |-> 1, system |-> 1]
-----------------------------------------------------------------------------
(* Two selections of one turn go to two processors, and turns are even.    *)
TurnsFair == which = "manager" => TypeOK /\ FairTurns

(* The goroutine pool's counters are exact up to the instructions under    *)
(* way, and its limit of workers holds.                                    *)
CountsAndLimit ==
    which = "goroutines" => Goroutines!TypeOK /\ Goroutines!CountsAndLimit

(* The connection pool's maps agree, and it closes what it does not keep,  *)
(* once.                                                                   *)
PoolAgrees == which = "connections" => Conns!TypeOK /\ Conns!PoolAgrees

(* Quotas fit the machine, tuning actions are executed in order, and       *)
(* results are booked to decisions.                                        *)
TuningHolds ==
    /\ which = "quotas" => Quotas!TypeOK /\ Quotas!QuotasFit
    /\ which = "adaptive" => Adaptive!TypeOK /\ Adaptive!ResultsFindDecisions
    /\ which = "perf" => Tuning!TypeOK /\ Tuning!ActionsInOrder
=============================================================================
