----------------------- MODULE OptimizedGoroutinePool -----------------------
(***************************************************************************)
(* core/pool/enhanced_pool.go, OptimizedGoroutinePool: workers that come   *)
(* with load and leave after a timeout, counters kept with atomic          *)
(* instructions beside them, and a Shutdown that holds p.mutex while it    *)
(* waits for the workers.  Tasks are counted, not told apart.              *)
(***************************************************************************)
EXTENDS Integers, FiniteSets

CONSTANTS
    Submitters,             \* goroutines calling Submit or SubmitWithTimeout
    Slots,                  \* worker goroutines; a slot is used again
    MinWorkers, MaxWorkers, \* config
    TaskQueueSize,          \* config.QueueSize
    ScaleUp, Scale,         \* config.ScaleUpThreshold is ScaleUp / Scale
    MaxSubmits              \* bound: submissions that are begun

VARIABLES
    queued,       \* len(p.tasks)
    worker,       \* what each worker goroutine is about to do
    workerCount, idleWorkers,
    submitted, completed, rejected,  \* p.metrics
    submit, begun,                   \* local state of the submitters
    scaler,       \* where autoScaler is, and what it has read
    open,         \* p.running
    closing       \* progress of Shutdown; it holds p.mutex while "waiting"

countVars  == <<workerCount, idleWorkers>>
metricVars == <<submitted, completed, rejected>>
submitVars == <<submit, begun>>
closeVars  == <<open, closing>>
vars == <<queued, worker, countVars, metricVars, submitVars, scaler, closeVars>>

ScalerStates == [at : {"select", "read", "add", "exited"}, queued : 0..TaskQueueSize,
                 count : Int, more : 0..10, counted : BOOLEAN]

TypeOK ==
    /\ queued \in 0..TaskQueueSize
    /\ worker \in [Slots -> {"none", "select", "received", "running", "finished",
                             "updated", "expiring", "leaving"}]
    /\ workerCount \in Int /\ idleWorkers \in Int
    /\ submitted \in Nat /\ completed \in Nat /\ rejected \in Nat
    /\ submit \in [Submitters -> {"idle", "try", "wait", "sent"}]
    /\ begun \in 0..MaxSubmits
    /\ scaler \in ScalerStates
    /\ open \in BOOLEAN
    /\ closing \in {"no", "waiting", "returned"}

Init ==
    /\ queued = 0
    /\ \E first \in SUBSET Slots :
        /\ Cardinality(first) = MinWorkers
        /\ worker = [w \in Slots |-> IF w \in first THEN "select" ELSE "none"]
    /\ workerCount = MinWorkers /\ idleWorkers = MinWorkers
    /\ submitted = 0 /\ completed = 0 /\ rejected = 0
    /\ submit = [s \in Submitters |-> "idle"] /\ begun = 0
    /\ scaler = [at |-> "select", queued |-> 0, count |-> 0, more |-> 0, counted |-> FALSE]
    /\ open = TRUE /\ closing = "no"
-----------------------------------------------------------------------------
(* Submit ("try") and SubmitWithTimeout ("wait").                          *)

SubmitTo(s, place) == submit' = [submit EXCEPT ![s] = place]

CheckRunning(s, kind) ==
    /\ submit[s] = "idle" /\ begun < MaxSubmits
    /\ begun' = begun + 1
    /\ IF open THEN SubmitTo(s, kind) /\ UNCHANGED rejected
               ELSE rejected' = rejected + 1 /\ UNCHANGED submit
    /\ UNCHANGED <<queued, worker, countVars, submitted, completed, scaler, closeVars>>

Send(s) ==
    /\ submit[s] \in {"try", "wait"} /\ queued < TaskQueueSize
    /\ queued' = queued + 1
    /\ SubmitTo(s, "sent")
    /\ UNCHANGED <<worker, countVars, metricVars, begun, scaler, closeVars>>

CountSubmitted(s) ==
    /\ submit[s] = "sent"
    /\ submitted' = submitted + 1
    /\ SubmitTo(s, "idle")
    /\ UNCHANGED <<queued, worker, countVars, completed, rejected, begun, scaler, closeVars>>

\* A full queue, or the timeout, which select may prefer to room in the queue.
RejectTask(s) ==
    /\ \/ submit[s] = "try" /\ queued = TaskQueueSize
       \/ submit[s] = "wait"
    /\ rejected' = rejected + 1
    /\ SubmitTo(s, "idle")
    /\ UNCHANGED <<queued, worker, countVars, submitted, completed, begun, scaler, closeVars>>
-----------------------------------------------------------------------------
(* A worker, one atomic instruction at a time.                             *)

Moves(w, from, to) == worker[w] = from /\ worker' = [worker EXCEPT ![w] = to]

Receive(w) ==
    /\ Moves(w, "select", "received") /\ queued > 0
    /\ queued' = queued - 1
    /\ UNCHANGED <<countVars, metricVars, submitVars, scaler, closeVars>>

BeginTask(w) ==
    /\ Moves(w, "received", "running")
    /\ idleWorkers' = idleWorkers - 1
    /\ UNCHANGED <<queued, workerCount, metricVars, submitVars, scaler, closeVars>>

EndTask(w) ==
    /\ Moves(w, "running", "finished")
    /\ completed' = completed + 1
    /\ UNCHANGED <<queued, countVars, submitted, rejected, submitVars, scaler, closeVars>>

\* updateTaskTime needs p.mutex.
UpdateTaskTime(w) ==
    /\ Moves(w, "finished", "updated") /\ closing # "waiting"
    /\ UNCHANGED <<queued, countVars, metricVars, submitVars, scaler, closeVars>>

\* Mutant: the worker is not counted idle again.
ResumeUncounted(w) ==
    /\ Moves(w, "updated", "select")
    /\ UNCHANGED <<queued, countVars, metricVars, submitVars, scaler, closeVars>>

Resume(w) ==
    /\ Moves(w, "updated", "select")
    /\ idleWorkers' = idleWorkers + 1
    /\ UNCHANGED <<queued, workerCount, metricVars, submitVars, scaler, closeVars>>

\* WorkerTimeout or ctx.Done.
Expire(w) ==
    /\ Moves(w, "select", "expiring")
    /\ workerCount > MinWorkers \/ closing # "no"
    /\ UNCHANGED <<queued, countVars, metricVars, submitVars, scaler, closeVars>>

DropIdle(w) ==
    /\ Moves(w, "expiring", "leaving")
    /\ idleWorkers' = idleWorkers - 1
    /\ UNCHANGED <<queued, workerCount, metricVars, submitVars, scaler, closeVars>>

Leave(w) ==
    /\ Moves(w, "leaving", "none")
    /\ workerCount' = workerCount - 1
    /\ UNCHANGED <<queued, idleWorkers, metricVars, submitVars, scaler, closeVars>>

WorkerStep(w) ==
    \/ Receive(w) \/ BeginTask(w) \/ EndTask(w) \/ UpdateTaskTime(w) \/ Resume(w)
    \/ Expire(w) \/ DropIdle(w) \/ Leave(w)
-----------------------------------------------------------------------------
(* autoScaler.                                                             *)

ScaleRead ==
    /\ scaler.at = "select"
    /\ scaler' = [scaler EXCEPT !.at = "read", !.queued = queued, !.count = workerCount]
    /\ UNCHANGED <<queued, worker, countVars, metricVars, submitVars, closeVars>>

\* Both quotients of the code, multiplied out; 0 / 0 exceeds nothing either way.
Busy == \/ scaler.queued * Scale > ScaleUp * TaskQueueSize
        \/ (scaler.count - idleWorkers) * Scale > ScaleUp * scaler.count

\* Mutant: the limit is not looked at.
ScaleCountUnlimited == IF Busy THEN 1 ELSE 0

\* A fifth of what is missing, at least one and at most ten.
ScaleCount ==
    LET fifth == (MaxWorkers - scaler.count) \div 5
    IN  IF ~Busy \/ scaler.count >= MaxWorkers THEN 0
        ELSE IF fifth < 1 THEN 1 ELSE IF fifth > 10 THEN 10 ELSE fifth

Rest == [at |-> "select", queued |-> 0, count |-> 0, more |-> 0, counted |-> FALSE]

ScaleDecide ==
    /\ scaler.at = "read"
    /\ scaler' = IF ScaleCount = 0 THEN Rest ELSE [Rest EXCEPT !.at = "add", !.more = ScaleCount]
    /\ UNCHANGED <<queued, worker, countVars, metricVars, submitVars, closeVars>>

\* addWorker counts the worker, counts it idle, and starts it.
AddCount ==
    /\ scaler.at = "add" /\ ~scaler.counted
    /\ workerCount' = workerCount + 1
    /\ scaler' = [scaler EXCEPT !.counted = TRUE]
    /\ UNCHANGED <<queued, worker, idleWorkers, metricVars, submitVars, closeVars>>

AddStart ==
    /\ scaler.at = "add" /\ scaler.counted
    /\ idleWorkers' = idleWorkers + 1
    /\ \E w \in Slots : Moves(w, "none", "select")
    /\ scaler' = IF scaler.more = 1 THEN Rest
                 ELSE [scaler EXCEPT !.more = @ - 1, !.counted = FALSE]
    /\ UNCHANGED <<queued, workerCount, metricVars, submitVars, closeVars>>

ScalerExit ==
    /\ scaler.at = "select" /\ closing # "no"
    /\ scaler' = [scaler EXCEPT !.at = "exited"]
    /\ UNCHANGED <<queued, worker, countVars, metricVars, submitVars, closeVars>>

ScalerStep == ScaleRead \/ ScaleDecide \/ AddCount \/ AddStart \/ ScalerExit
-----------------------------------------------------------------------------
\* Lock p.mutex, clear running, cancel; wait; unlock.
ShutdownBegin ==
    /\ closing = "no"
    /\ open' = FALSE /\ closing' = "waiting"
    /\ UNCHANGED <<queued, worker, countVars, metricVars, submitVars, scaler>>

ShutdownReturn ==
    /\ closing = "waiting" /\ \A w \in Slots : worker[w] = "none"
    /\ closing' = "returned"
    /\ UNCHANGED <<queued, worker, countVars, metricVars, submitVars, scaler, open>>

Next ==
    \/ \E s \in Submitters :
        \/ \E kind \in {"try", "wait"} : CheckRunning(s, kind)
        \/ Send(s) \/ CountSubmitted(s) \/ RejectTask(s)
    \/ \E w \in Slots : WorkerStep(w)
    \/ ScalerStep \/ ShutdownBegin \/ ShutdownReturn

Spec == Init /\ [][Next]_vars

\* Every goroutine that can go on does; tasks end.
FairSpec ==
    /\ Spec
    /\ \A w \in Slots : WF_vars(WorkerStep(w)) /\ SF_vars(Expire(w) /\ closing # "no")
    /\ SF_vars(ScalerExit) /\ WF_vars(ScaleDecide \/ AddCount \/ AddStart)
    /\ WF_vars(ShutdownReturn)
-----------------------------------------------------------------------------
Workers(states) == Cardinality({w \in Slots : worker[w] \in states})

(* The counters the scaler and the metrics go by are exact up to the       *)
(* instructions under way: workerCount counts the workers there are,       *)
(* idleWorkers those not working on a task, and every task sent is queued, *)
(* with a worker, or completed, whoever is overtaken between his channel   *)
(* operation and his counter.                                              *)
Accounted ==
    /\ workerCount = Cardinality(Slots) - Workers({"none"}) + (IF scaler.counted THEN 1 ELSE 0)
    /\ idleWorkers = Workers({"select", "received", "expiring"})
    /\ queued + Workers({"received", "running"}) + completed
        = submitted + Cardinality({s \in Submitters : submit[s] = "sent"})

(* The scaler goes by numbers that are out of date when it adds workers,   *)
(* and still never has more than MaxWorkers of them.                       *)
WithinMaxWorkers == workerCount <= MaxWorkers

(* The counters are right, and the limit holds that is decided by them.    *)
CountsAndLimit == Accounted /\ WithinMaxWorkers

(* The comment at enhanced_pool.go:719 has Shutdown wait for all workers   *)
(* to complete: it does not wait for ever.                                 *)
ShutdownReturns == (closing = "waiting") ~> (closing = "returned")
=============================================================================
