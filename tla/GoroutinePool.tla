--------------------------- MODULE GoroutinePool ----------------------------
(***************************************************************************)
(* core/pool/goroutine_pool.go: a fixed set of workers fed by a buffered   *)
(* channel, with a goroutine of its own for a task that finds the channel  *)
(* full.  Go's select takes any ready case, so a worker of a cancelled     *)
(* pool may still take a task, and Submit to a cancelled pool may still    *)
(* enqueue one.                                                            *)
(***************************************************************************)
EXTENDS Naturals, Sequences

CONSTANTS
    Tasks,       \* the closures that callers submit, each once
    Workers,     \* the goroutines running worker()
    QueueSize,   \* capacity of the channel p.tasks
    Waiting,     \* job of a worker blocked in its select
    Exited       \* job of a worker that has returned

ASSUME PoolAssumption ==
    /\ QueueSize \in Nat \ {0}
    /\ Waiting \notin Tasks /\ Exited \notin Tasks /\ Waiting # Exited

VARIABLES
    queue,       \* contents of the channel p.tasks
    job,         \* what each worker is doing
    temps,       \* tasks running in goroutines started by Submit's default case
    finished,    \* tasks whose function has returned
    rejected,    \* tasks Submit dropped because the context was done
    cancelled,   \* p.ctx is done
    shutdown     \* progress of the (single) call of Shutdown

vars == <<queue, job, temps, finished, rejected, cancelled, shutdown>>

Queued    == {queue[i] : i \in 1..Len(queue)}
OnWorkers == {job[w] : w \in Workers} \ {Waiting, Exited}
Running   == OnWorkers \cup temps
Submitted == Queued \cup Running \cup finished \cup rejected

ChannelOK == queue \in Seq(Tasks) /\ Len(queue) <= QueueSize

TypeOK ==
    /\ ChannelOK
    /\ job \in [Workers -> Tasks \cup {Waiting, Exited}]
    /\ temps \subseteq Tasks
    /\ finished \subseteq Tasks
    /\ rejected \subseteq Tasks
    /\ cancelled \in BOOLEAN
    /\ shutdown \in {"not called", "waiting", "returned"}

Init ==
    /\ queue = <<>>
    /\ job = [w \in Workers |-> Waiting]
    /\ temps = {} /\ finished = {} /\ rejected = {}
    /\ cancelled = FALSE
    /\ shutdown = "not called"
-----------------------------------------------------------------------------
(* Submit: one select, three cases.  The default case is taken only when   *)
(* neither of the others is ready.                                         *)

\* Mutant: a queue without a capacity.
SubmitEnqueueUnbounded(t) ==
    /\ t \notin Submitted
    /\ queue' = Append(queue, t)
    /\ UNCHANGED <<job, temps, finished, rejected, cancelled, shutdown>>

SubmitEnqueue(t) ==
    /\ t \notin Submitted
    /\ Len(queue) < QueueSize
    /\ queue' = Append(queue, t)
    /\ UNCHANGED <<job, temps, finished, rejected, cancelled, shutdown>>

SubmitReject(t) ==
    /\ t \notin Submitted
    /\ cancelled
    /\ rejected' = rejected \cup {t}
    /\ UNCHANGED <<queue, job, temps, finished, cancelled, shutdown>>

SubmitSpawn(t) ==
    /\ t \notin Submitted
    /\ Len(queue) = QueueSize /\ ~cancelled
    /\ temps' = temps \cup {t}
    /\ UNCHANGED <<queue, job, finished, rejected, cancelled, shutdown>>

Submit(t) == SubmitEnqueue(t) \/ SubmitReject(t) \/ SubmitSpawn(t)
-----------------------------------------------------------------------------
(* worker: receive a task, run it, look again; leave when the context is   *)
(* done.                                                                   *)

\* Mutant: the task stays in the queue while it runs.
TakeLeaving(w) ==
    /\ job[w] = Waiting /\ queue # <<>>
    /\ job' = [job EXCEPT ![w] = Head(queue)]
    /\ UNCHANGED <<queue, temps, finished, rejected, cancelled, shutdown>>

Take(w) ==
    /\ job[w] = Waiting /\ queue # <<>>
    /\ job' = [job EXCEPT ![w] = Head(queue)]
    /\ queue' = Tail(queue)
    /\ UNCHANGED <<temps, finished, rejected, cancelled, shutdown>>

\* Mutant: a worker that runs a single task.
FinishAndQuit(w) ==
    /\ job[w] \in Tasks
    /\ finished' = finished \cup {job[w]}
    /\ job' = [job EXCEPT ![w] = Exited]
    /\ UNCHANGED <<queue, temps, rejected, cancelled, shutdown>>

Finish(w) ==
    /\ job[w] \in Tasks
    /\ finished' = finished \cup {job[w]}
    /\ job' = [job EXCEPT ![w] = Waiting]
    /\ UNCHANGED <<queue, temps, rejected, cancelled, shutdown>>

\* Mutant: cancellation interrupts the task a worker runs.
ExitMidTask(w) ==
    /\ job[w] # Exited /\ cancelled
    /\ job' = [job EXCEPT ![w] = Exited]
    /\ UNCHANGED <<queue, temps, finished, rejected, cancelled, shutdown>>

Exit(w) ==
    /\ job[w] = Waiting /\ cancelled
    /\ job' = [job EXCEPT ![w] = Exited]
    /\ UNCHANGED <<queue, temps, finished, rejected, cancelled, shutdown>>

FinishTemp(t) ==
    /\ t \in temps
    /\ temps' = temps \ {t}
    /\ finished' = finished \cup {t}
    /\ UNCHANGED <<queue, job, rejected, cancelled, shutdown>>
-----------------------------------------------------------------------------
(* Shutdown: cancel the context, wait for the worker WaitGroup.            *)

Cancel ==
    /\ shutdown = "not called"
    /\ cancelled' = TRUE
    /\ shutdown' = "waiting"
    /\ UNCHANGED <<queue, job, temps, finished, rejected>>

\* Mutants: no wg.Wait; a Shutdown that waits for the queue too.
ReturnAtOnce ==
    /\ shutdown = "waiting"
    /\ shutdown' = "returned"
    /\ UNCHANGED <<queue, job, temps, finished, rejected, cancelled>>

ReturnWhenDrained ==
    /\ shutdown = "waiting" /\ queue = <<>>
    /\ \A w \in Workers : job[w] = Exited
    /\ shutdown' = "returned"
    /\ UNCHANGED <<queue, job, temps, finished, rejected, cancelled>>

Return ==
    /\ shutdown = "waiting"
    /\ \A w \in Workers : job[w] = Exited
    /\ shutdown' = "returned"
    /\ UNCHANGED <<queue, job, temps, finished, rejected, cancelled>>

\* Nothing is left to do: every task was submitted, and the pool is shut down.
Done ==
    /\ shutdown = "returned" /\ temps = {} /\ Tasks \subseteq Submitted
    /\ UNCHANGED vars

Next ==
    \/ \E t \in Tasks : Submit(t) \/ FinishTemp(t)
    \/ \E w \in Workers : Take(w) \/ Finish(w) \/ Exit(w)
    \/ Cancel \/ Return \/ Done

Spec == Init /\ [][Next]_vars

(***************************************************************************)
(* The Go scheduler runs every runnable goroutine, and the tasks of this   *)
(* program return (detection reads under a deadline).  Callers owe nothing *)
(* (no fairness on Submit or Cancel).  Weak fairness of Exit is enough:    *)
(* finitely many tasks are submitted, so a worker cannot prefer the queue  *)
(* for ever.                                                               *)
(***************************************************************************)
Fairness ==
    /\ \A w \in Workers :
        WF_vars(Take(w)) /\ WF_vars(Finish(w)) /\ WF_vars(Exit(w))
    /\ \A t \in Tasks : WF_vars(FinishTemp(t))
    /\ WF_vars(Return)

FairSpec == Spec /\ Fairness
-----------------------------------------------------------------------------
QueuedOnce == \A i, j \in 1..Len(queue) : queue[i] = queue[j] => i = j
RunByOne == \A v, w \in Workers : job[v] = job[w] /\ job[v] \in Tasks => v = w

(* A task is in one place only: it is neither queued twice, nor queued and *)
(* running, nor run by two goroutines, nor run again after it finished     *)
(* (Submit's three cases against the workers' receive).                    *)
OnePlace ==
    /\ QueuedOnce /\ RunByOne
    /\ Queued \cap (Running \cup finished \cup rejected) = {}
    /\ OnWorkers \cap temps = {}
    /\ Running \cap (finished \cup rejected) = {}
    /\ finished \cap rejected = {}

(* Shutdown waits for the workers: once it has returned no worker runs a   *)
(* task, and tasks are turned away only by a cancelled pool.               *)
ShutdownQuiesces ==
    /\ shutdown = "returned" => OnWorkers = {}
    /\ shutdown # "not called" \/ rejected # {} => cancelled

(* A task still queued when Shutdown returns is stranded: no later step    *)
(* takes it out of the channel (the workers are gone and nobody else       *)
(* receives from p.tasks), although the comment at goroutine_pool.go:75    *)
(* says that Shutdown "waits for all tasks to complete".                   *)
StrandedStaysStranded ==
    [][shutdown = "returned" => Queued \subseteq Queued']_vars

(* While the pool is open every queued task is run to its end: a worker    *)
(* always comes back for it.                                               *)
QueuedTasksRun ==
    \A t \in Tasks : (t \in Queued) ~> (t \in finished \/ cancelled)

(* Shutdown returns, whatever was queued or running when it was called.    *)
ShutdownReturns == cancelled ~> (shutdown = "returned")

(* No task waits for ever in a pool that is open, and Shutdown ends one    *)
(* that is not.                                                            *)
PoolDrains == QueuedTasksRun /\ ShutdownReturns
-----------------------------------------------------------------------------
(* The phase of a task as TaskExecutor sees it.                            *)
PhaseOf(t) ==
    CASE t \in finished -> "finished"
      [] t \in rejected -> "rejected"
      [] t \in Running  -> "running"
      [] t \in Queued   -> "accepted"
      [] OTHER          -> "new"

Executor == INSTANCE TaskExecutor WITH phase <- [t \in Tasks |-> PhaseOf(t)]

(* Every step of the pool is a step of TaskExecutor or changes no phase.   *)
ImplementsExecutor == Executor!Spec
=============================================================================
