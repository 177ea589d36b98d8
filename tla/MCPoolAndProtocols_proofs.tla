--------------------- MODULE MCPoolAndProtocols_proofs ---------------------
(***************************************************************************)
(* Proofs about GoroutinePool: its invariants, and that it implements      *)
(* TaskExecutor, for any tasks, workers and queue size.  And about the     *)
(* HTTP connection manager, the WebSocket handler and the gRPC handler:    *)
(* slots, writers, connections and servers are accounted for, for any      *)
(* connections, callers and limits.  And about the logger: what was sent   *)
(* is written once and in order, for any senders and events.  And about    *)
(* the protocol processor: a task is held once, and the cache bounded.     *)
(***************************************************************************)
EXTENDS MCPoolAndProtocols, TLAPS, SequenceTheorems, FiniteSetTheorems

LEMMA AppendToQueue ==
    ASSUME queue \in Seq(Tasks), NEW t \in Tasks,
           queue' = Append(queue, t)
    PROVE  /\ queue' \in Seq(Tasks) /\ Len(queue') = Len(queue) + 1
           /\ Queued' = Queued \cup {t}
           /\ \A i \in 1..Len(queue) : queue'[i] = queue[i]
           /\ queue'[Len(queue) + 1] = t
<1>1. /\ queue' \in Seq(Tasks) /\ Len(queue') = Len(queue) + 1
      /\ \A i \in 1..Len(queue) : queue'[i] = queue[i]
      /\ queue'[Len(queue) + 1] = t
  BY AppendProperties
<1>2. Len(queue) \in Nat
  BY LenProperties
<1>3. Queued' = Queued \cup {t}
  BY <1>1, <1>2 DEF Queued
<1> QED BY <1>1, <1>3

LEMMA TailOfQueue ==
    ASSUME queue \in Seq(Tasks), queue # <<>>, queue' = Tail(queue)
    PROVE  /\ queue' \in Seq(Tasks) /\ Len(queue') = Len(queue) - 1
           /\ Head(queue) \in Queued /\ Head(queue) \in Tasks
           /\ Len(queue) \in Nat \ {0} /\ Head(queue) = queue[1]
           /\ \A i \in 1..Len(queue') : queue'[i] = queue[i + 1]
           /\ Queued = Queued' \cup {Head(queue)}
<1>1. /\ queue' \in Seq(Tasks) /\ Len(queue') = Len(queue) - 1
      /\ Head(queue) \in Tasks
      /\ \A i \in 1..Len(queue') : queue'[i] = queue[i + 1]
  BY HeadTailProperties
<1>2. Len(queue) \in Nat \ {0} /\ Head(queue) = queue[1]
  BY EmptySeq, LenProperties
<1>3. Head(queue) \in Queued
  BY <1>2 DEF Queued
<1>4. Queued = Queued' \cup {Head(queue)}
  <2>1. ASSUME NEW i \in 1..Len(queue) PROVE queue[i] \in Queued' \cup {Head(queue)}
    <3>1. CASE i = 1 BY <3>1, <1>2
    <3>2. CASE i # 1
      <4>1. i - 1 \in 1..Len(queue') /\ queue'[i - 1] = queue[i]
        BY <3>2, <1>1, <1>2
      <4> QED BY <4>1 DEF Queued
    <3> QED BY <3>1, <3>2
  <2>2. ASSUME NEW i \in 1..Len(queue') PROVE queue'[i] \in Queued
    <3>1. i + 1 \in 1..Len(queue) /\ queue'[i] = queue[i + 1]
      BY <1>1, <1>2
    <3> QED BY <3>1 DEF Queued
  <2> QED BY <2>1, <2>2, <1>3 DEF Queued
<1> QED BY <1>1, <1>2, <1>3, <1>4
-----------------------------------------------------------------------------
LEMMA TypeInit == Init => TypeOK
<1>1. Init => ChannelOK
  <2>1. <<>> \in Seq(Tasks) /\ Len(<<>>) = 0
    BY EmptySeq
  <2>2. queue = <<>> => ChannelOK
    BY <2>1, PoolAssumption DEF ChannelOK, PoolAssumption
  <2> QED BY <2>2 DEF Init
<1> QED BY <1>1 DEF Init, TypeOK

LEMMA TypeStep == TypeOK /\ [Next]_vars => TypeOK'
<1> SUFFICES ASSUME TypeOK, [Next]_vars PROVE TypeOK'
  OBVIOUS
<1>0. ChannelOK BY DEF TypeOK
<1>1. ASSUME NEW t \in Tasks, SubmitEnqueue(t) PROVE TypeOK'
  <2>1. ChannelOK'
    <3>1. Len(queue) \in Nat /\ Len(queue') = Len(queue) + 1 /\ queue' \in Seq(Tasks)
      BY <1>0, <1>1, AppendToQueue, LenProperties DEF SubmitEnqueue, ChannelOK
    <3>2. Len(queue) < QueueSize /\ QueueSize \in Nat
      BY <1>1, PoolAssumption DEF SubmitEnqueue, PoolAssumption
    <3> QED BY <3>1, <3>2 DEF ChannelOK
  <2> QED BY <1>1, <2>1 DEF SubmitEnqueue, TypeOK
<1>2. ASSUME NEW t \in Tasks, SubmitReject(t) PROVE TypeOK'
  BY <1>2 DEF SubmitReject, TypeOK, ChannelOK
<1>3. ASSUME NEW t \in Tasks, SubmitSpawn(t) PROVE TypeOK'
  BY <1>3 DEF SubmitSpawn, TypeOK, ChannelOK
<1>4. ASSUME NEW t \in Tasks, FinishTemp(t) PROVE TypeOK'
  BY <1>4 DEF FinishTemp, TypeOK, ChannelOK
<1>5. ASSUME NEW w \in Workers, Take(w) PROVE TypeOK'
  <2>1. ChannelOK' /\ Head(queue) \in Tasks
    <3>1. /\ Len(queue) \in Nat /\ Len(queue') = Len(queue) - 1
          /\ queue' \in Seq(Tasks) /\ Head(queue) \in Tasks
      BY <1>0, <1>5, TailOfQueue DEF Take, ChannelOK
    <3>2. Len(queue) <= QueueSize /\ QueueSize \in Nat
      BY <1>0, PoolAssumption DEF ChannelOK, PoolAssumption
    <3> QED BY <3>1, <3>2 DEF ChannelOK
  <2> QED BY <1>5, <2>1 DEF Take, TypeOK
<1>6. ASSUME NEW w \in Workers, Finish(w) PROVE TypeOK'
  BY <1>6 DEF Finish, TypeOK, ChannelOK
<1>7. ASSUME NEW w \in Workers, Exit(w) PROVE TypeOK'
  BY <1>7 DEF Exit, TypeOK, ChannelOK
<1>8. CASE Cancel
  BY <1>8 DEF Cancel, TypeOK, ChannelOK
<1>9. CASE Return
  BY <1>9 DEF Return, TypeOK, ChannelOK
<1>10. CASE UNCHANGED vars
  BY <1>10 DEF vars, TypeOK, ChannelOK
<1> QED
  BY <1>1, <1>2, <1>3, <1>4, <1>5, <1>6, <1>7, <1>8, <1>9, <1>10
  DEF Next, Submit, Done

(* The variables keep their types, and the channel its capacity: no        *)
(* interleaving of Submit, the workers and Shutdown overfills it.          *)
THEOREM TypeCorrect == Spec => []TypeOK
BY TypeInit, TypeStep, PTL DEF Spec
-----------------------------------------------------------------------------
(* The inductive invariant: OnePlace is inductive together with the types; *)
(* ShutdownQuiesces needs that the workers of a pool that is shut down     *)
(* have returned, not only that they run no task.                          *)
ShutdownOrder ==
    /\ shutdown = "returned" => \A w \in Workers : job[w] = Exited
    /\ shutdown # "not called" \/ rejected # {} => cancelled

IInv == TypeOK /\ OnePlace /\ ShutdownOrder

LEMMA Places ==
    ASSUME TypeOK
    PROVE  /\ Queued \subseteq Tasks /\ OnWorkers \subseteq Tasks
           /\ Waiting \notin Tasks /\ Exited \notin Tasks
           /\ \A w \in Workers : job[w] \in Tasks => job[w] \in OnWorkers
<1>1. Queued \subseteq Tasks
  BY ElementOfSeq DEF TypeOK, ChannelOK, Queued
<1> QED BY <1>1, PoolAssumption DEF TypeOK, OnWorkers, PoolAssumption

(* What a worker's steps do to the set of tasks on workers.                *)
LEMMA JobStarts ==
    ASSUME TypeOK, NEW w \in Workers, NEW t \in Tasks, job[w] = Waiting,
           job' = [job EXCEPT ![w] = t]
    PROVE  OnWorkers' = OnWorkers \cup {t}
BY PoolAssumption DEF TypeOK, OnWorkers, PoolAssumption

LEMMA JobEnds ==
    ASSUME TypeOK, RunByOne, NEW w \in Workers, job[w] \in Tasks,
           job' = [job EXCEPT ![w] = Waiting]
    PROVE  OnWorkers' = OnWorkers \ {job[w]}
BY PoolAssumption DEF TypeOK, OnWorkers, RunByOne, PoolAssumption

LEMMA WorkerLeaves ==
    ASSUME TypeOK, NEW w \in Workers, job[w] = Waiting,
           job' = [job EXCEPT ![w] = Exited]
    PROVE  OnWorkers' = OnWorkers
BY PoolAssumption DEF TypeOK, OnWorkers, PoolAssumption

LEMMA HeadLeavesQueue ==
    ASSUME ChannelOK, QueuedOnce, queue # <<>>, queue' = Tail(queue)
    PROVE  QueuedOnce' /\ Queued' = Queued \ {Head(queue)}
<1> USE DEF ChannelOK
<1>1. ASSUME NEW i \in 1..Len(queue'), NEW j \in 1..Len(queue'),
             queue'[i] = queue'[j]
      PROVE  i = j
  <2>1. i + 1 \in 1..Len(queue) /\ j + 1 \in 1..Len(queue) /\ queue[i + 1] = queue[j + 1]
    BY <1>1, TailOfQueue
  <2> QED BY <2>1, TailOfQueue DEF QueuedOnce
<1>2. Head(queue) \notin Queued'
  <2> SUFFICES ASSUME NEW i \in 1..Len(queue'), queue'[i] = Head(queue)
               PROVE  FALSE
    BY DEF Queued
  <2>1. i + 1 \in 1..Len(queue) /\ 1 \in 1..Len(queue) /\ queue[i + 1] = queue[1]
    BY TailOfQueue
  <2> QED BY <2>1 DEF QueuedOnce
<1> QED BY <1>1, <1>2, TailOfQueue DEF QueuedOnce

LEMMA NewInQueue ==
    ASSUME ChannelOK, QueuedOnce, NEW t \in Tasks, t \notin Queued,
           queue' = Append(queue, t)
    PROVE  QueuedOnce'
<1> USE DEF ChannelOK
<1>1. Len(queue) \in Nat
  BY LenProperties
<1> SUFFICES ASSUME NEW i \in 1..Len(queue'), NEW j \in 1..Len(queue'),
                    queue'[i] = queue'[j]
             PROVE  i = j
  BY DEF QueuedOnce
<1>2. \A k \in 1..Len(queue) : queue'[k] = queue[k] /\ queue[k] # t
  BY AppendToQueue DEF Queued
<1>3. \A k \in 1..Len(queue') : k \in 1..Len(queue) \/ (k = Len(queue) + 1 /\ queue'[k] = t)
  BY <1>1, AppendToQueue
<1> QED BY <1>2, <1>3 DEF QueuedOnce
-----------------------------------------------------------------------------
LEMMA InductiveInit == Init => IInv
<1> SUFFICES ASSUME Init PROVE IInv
  OBVIOUS
<1>1. TypeOK
  <2>1. ASSUME queue = <<>> PROVE ChannelOK /\ Len(queue) = 0
    BY <2>1, EmptySeq, PoolAssumption DEF ChannelOK, PoolAssumption
  <2> QED BY <2>1 DEF Init, TypeOK
<1>2. Queued = {} /\ QueuedOnce
  <2>1. queue = <<>> BY DEF Init
  <2>2. Len(queue) = 0 BY <2>1, EmptySeq
  <2> QED BY <2>2 DEF Queued, QueuedOnce
<1>3. OnWorkers = {}
  BY DEF Init, OnWorkers
<1>4. RunByOne
  BY PoolAssumption DEF Init, RunByOne, PoolAssumption
<1> QED BY <1>1, <1>2, <1>3, <1>4 DEF Init, IInv, OnePlace, ShutdownOrder, Running

LEMMA InductiveStep == IInv /\ TypeOK' /\ [Next]_vars => IInv'
<1> SUFFICES ASSUME IInv, TypeOK', [Next]_vars PROVE OnePlace' /\ ShutdownOrder'
  BY DEF IInv
<1>0. TypeOK /\ OnePlace /\ ShutdownOrder /\ ChannelOK
  BY DEF IInv, TypeOK
<1>1. ASSUME NEW t \in Tasks, SubmitEnqueue(t) PROVE OnePlace' /\ ShutdownOrder'
  <2>1. t \notin Queued \cup Running \cup finished \cup rejected
    BY <1>1 DEF SubmitEnqueue, Submitted
  <2>2. Queued' = Queued \cup {t} /\ QueuedOnce'
    BY <1>0, <1>1, <2>1, AppendToQueue, NewInQueue DEF SubmitEnqueue, ChannelOK, OnePlace
  <2>3. /\ OnWorkers' = OnWorkers /\ Running' = Running /\ RunByOne'
        /\ temps' = temps /\ finished' = finished /\ rejected' = rejected
    BY <1>0, <1>1 DEF SubmitEnqueue, OnWorkers, Running, RunByOne, OnePlace
  <2>4. ShutdownOrder'
    BY <1>0, <1>1 DEF SubmitEnqueue, ShutdownOrder
  <2> QED BY <1>0, <2>1, <2>2, <2>3, <2>4 DEF OnePlace
<1>2. ASSUME NEW t \in Tasks, SubmitReject(t) PROVE OnePlace' /\ ShutdownOrder'
  <2>1. t \notin Queued \cup Running \cup finished \cup rejected
    BY <1>2 DEF SubmitReject, Submitted
  <2>2. /\ Queued' = Queued /\ OnWorkers' = OnWorkers /\ Running' = Running
        /\ QueuedOnce' /\ RunByOne'
        /\ temps' = temps /\ finished' = finished /\ rejected' = rejected \cup {t}
    BY <1>0, <1>2 DEF SubmitReject, Queued, OnWorkers, Running, OnePlace, QueuedOnce, RunByOne
  <2>3. ShutdownOrder'
    BY <1>0, <1>2 DEF SubmitReject, ShutdownOrder
  <2> QED BY <1>0, <2>1, <2>2, <2>3 DEF OnePlace
<1>3. ASSUME NEW t \in Tasks, SubmitSpawn(t) PROVE OnePlace' /\ ShutdownOrder'
  <2>1. t \notin Queued \cup OnWorkers \cup temps \cup finished \cup rejected
    BY <1>3 DEF SubmitSpawn, Submitted, Running
  <2>2. /\ Queued' = Queued /\ OnWorkers' = OnWorkers /\ QueuedOnce' /\ RunByOne'
        /\ temps' = temps \cup {t} /\ finished' = finished /\ rejected' = rejected
    BY <1>0, <1>3 DEF SubmitSpawn, Queued, OnWorkers, OnePlace, QueuedOnce, RunByOne
  <2>3. ShutdownOrder'
    BY <1>0, <1>3 DEF SubmitSpawn, ShutdownOrder
  <2> QED BY <1>0, <2>1, <2>2, <2>3 DEF OnePlace, Running
<1>4. ASSUME NEW t \in Tasks, FinishTemp(t) PROVE OnePlace' /\ ShutdownOrder'
  <2>1. /\ Queued' = Queued /\ OnWorkers' = OnWorkers /\ QueuedOnce' /\ RunByOne'
        /\ t \in temps /\ temps' = temps \ {t}
        /\ finished' = finished \cup {t} /\ rejected' = rejected
    BY <1>0, <1>4 DEF FinishTemp, Queued, OnWorkers, OnePlace, QueuedOnce, RunByOne
  <2>2. ShutdownOrder'
    BY <1>0, <1>4 DEF FinishTemp, ShutdownOrder
  <2> QED BY <1>0, <2>1, <2>2 DEF OnePlace, Running
<1>5. ASSUME NEW w \in Workers, Take(w) PROVE OnePlace' /\ ShutdownOrder'
  <2> DEFINE t == Head(queue)
  <2>1. t \in Queued /\ t \in Tasks /\ Queued' = Queued \ {t} /\ QueuedOnce'
    BY <1>0, <1>5, TailOfQueue, HeadLeavesQueue DEF Take, ChannelOK, OnePlace
  <2> HIDE DEF t
  <2>2. job[w] = Waiting /\ job' = [job EXCEPT ![w] = t]
    BY <1>5 DEF Take, t
  <2>3. OnWorkers' = OnWorkers \cup {t}
    BY <1>0, <2>1, <2>2, JobStarts
  <2>4. RunByOne'
    <3>1. t \notin OnWorkers
      BY <1>0, <2>1 DEF OnePlace, Running
    <3>2. job \in [Workers -> Tasks \cup {Waiting, Exited}]
      BY <1>0 DEF TypeOK
    <3> QED BY <1>0, <2>1, <2>2, <3>1, <3>2, Places DEF OnePlace, RunByOne
  <2>5. temps' = temps /\ finished' = finished /\ rejected' = rejected
    BY <1>5 DEF Take
  <2>6. ShutdownOrder'
    <3>1. shutdown # "returned"
      BY <1>0, <2>2, PoolAssumption DEF ShutdownOrder, PoolAssumption
    <3> QED BY <1>0, <1>5, <3>1 DEF Take, ShutdownOrder
  <2> QED BY <1>0, <2>1, <2>3, <2>4, <2>5, <2>6 DEF OnePlace, Running
<1>6. ASSUME NEW w \in Workers, Finish(w) PROVE OnePlace' /\ ShutdownOrder'
  <2>1. OnWorkers' = OnWorkers \ {job[w]} /\ job[w] \in OnWorkers
    BY <1>0, <1>6, JobEnds, Places DEF Finish, OnePlace
  <2>2. /\ Queued' = Queued /\ QueuedOnce' /\ temps' = temps
        /\ finished' = finished \cup {job[w]} /\ rejected' = rejected
    BY <1>0, <1>6 DEF Finish, Queued, OnePlace, QueuedOnce
  <2>3. RunByOne'
    <3>1. job \in [Workers -> Tasks \cup {Waiting, Exited}]
      BY <1>0 DEF TypeOK
    <3> QED BY <1>0, <1>6, <3>1, PoolAssumption DEF Finish, OnePlace, RunByOne, PoolAssumption
  <2>4. ShutdownOrder'
    <3>1. shutdown # "returned"
      BY <1>0, <1>6, PoolAssumption DEF Finish, ShutdownOrder, PoolAssumption
    <3> QED BY <1>0, <1>6, <3>1 DEF Finish, ShutdownOrder
  <2> QED BY <1>0, <2>1, <2>2, <2>3, <2>4 DEF OnePlace, Running
<1>7. ASSUME NEW w \in Workers, Exit(w) PROVE OnePlace' /\ ShutdownOrder'
  <2>1. OnWorkers' = OnWorkers
    BY <1>0, <1>7, WorkerLeaves DEF Exit
  <2>2. /\ Queued' = Queued /\ QueuedOnce' /\ temps' = temps
        /\ finished' = finished /\ rejected' = rejected
    BY <1>0, <1>7 DEF Exit, Queued, OnePlace, QueuedOnce
  <2>3. RunByOne'
    <3>1. job \in [Workers -> Tasks \cup {Waiting, Exited}]
      BY <1>0 DEF TypeOK
    <3> QED BY <1>0, <1>7, <3>1, PoolAssumption DEF Exit, OnePlace, RunByOne, PoolAssumption
  <2>4. ShutdownOrder'
    <3>1. job \in [Workers -> Tasks \cup {Waiting, Exited}]
      BY <1>0 DEF TypeOK
    <3> QED BY <1>0, <1>7, <3>1 DEF Exit, ShutdownOrder
  <2> QED BY <1>0, <2>1, <2>2, <2>3, <2>4 DEF OnePlace, Running
<1>8. CASE Cancel \/ Return \/ UNCHANGED vars
  <2>1. /\ Queued' = Queued /\ OnWorkers' = OnWorkers /\ QueuedOnce' /\ RunByOne'
        /\ temps' = temps /\ finished' = finished /\ rejected' = rejected
    BY <1>0, <1>8
    DEF Cancel, Return, vars, Queued, OnWorkers, OnePlace, QueuedOnce, RunByOne
  <2>2. ShutdownOrder'
    BY <1>0, <1>8 DEF Cancel, Return, vars, ShutdownOrder
  <2> QED BY <1>0, <2>1, <2>2 DEF OnePlace, Running
<1> QED
  BY <1>1, <1>2, <1>3, <1>4, <1>5, <1>6, <1>7, <1>8 DEF Next, Submit, Done

LEMMA Inductive == Spec => []IInv
BY TypeCorrect, InductiveInit, InductiveStep, PTL DEF Spec

(* A task is never in two places: Submit's three ways in, the channel, the *)
(* workers and the goroutines of the overflow hand it on, and run it once. *)
THEOREM OnePlaceHolds == Spec => []OnePlace
BY Inductive, PTL DEF IInv

(* When Shutdown has returned no worker runs a task, and only a cancelled  *)
(* pool turns tasks away.                                                  *)
THEOREM ShutdownQuiescesHolds == Spec => []ShutdownQuiesces
<1>1. IInv => ShutdownQuiesces
  BY DEF IInv, ShutdownOrder, ShutdownQuiesces, OnWorkers
<1> QED BY Inductive, <1>1, PTL

(* A task that is still queued when Shutdown returns stays in the channel  *)
(* for good: the only receivers have returned.                             *)
THEOREM StrandedForEver == Spec => StrandedStaysStranded
<1>1. IInv /\ [Next]_vars => [shutdown = "returned" => Queued \subseteq Queued']_vars
  <2> SUFFICES ASSUME IInv, [Next]_vars, shutdown = "returned"
               PROVE  Queued \subseteq Queued'
    OBVIOUS
  <2>1. ASSUME NEW t \in Tasks, SubmitEnqueue(t) PROVE Queued \subseteq Queued'
    BY <2>1, AppendToQueue DEF SubmitEnqueue, IInv, TypeOK, ChannelOK
  <2>2. ASSUME NEW w \in Workers, Take(w) PROVE FALSE
    BY <2>2, PoolAssumption DEF Take, IInv, ShutdownOrder, PoolAssumption
  <2>3. UNCHANGED queue => Queued \subseteq Queued'
    BY DEF Queued
  <2> QED
    BY <2>1, <2>2, <2>3 DEF Next, Submit, SubmitReject, SubmitSpawn, Finish, Exit,
                            FinishTemp, Cancel, Return, Done, vars
<1> QED BY <1>1, Inductive, PTL DEF Spec, StrandedStaysStranded
-----------------------------------------------------------------------------
(* The refinement.  A step of the pool changes the phase of one task       *)
(* (OneMoves) or of none (NoneMoves).                                      *)
LEMMA OneMoves ==
    ASSUME NEW t \in Tasks, NEW from, NEW to, PhaseOf(t) \in from, PhaseOf(t)' = to,
           \A u \in Tasks \ {t} : PhaseOf(u)' = PhaseOf(u)
    PROVE  Executor!Move(t, from, to)
BY DEF Executor!Move

LEMMA NoneMoves ==
    ASSUME Queued' = Queued, Running' = Running, finished' = finished, rejected' = rejected
    PROVE  UNCHANGED [t \in Tasks |-> PhaseOf(t)]
BY DEF PhaseOf

LEMMA RefinementStep ==
    IInv /\ [Next]_vars => [Executor!Next]_([t \in Tasks |-> PhaseOf(t)])
<1> SUFFICES ASSUME IInv, [Next]_vars
             PROVE  Executor!Next \/ UNCHANGED [t \in Tasks |-> PhaseOf(t)]
  OBVIOUS
<1>0. TypeOK /\ OnePlace /\ ChannelOK
  BY DEF IInv, TypeOK
<1>1. ASSUME NEW t \in Tasks, SubmitEnqueue(t) PROVE Executor!Accept(t)
  <2>1. t \notin Queued \cup Running \cup finished \cup rejected
    BY <1>1 DEF SubmitEnqueue, Submitted
  <2>2. /\ Queued' = Queued \cup {t}
        /\ Running' = Running /\ finished' = finished /\ rejected' = rejected
    BY <1>0, <1>1, AppendToQueue DEF SubmitEnqueue, ChannelOK, Running, OnWorkers
  <2>3. PhaseOf(t) = "new" /\ PhaseOf(t)' = "accepted"
    BY <2>1, <2>2 DEF PhaseOf
  <2>4. \A u \in Tasks \ {t} : PhaseOf(u)' = PhaseOf(u)
    BY <2>2 DEF PhaseOf
  <2> QED BY <2>3, <2>4, OneMoves DEF Executor!Accept
<1>2. ASSUME NEW t \in Tasks, SubmitReject(t) PROVE Executor!Reject(t)
  <2>1. t \notin Queued \cup Running \cup finished \cup rejected
    BY <1>2 DEF SubmitReject, Submitted
  <2>2. /\ Queued' = Queued /\ rejected' = rejected \cup {t}
        /\ Running' = Running /\ finished' = finished
    BY <1>2 DEF SubmitReject, Queued, Running, OnWorkers
  <2>3. PhaseOf(t) = "new" /\ PhaseOf(t)' = "rejected"
    BY <2>1, <2>2 DEF PhaseOf
  <2>4. \A u \in Tasks \ {t} : PhaseOf(u)' = PhaseOf(u)
    BY <2>2 DEF PhaseOf
  <2> QED BY <2>3, <2>4, OneMoves DEF Executor!Reject
<1>3. ASSUME NEW t \in Tasks, SubmitSpawn(t) PROVE Executor!Start(t)
  <2>1. t \notin Queued \cup Running \cup finished \cup rejected
    BY <1>3 DEF SubmitSpawn, Submitted
  <2>2. /\ Queued' = Queued /\ rejected' = rejected
        /\ Running' = Running \cup {t} /\ finished' = finished
    BY <1>3 DEF SubmitSpawn, Queued, Running, OnWorkers
  <2>3. PhaseOf(t) = "new" /\ PhaseOf(t)' = "running"
    BY <2>1, <2>2 DEF PhaseOf
  <2>4. \A u \in Tasks \ {t} : PhaseOf(u)' = PhaseOf(u)
    BY <2>2 DEF PhaseOf
  <2> QED BY <2>3, <2>4, OneMoves DEF Executor!Start
<1>4. ASSUME NEW t \in Tasks, FinishTemp(t) PROVE Executor!Finish(t)
  <2>1. /\ Queued' = Queued /\ rejected' = rejected
        /\ Running' = Running \ {t} /\ finished' = finished \cup {t}
        /\ t \in Running
    BY <1>0, <1>4 DEF FinishTemp, Queued, Running, OnWorkers, OnePlace
  <2>2. PhaseOf(t) = "running" /\ PhaseOf(t)' = "finished"
    BY <1>0, <2>1 DEF PhaseOf, OnePlace
  <2>3. \A u \in Tasks \ {t} : PhaseOf(u)' = PhaseOf(u)
    BY <2>1 DEF PhaseOf
  <2> QED BY <2>2, <2>3, OneMoves DEF Executor!Finish
<1>5. ASSUME NEW w \in Workers, Take(w) PROVE \E t \in Tasks : Executor!Start(t)
  <2>0. PICK t \in Tasks : t = Head(queue)
    BY <1>0, <1>5, TailOfQueue DEF Take, ChannelOK
  <2>1. t \in Queued /\ Queued' = Queued \ {t}
    BY <1>0, <1>5, <2>0, TailOfQueue, HeadLeavesQueue DEF Take, ChannelOK, OnePlace
  <2>2. OnWorkers' = OnWorkers \cup {t}
    BY <1>0, <1>5, <2>0, <2>1, JobStarts DEF Take
  <2>3. /\ Running' = Running \cup {t}
        /\ finished' = finished /\ rejected' = rejected
    BY <1>5, <2>2 DEF Take, Running
  <2>4. PhaseOf(t) = "accepted" /\ PhaseOf(t)' = "running"
    BY <1>0, <2>1, <2>3 DEF PhaseOf, OnePlace
  <2>5. \A u \in Tasks \ {t} : PhaseOf(u)' = PhaseOf(u)
    BY <2>1, <2>3 DEF PhaseOf
  <2> QED BY <2>1, <2>4, <2>5, OneMoves DEF Executor!Start
<1>6. ASSUME NEW w \in Workers, Finish(w) PROVE \E t \in Tasks : Executor!Finish(t)
  <2>0. PICK t \in Tasks : t = job[w]
    BY <1>6 DEF Finish
  <2>1. t \in OnWorkers /\ OnWorkers' = OnWorkers \ {t}
    BY <1>0, <1>6, <2>0, JobEnds, Places DEF Finish, OnePlace
  <2>2. /\ Queued' = Queued /\ temps' = temps
        /\ finished' = finished \cup {t} /\ rejected' = rejected
    BY <1>6, <2>0 DEF Finish, Queued
  <2>3. Running' = Running \ {t} /\ t \in Running
    BY <1>0, <2>1, <2>2 DEF Running, OnePlace
  <2>4. PhaseOf(t) = "running" /\ PhaseOf(t)' = "finished"
    BY <1>0, <2>2, <2>3 DEF PhaseOf, OnePlace
  <2>5. \A u \in Tasks \ {t} : PhaseOf(u)' = PhaseOf(u)
    BY <2>2, <2>3 DEF PhaseOf
  <2> QED BY <2>1, <2>4, <2>5, OneMoves DEF Executor!Finish
<1>7. ASSUME NEW w \in Workers, Exit(w)
      PROVE  UNCHANGED [t \in Tasks |-> PhaseOf(t)]
  <2>1. OnWorkers' = OnWorkers
    BY <1>0, <1>7, WorkerLeaves DEF Exit
  <2> QED BY <1>7, <2>1, NoneMoves DEF Exit, Queued, Running
<1>8. ASSUME Cancel \/ Return \/ UNCHANGED vars
      PROVE  UNCHANGED [t \in Tasks |-> PhaseOf(t)]
  BY <1>8, NoneMoves DEF Cancel, Return, vars, Queued, Running, OnWorkers
<1> QED
  BY <1>1, <1>2, <1>3, <1>4, <1>5, <1>6, <1>7, <1>8
  DEF Next, Submit, Done, Executor!Next

(* The pool implements TaskExecutor: a task is handed over once, starts at *)
(* most once, from the channel or in a goroutine of its own, and finishes  *)
(* at most once, whatever Shutdown does meanwhile.                         *)
THEOREM ImplementsTaskExecutor == Spec => ImplementsExecutor
<1>1. Init => Executor!Init
  <2> SUFFICES ASSUME Init PROVE \A t \in Tasks : PhaseOf(t) = "new"
    BY DEF Executor!Init
  <2>1. queue = <<>>
    BY DEF Init
  <2>2. Queued = {}
    <3>1. Len(queue) = 0 BY <2>1, EmptySeq
    <3> QED BY <3>1 DEF Queued
  <2>3. OnWorkers = {}
    BY DEF Init, OnWorkers
  <2> QED BY <2>2, <2>3 DEF Init, Running, PhaseOf
<1> QED
  BY <1>1, RefinementStep, Inductive, PTL DEF Spec, ImplementsExecutor, Executor!Spec
-----------------------------------------------------------------------------
(* The number of elements of S that are in one of some states, and what it *)
(* becomes when one of them moves.                                         *)
InStates(S, f, states) == {x \in S : f[x] \in states}
OneIf(x, states) == IF x \in states THEN 1 ELSE 0
OnlyAt(S, f, g, s, to) == \A x \in S : g[x] = IF x = s THEN to ELSE f[x]

LEMMA CountIsNat ==
    ASSUME NEW S, IsFiniteSet(S), NEW f, NEW states
    PROVE  /\ IsFiniteSet(InStates(S, f, states))
           /\ Cardinality(InStates(S, f, states)) \in Nat
           /\ Cardinality(InStates(S, f, states)) <= Cardinality(S)
<1>1. InStates(S, f, states) \subseteq S
  BY DEF InStates
<1>2. /\ IsFiniteSet(InStates(S, f, states))
      /\ Cardinality(InStates(S, f, states)) <= Cardinality(S)
  BY <1>1, FS_Subset
<1> QED BY <1>2, FS_CardinalityType

LEMMA CountMoved ==
    ASSUME NEW S, IsFiniteSet(S), NEW f, NEW g, NEW s \in S, NEW to, NEW states,
           OnlyAt(S, f, g, s, to)
    PROVE  Cardinality(InStates(S, g, states))
            = Cardinality(InStates(S, f, states)) - OneIf(f[s], states) + OneIf(to, states)
<1> USE DEF OnlyAt
<1> DEFINE A == InStates(S, f, states)
           B == InStates(S, g, states)
<1>1. IsFiniteSet(A) /\ Cardinality(A) \in Nat
  BY CountIsNat
<1>2. CASE f[s] \in states /\ to \in states
  <2>1. B = A
    BY <1>2 DEF InStates
  <2> QED BY <1>1, <1>2, <2>1 DEF OneIf
<1>3. CASE f[s] \in states /\ to \notin states
  <2>1. B = A \ {s} /\ s \in A
    BY <1>3 DEF InStates
  <2>2. Cardinality(B) = Cardinality(A) - 1
    BY <1>1, <2>1, FS_RemoveElement
  <2> QED BY <1>1, <1>3, <2>2 DEF OneIf
<1>4. CASE f[s] \notin states /\ to \in states
  <2>1. B = A \cup {s} /\ s \notin A
    BY <1>4 DEF InStates
  <2>2. Cardinality(B) = Cardinality(A) + 1
    BY <1>1, <2>1, FS_AddElement
  <2> QED BY <1>1, <1>4, <2>2 DEF OneIf
<1>5. CASE f[s] \notin states /\ to \notin states
  <2>1. B = A
    BY <1>5 DEF InStates
  <2> QED BY <1>1, <1>5, <2>1 DEF OneIf
<1> QED BY <1>2, <1>3, <1>4, <1>5

-----------------------------------------------------------------------------
(* The HTTP connection manager.  A connection has a writer from            *)
(* GetResponseWriter until the deferred calls, none if its request could   *)
(* not be parsed; a writer nobody has written a header through has status  *)
(* 0; and the active connections are those between two counts.             *)
HTTPStages == {"new", "acquired", "active", "serving", "stuck", "served", "put",
               "releasing", "done"}
InsideStages == HTTPStages \ {"new", "done"}
ActiveStages == {"active", "serving", "stuck", "served", "put"}

WritersHeld ==
    /\ \A c \in Connections : httpStage[c] \in {"serving", "stuck", "served"} =>
        writer[c] # "none"
    /\ \A c \in Connections :
        httpStage[c] \notin {"serving", "stuck", "served", "put"} => writer[c] = "none"
    /\ \A c \in Connections : writer[c] # "none" => writer[c] \notin idle
    /\ \A c, d \in Connections : writer[c] # "none" /\ d # c => writer[d] # writer[c]
    /\ \A c \in Connections : httpStage[c] \in {"serving", "stuck"} =>
        httpStatus[writer[c]] = 0

Inside(f) == Cardinality(InStates(Connections, f, InsideStages))
Active(f) == Cardinality(InStates(Connections, f, ActiveStages))

SlotCounts == httpCurrent = Inside(httpStage) /\ active = Active(httpStage)

RequestCounts ==
    /\ total \in Nat /\ successful \in Nat /\ failed \in Nat
    /\ successful + failed >= total /\ successful <= total

HTTPTypes ==
    /\ httpStage \in [Connections -> HTTPStages]
    /\ writer \in [Connections -> Writers \cup {"none"}]
    /\ idle \subseteq Writers /\ httpStatus \in [Writers -> {0, 200, 404, 500}]
    /\ httpCurrent \in 0..MaxConcurrentConns
    /\ open \subseteq Connections

LifeTypes ==
    /\ running \in BOOLEAN /\ starts \in 0..MaxStarts
    /\ httpShutdown \in {"open", "closed", "panicked"}

HTTPInv == HTTPTypes /\ LifeTypes /\ WritersHeld /\ SlotCounts /\ RequestCounts

LEMMA CountsNat == \A f : Inside(f) \in Nat /\ Active(f) \in Nat
BY CountIsNat, HandlersAssumption DEF Inside, Active, HandlersAssumption

LEMMA HTTPInit == HTTP!Init => HTTPInv
<1> SUFFICES ASSUME HTTP!Init  PROVE HTTPInv
  OBVIOUS
<1>1. SlotCounts
  <2>1. /\ InStates(Connections, httpStage, InsideStages) = {}
        /\ InStates(Connections, httpStage, ActiveStages) = {}
    BY DEF HTTP!Init, InStates, InsideStages, ActiveStages
  <2>2. Inside(httpStage) = 0 /\ Active(httpStage) = 0
    BY <2>1, FS_EmptySet DEF Inside, Active
  <2> QED BY <2>2 DEF HTTP!Init, SlotCounts
<1>2. HTTPTypes
  BY HandlersAssumption DEF HTTP!Init, HTTPTypes, HTTPStages, HandlersAssumption
<1>3. LifeTypes
  <2>1. 0 \in 0..MaxStarts
    BY HandlersAssumption DEF HandlersAssumption
  <2> QED BY <2>1, Zenon DEF HTTP!Init, LifeTypes
<1>4. WritersHeld
  BY DEF HTTP!Init, WritersHeld
<1>5. RequestCounts
  BY DEF HTTP!Init, RequestCounts
<1> QED BY <1>1, <1>2, <1>3, <1>4, <1>5 DEF HTTPInv

(* A connection goes on, and whether it is inside and active then.         *)
Goes(c, from, to) ==
    /\ httpStage[c] = from
    /\ httpStage' \in [Connections -> HTTPStages]
    /\ \A d \in Connections : httpStage'[d] = IF d = c THEN to ELSE httpStage[d]
    /\ Inside(httpStage') = Inside(httpStage) - OneIf(from, InsideStages)
                                              + OneIf(to, InsideStages)
    /\ Active(httpStage') = Active(httpStage) - OneIf(from, ActiveStages)
                                              + OneIf(to, ActiveStages)

LEMMA ConnectionGoes ==
    ASSUME HTTPTypes, NEW c \in Connections, NEW from, NEW to \in HTTPStages,
           httpStage[c] = from, httpStage' = [httpStage EXCEPT ![c] = to]
    PROVE  Goes(c, from, to)
<1>1. /\ httpStage' \in [Connections -> HTTPStages]
      /\ \A d \in Connections : httpStage'[d] = IF d = c THEN to ELSE httpStage[d]
  BY DEF HTTPTypes
<1>2. IsFiniteSet(Connections)
  BY HandlersAssumption DEF HandlersAssumption
<1> DEFINE f == httpStage
           g == httpStage'
<1> HIDE DEF f, g
<1>3. OnlyAt(Connections, f, g, c, to)
  BY <1>1 DEF f, g, OnlyAt
<1>4. ASSUME NEW states
      PROVE  Cardinality(InStates(Connections, g, states))
              = Cardinality(InStates(Connections, f, states))
                  - OneIf(f[c], states) + OneIf(to, states)
  BY <1>2, <1>3, CountMoved
<1>5. /\ Inside(g) = Inside(f) - OneIf(f[c], InsideStages) + OneIf(to, InsideStages)
      /\ Active(g) = Active(f) - OneIf(f[c], ActiveStages) + OneIf(to, ActiveStages)
  BY <1>4 DEF Inside, Active
<1> QED BY <1>1, <1>5 DEF f, g, Goes

LEMMA UpdateTyped ==
    ASSUME NEW S, NEW T, NEW f \in [S -> T], NEW x, NEW y \in T
    PROVE  [f EXCEPT ![x] = y] \in [S -> T]
OBVIOUS

LEMMA HTTPStep == HTTPInv /\ [HTTP!Next]_(HTTP!vars) => HTTPInv'
<1> SUFFICES ASSUME HTTPInv, [HTTP!Next]_(HTTP!vars)  PROVE HTTPInv'
  OBVIOUS
<1>0. HTTPTypes /\ LifeTypes /\ WritersHeld /\ SlotCounts /\ RequestCounts
  BY DEF HTTPInv
<1> USE DEF HTTP!metricVars, HTTP!lifeVars
<1>a. UNCHANGED <<running, starts, httpShutdown>> => LifeTypes'
  BY <1>0 DEF LifeTypes
<1>b. UNCHANGED <<total, successful, failed>> => RequestCounts'
  BY <1>0 DEF RequestCounts
<1> USE DEF HTTPStages, InsideStages, ActiveStages, OneIf
<1>1. ASSUME HTTP!Start \/ HTTP!Stop  PROVE HTTPInv'
  <2>1. UNCHANGED <<httpStage, writer, idle, httpStatus, httpCurrent, open,
                    active, total, successful, failed>>
    BY <1>1 DEF HTTP!Start, HTTP!Stop
  <2>2. LifeTypes'
    <3>1. starts' \in 0..MaxStarts
      BY <1>0, <1>1, HandlersAssumption
      DEF HTTP!Start, HTTP!Stop, LifeTypes, HandlersAssumption
    <3>2. running' \in BOOLEAN /\ httpShutdown' \in {"open", "closed", "panicked"}
      BY <1>0, <1>1, Zenon DEF HTTP!Start, HTTP!Stop, LifeTypes
    <3> QED BY <3>1, <3>2 DEF LifeTypes
  <2>3. HTTPTypes' /\ WritersHeld' /\ SlotCounts'
    BY <1>0, <2>1 DEF HTTPTypes, WritersHeld, SlotCounts
  <2> QED BY <1>b, <2>1, <2>2, <2>3 DEF HTTPInv
<1>2. ASSUME NEW c \in Connections, HTTP!Acquire(c)  PROVE HTTPInv'
  <2>0. /\ httpStage[c] = "new"
        /\ UNCHANGED <<writer, idle, httpStatus, active, total, successful, failed,
                       running, starts, httpShutdown>>
    BY <1>2 DEF HTTP!Acquire
  <2>1. CASE httpCurrent >= MaxConcurrentConns
    <3>1. /\ httpStage' = [httpStage EXCEPT ![c] = "done"]
          /\ open' = open \ {c} /\ UNCHANGED httpCurrent
      BY <1>2, <2>1 DEF HTTP!Acquire
    <3>2. Goes(c, "new", "done")
      BY <1>0, <2>0, <3>1, ConnectionGoes
    <3>3. SlotCounts'
      BY <1>0, <2>0, <3>1, <3>2, CountsNat DEF SlotCounts, Goes
    <3>4. HTTPTypes' /\ WritersHeld'
      BY <1>0, <2>0, <3>1, <3>2 DEF HTTPTypes, WritersHeld, Goes
    <3> QED BY <1>a, <1>b, <2>0, <3>3, <3>4 DEF HTTPInv
  <2>2. CASE ~(httpCurrent >= MaxConcurrentConns)
    <3>1. /\ httpStage' = [httpStage EXCEPT ![c] = "acquired"]
          /\ httpCurrent' = httpCurrent + 1 /\ UNCHANGED open
      BY <1>2, <2>2 DEF HTTP!Acquire
    <3>2. Goes(c, "new", "acquired")
      BY <1>0, <2>0, <3>1, ConnectionGoes
    <3>3. SlotCounts'
      BY <1>0, <2>0, <3>1, <3>2, CountsNat DEF SlotCounts, Goes
    <3>4. httpCurrent' \in 0..MaxConcurrentConns
      BY <1>0, <2>2, <3>1, HandlersAssumption DEF HTTPTypes, HandlersAssumption
    <3>5. HTTPTypes' /\ WritersHeld'
      BY <1>0, <2>0, <3>1, <3>2, <3>4 DEF HTTPTypes, WritersHeld, Goes
    <3> QED BY <1>a, <1>b, <2>0, <3>3, <3>5 DEF HTTPInv
  <2> QED BY <2>1, <2>2
<1>3. ASSUME NEW c \in Connections, HTTP!BecomeActive(c)  PROVE HTTPInv'
  <2>1. /\ httpStage[c] = "acquired" /\ httpStage' = [httpStage EXCEPT ![c] = "active"]
        /\ active' = active + 1
        /\ UNCHANGED <<writer, idle, httpStatus, httpCurrent, open, total, successful,
                       failed, running, starts, httpShutdown>>
    BY <1>3 DEF HTTP!BecomeActive
  <2>2. Goes(c, "acquired", "active")
    BY <1>0, <2>1, ConnectionGoes
  <2>3. SlotCounts'
    BY <1>0, <2>1, <2>2, CountsNat DEF SlotCounts, Goes
  <2>4. HTTPTypes' /\ WritersHeld'
    BY <1>0, <2>1, <2>2 DEF HTTPTypes, WritersHeld, Goes
  <2> QED BY <1>a, <1>b, <2>1, <2>3, <2>4 DEF HTTPInv
<1>4. ASSUME NEW c \in Connections, HTTP!ParseFails(c)  PROVE HTTPInv'
  <2>1. /\ httpStage[c] = "active" /\ httpStage' = [httpStage EXCEPT ![c] = "put"]
        /\ failed' = failed + 1 /\ open' = open \ {c}
        /\ UNCHANGED <<writer, idle, httpStatus, httpCurrent, active, total, successful,
                       running, starts, httpShutdown>>
    BY <1>4 DEF HTTP!ParseFails
  <2>2. Goes(c, "active", "put")
    BY <1>0, <2>1, ConnectionGoes
  <2>3. SlotCounts'
    BY <1>0, <2>1, <2>2, CountsNat DEF SlotCounts, Goes
  <2>4. HTTPTypes' /\ WritersHeld'
    BY <1>0, <2>1, <2>2 DEF HTTPTypes, WritersHeld, Goes
  <2>5. RequestCounts'
    BY <1>0, <2>1 DEF RequestCounts
  <2> QED BY <1>a, <2>1, <2>3, <2>4, <2>5 DEF HTTPInv
<1>5. ASSUME NEW c \in Connections, HTTP!GetResponseWriter(c)  PROVE HTTPInv'
  <2>1. PICK w \in Writers \ HTTP!InUse :
          /\ writer' = [writer EXCEPT ![c] = w]
          /\ idle' = idle \ {w} /\ httpStatus' = [httpStatus EXCEPT ![w] = 0]
    BY <1>5 DEF HTTP!GetResponseWriter
  <2>2. /\ httpStage[c] = "active" /\ httpStage' = [httpStage EXCEPT ![c] = "serving"]
        /\ UNCHANGED <<httpCurrent, open, active, total, successful, failed,
                       running, starts, httpShutdown>>
    BY <1>5 DEF HTTP!GetResponseWriter
  <2>3. Goes(c, "active", "serving")
    BY <1>0, <2>2, ConnectionGoes
  <2>4. SlotCounts'
    BY <1>0, <2>2, <2>3, CountsNat DEF SlotCounts, Goes
  <2>5. HTTPTypes'
    BY <1>0, <2>1, <2>2, <2>3 DEF HTTPTypes, Goes
  <2>6. /\ w # "none" /\ \A d \in Connections : writer[d] # w
        /\ \A d \in Connections : writer'[d] = IF d = c THEN w ELSE writer[d]
        /\ \A v \in Writers : httpStatus'[v] = IF v = w THEN 0 ELSE httpStatus[v]
    BY <1>0, <2>1, HandlersAssumption DEF HTTP!InUse, HTTPTypes, HandlersAssumption
  <2>7. \A d \in Connections : writer[d] # "none" => writer[d] \in Writers
    BY <1>0 DEF HTTPTypes, Goes
  <2>8. WritersHeld'
    BY <1>0, <2>1, <2>2, <2>3, <2>6, <2>7 DEF WritersHeld, Goes
  <2> QED BY <1>a, <1>b, <2>2, <2>4, <2>5, <2>8 DEF HTTPInv
<1>6. ASSUME NEW c \in Connections, NEW code \in {200, 404, 500}, HTTP!Answer(c, code)
      PROVE  HTTPInv'
  <2>1. /\ httpStage[c] = "serving" /\ httpStage' = [httpStage EXCEPT ![c] = "served"]
        /\ httpStatus' = [httpStatus EXCEPT ![writer[c]] = code]
        /\ UNCHANGED <<writer, idle, httpCurrent, open, active, total, successful, failed,
                       running, starts, httpShutdown>>
    BY <1>6 DEF HTTP!Answer
  <2>2. Goes(c, "serving", "served")
    BY <1>0, <2>1, ConnectionGoes
  <2>3. SlotCounts'
    BY <1>0, <2>1, <2>2, CountsNat DEF SlotCounts, Goes
  <2>4. HTTPTypes'
    <3>1. code \in {0, 200, 404, 500}
      OBVIOUS
    <3>2. httpStatus \in [Writers -> {0, 200, 404, 500}]
      BY <1>0 DEF HTTPTypes
    <3>3. httpStatus' = [httpStatus EXCEPT ![writer[c]] = code]
      BY <2>1
    <3>4. httpStatus' \in [Writers -> {0, 200, 404, 500}]
      BY <3>1, <3>2, <3>3, UpdateTyped, ZenonT(60)
    <3>5. /\ UNCHANGED <<writer, idle, httpCurrent, open>>
          /\ httpStage' \in [Connections -> HTTPStages]
      BY <2>1, <2>2 DEF Goes
    <3> QED BY <1>0, <3>4, <3>5, ZenonT(60) DEF HTTPTypes
  <2>5. \A v \in Writers : v # writer[c] => httpStatus'[v] = httpStatus[v]
    BY <1>0, <2>1 DEF HTTPTypes, Goes
  <2>6. \A d \in Connections : writer[d] # "none" => writer[d] \in Writers
    BY <1>0 DEF HTTPTypes, Goes
  <2>7. WritersHeld'
    BY <1>0, <2>1, <2>2, <2>5, <2>6 DEF WritersHeld, Goes
  <2> QED BY <1>a, <1>b, <2>1, <2>3, <2>4, <2>7 DEF HTTPInv
<1>7. ASSUME NEW c \in Connections, HTTP!WriteLocksTwice(c)  PROVE HTTPInv'
  <2>1. /\ httpStage[c] = "serving" /\ httpStage' = [httpStage EXCEPT ![c] = "stuck"]
        /\ UNCHANGED <<writer, idle, httpStatus, httpCurrent, open, active, total,
                       successful, failed, running, starts, httpShutdown>>
    BY <1>7 DEF HTTP!WriteLocksTwice
  <2>2. Goes(c, "serving", "stuck")
    BY <1>0, <2>1, ConnectionGoes
  <2>3. SlotCounts'
    BY <1>0, <2>1, <2>2, CountsNat DEF SlotCounts, Goes
  <2>4. HTTPTypes' /\ WritersHeld'
    BY <1>0, <2>1, <2>2 DEF HTTPTypes, WritersHeld, Goes
  <2> QED BY <1>a, <1>b, <2>1, <2>3, <2>4 DEF HTTPInv
<1>8. ASSUME NEW c \in Connections, HTTP!Record(c)  PROVE HTTPInv'
  <2>1. /\ httpStage[c] = "served" /\ httpStage' = [httpStage EXCEPT ![c] = "put"]
        /\ total' = total + 1
        /\ \/ successful' = successful + 1 /\ failed' = failed
           \/ failed' = failed + 1 /\ successful' = successful
        /\ open' \subseteq open
        /\ UNCHANGED <<writer, idle, httpStatus, httpCurrent, active,
                       running, starts, httpShutdown>>
    BY <1>8 DEF HTTP!Record
  <2>2. Goes(c, "served", "put")
    BY <1>0, <2>1, ConnectionGoes
  <2>3. SlotCounts'
    BY <1>0, <2>1, <2>2, CountsNat DEF SlotCounts, Goes
  <2>4. HTTPTypes' /\ WritersHeld'
    BY <1>0, <2>1, <2>2 DEF HTTPTypes, WritersHeld, Goes
  <2>5. RequestCounts'
    BY <1>0, <2>1 DEF RequestCounts
  <2> QED BY <1>a, <2>1, <2>3, <2>4, <2>5 DEF HTTPInv
<1>9. ASSUME NEW c \in Connections, HTTP!PutResponseWriter(c)  PROVE HTTPInv'
  <2>1. /\ httpStage[c] = "put" /\ httpStage' = [httpStage EXCEPT ![c] = "releasing"]
        /\ idle' = idle \cup ({writer[c]} \ {"none"})
        /\ writer' = [writer EXCEPT ![c] = "none"]
        /\ active' = active - 1
        /\ UNCHANGED <<httpStatus, httpCurrent, open, total, successful, failed,
                       running, starts, httpShutdown>>
    BY <1>9 DEF HTTP!PutResponseWriter
  <2>2. Goes(c, "put", "releasing")
    BY <1>0, <2>1, ConnectionGoes
  <2>3. SlotCounts'
    BY <1>0, <2>1, <2>2, CountsNat DEF SlotCounts, Goes
  <2>4. HTTPTypes'
    BY <1>0, <2>1, <2>2 DEF HTTPTypes, Goes
  <2>5. \A d \in Connections : writer'[d] = IF d = c THEN "none" ELSE writer[d]
    BY <1>0, <2>1 DEF HTTPTypes, Goes
  <2>6. WritersHeld'
    BY <1>0, <2>1, <2>2, <2>5 DEF WritersHeld, Goes
  <2> QED BY <1>a, <1>b, <2>1, <2>3, <2>4, <2>6 DEF HTTPInv
<1>10. ASSUME NEW c \in Connections, HTTP!Release(c)  PROVE HTTPInv'
  <2>1. /\ httpStage[c] = "releasing" /\ httpStage' = [httpStage EXCEPT ![c] = "done"]
        /\ httpCurrent' = httpCurrent - 1
        /\ UNCHANGED <<writer, idle, httpStatus, open, active, total, successful, failed,
                       running, starts, httpShutdown>>
    BY <1>10 DEF HTTP!Release
  <2>2. Goes(c, "releasing", "done")
    BY <1>0, <2>1, ConnectionGoes
  <2>3. SlotCounts'
    BY <1>0, <2>1, <2>2, CountsNat DEF SlotCounts, Goes
  <2>4. httpCurrent' \in 0..MaxConcurrentConns
    <3>1. httpCurrent' \in Nat
      BY <2>3, CountsNat DEF SlotCounts, Goes
    <3> QED BY <1>0, <2>1, <3>1, HandlersAssumption DEF HTTPTypes, HandlersAssumption
  <2>5. HTTPTypes' /\ WritersHeld'
    BY <1>0, <2>1, <2>2, <2>4 DEF HTTPTypes, WritersHeld, Goes
  <2> QED BY <1>a, <1>b, <2>1, <2>3, <2>5 DEF HTTPInv
<1>11. CASE UNCHANGED HTTP!vars
  BY <1>0, <1>11, <1>a, <1>b DEF HTTP!vars, HTTPInv, HTTPTypes, WritersHeld, SlotCounts
<1> QED
  BY <1>1, <1>2, <1>3, <1>4, <1>5, <1>6, <1>7, <1>8, <1>9, <1>10, <1>11
  DEF HTTP!Next, HTTP!RouteRequest, HTTP!AnswerOptions, HTTP!Recover

LEMMA HTTPShows == HTTPInv => HTTP!TypeOK /\ HTTP!SlotsAndWriters
<1> SUFFICES ASSUME HTTPInv  PROVE HTTP!TypeOK /\ HTTP!SlotsAndWriters
  OBVIOUS
<1>0. HTTPTypes /\ LifeTypes /\ WritersHeld /\ SlotCounts /\ RequestCounts
  BY DEF HTTPInv
<1>1. \A S : HTTP!Cardinality(S) = Cardinality(S)
  BY DEF HTTP!Cardinality, Cardinality, HTTP!IsFiniteSet, IsFiniteSet
<1>2. HTTP!Inside = InStates(Connections, httpStage, InsideStages)
  BY <1>0 DEF HTTP!Inside, InStates, InsideStages, HTTPTypes, HTTPStages
<1>3. active \in Nat /\ httpCurrent <= MaxConcurrentConns
  BY <1>0, CountsNat, HandlersAssumption DEF SlotCounts, HTTPTypes, HandlersAssumption
<1>4. HTTP!TypeOK
  BY <1>0, <1>3 DEF HTTP!TypeOK, HTTPTypes, LifeTypes, RequestCounts, HTTPStages
<1>5. httpCurrent = HTTP!Cardinality(HTTP!Inside)
  BY <1>0, <1>1, <1>2 DEF SlotCounts, Inside
<1> QED
  BY <1>0, <1>3, <1>4, <1>5 DEF HTTP!SlotsAndWriters, WritersHeld, RequestCounts
-----------------------------------------------------------------------------
(* The WebSocket handler.  Map and bus hold a connection between the calls *)
(* that put it there and take it away; what was turned away was turned     *)
(* away at once; and no heartbeat finds a closed connection alive.         *)
SocketStages == {"new", "upgrading", "created", "mapped", "reading", "pong", "unmapping",
                 "unregistering", "releasing", "closing", "done"}
HoldingStages == SocketStages \ {"new", "closing", "done"}

SocketsPlaced ==
    /\ \A s \in mapped : wsStage[s] \in {"mapped", "reading", "pong", "unmapping"}
    /\ \A s \in onBus : wsStage[s] \in {"reading", "pong", "unmapping", "unregistering"}
    /\ \A s \in closed : wsStage[s] = "done" /\ s \notin alive
    /\ \A s \in turnedAway : wsStage[s] = "done"
    /\ \A s \in alive : wsStage[s] \notin {"new", "upgrading"}

Holders(f) == Cardinality(InStates(Sockets, f, HoldingStages))

SocketCounts ==
    /\ wsCurrent = Holders(wsStage) + Cardinality(turnedAway)
    /\ Holders(wsStage) <= MaxConnections

SocketTypes ==
    /\ wsStage \in [Sockets -> SocketStages]
    /\ turnedAway \subseteq Sockets /\ mapped \subseteq Sockets /\ onBus \subseteq Sockets
    /\ heart \subseteq Sockets /\ alive \subseteq Sockets /\ pinging \subseteq Sockets
    /\ closed \subseteq Sockets

SocketsInv == SocketTypes /\ SocketsPlaced /\ SocketCounts

LEMMA HoldersNat == \A f : Holders(f) \in Nat
BY CountIsNat, HandlersAssumption DEF Holders, HandlersAssumption

LEMMA SomeSockets ==
    ASSUME NEW T \in SUBSET Sockets
    PROVE  IsFiniteSet(T) /\ Cardinality(T) \in Nat
BY FS_Subset, FS_CardinalityType, HandlersAssumption DEF HandlersAssumption

LEMMA SocketsInit == WebSocket!Init => SocketsInv
<1> SUFFICES ASSUME WebSocket!Init  PROVE SocketsInv
  OBVIOUS
<1>1. InStates(Sockets, wsStage, HoldingStages) = {}
  BY DEF WebSocket!Init, InStates, HoldingStages
<1>2. Holders(wsStage) = 0 /\ Cardinality(turnedAway) = 0
  BY <1>1, FS_EmptySet DEF Holders, WebSocket!Init
<1>3. SocketCounts
  BY <1>2, HandlersAssumption DEF WebSocket!Init, SocketCounts, HandlersAssumption
<1>4. SocketTypes /\ SocketsPlaced
  <2>1. SocketTypes
    BY DEF WebSocket!Init, SocketTypes, SocketStages
  <2>2. SocketsPlaced
    BY DEF WebSocket!Init, SocketsPlaced
  <2> QED BY <2>1, <2>2
<1> QED BY <1>3, <1>4 DEF SocketsInv

(* A connection goes on, and whether it holds a slot then.                 *)
LEMMA SocketMoved ==
    ASSUME SocketTypes, NEW s \in Sockets, NEW from, NEW to \in SocketStages,
           WebSocket!Move(s, from, to)
    PROVE  /\ wsStage[s] = from
           /\ wsStage' \in [Sockets -> SocketStages]
           /\ \A x \in Sockets : wsStage'[x] = IF x = s THEN to ELSE wsStage[x]
           /\ Holders(wsStage') = Holders(wsStage) - OneIf(from, HoldingStages)
                                                   + OneIf(to, HoldingStages)
<1>1. /\ wsStage[s] = from
      /\ wsStage' \in [Sockets -> SocketStages]
      /\ \A x \in Sockets : wsStage'[x] = IF x = s THEN to ELSE wsStage[x]
  <2>1. wsStage[s] = from /\ wsStage' = [wsStage EXCEPT ![s] = to]
    BY DEF WebSocket!Move
  <2>2. wsStage \in [Sockets -> SocketStages]
    BY DEF SocketTypes
  <2> QED BY <2>1, <2>2
<1> DEFINE f == wsStage
           g == wsStage'
<1> HIDE DEF f, g
<1>2. OnlyAt(Sockets, f, g, s, to)
  BY <1>1 DEF f, g, OnlyAt
<1>3. IsFiniteSet(Sockets)
  BY HandlersAssumption DEF HandlersAssumption
<1>4. Holders(g) = Holders(f) - OneIf(f[s], HoldingStages) + OneIf(to, HoldingStages)
  BY <1>2, <1>3, CountMoved DEF Holders
<1>5. g = wsStage' /\ f = wsStage /\ f[s] = from
  BY <1>1 DEF f, g
<1> QED BY <1>1, <1>4, <1>5

(* A connection that keeps its slot.                                       *)
LEMMA HolderMoves ==
    ASSUME SocketTypes, SocketCounts, NEW s \in Sockets,
           NEW from \in HoldingStages, NEW to \in HoldingStages,
           WebSocket!Move(s, from, to), UNCHANGED <<wsCurrent, turnedAway>>
    PROVE  SocketCounts'
<1>1. to \in SocketStages /\ OneIf(from, HoldingStages) = 1 /\ OneIf(to, HoldingStages) = 1
  BY DEF HoldingStages, OneIf
<1>2. Holders(wsStage') = Holders(wsStage)
  BY <1>1, SocketMoved, HoldersNat
<1> QED BY <1>2 DEF SocketCounts

LEMMA SocketsStep == SocketsInv /\ [WebSocket!Next]_(WebSocket!vars) => SocketsInv'
<1> SUFFICES ASSUME SocketsInv, [WebSocket!Next]_(WebSocket!vars)  PROVE SocketsInv'
  OBVIOUS
<1>0. SocketTypes /\ SocketsPlaced /\ SocketCounts
  BY DEF SocketsInv
<1> USE DEF WebSocket!heartVars
<1>1. ASSUME NEW s \in Sockets, WebSocket!TryAcquire(s)  PROVE SocketsInv'
  <2>0. Cardinality(turnedAway) \in Nat /\ IsFiniteSet(turnedAway)
    BY <1>0, SomeSockets DEF SocketTypes
  <2>1. CASE wsCurrent + 1 <= MaxConnections
    <3>1. /\ WebSocket!Move(s, "new", "upgrading") /\ wsCurrent' = wsCurrent + 1
          /\ UNCHANGED <<turnedAway, closed, mapped, onBus, heart, alive, pinging>>
      BY <1>1, <2>1 DEF WebSocket!TryAcquire
    <3>2. "upgrading" \in SocketStages /\ OneIf("new", HoldingStages) = 0
          /\ OneIf("upgrading", HoldingStages) = 1
      BY DEF HoldingStages, SocketStages, OneIf
    <3>3. /\ wsStage[s] = "new"
          /\ wsStage' \in [Sockets -> SocketStages]
          /\ \A x \in Sockets : wsStage'[x] = IF x = s THEN "upgrading" ELSE wsStage[x]
          /\ Holders(wsStage') = Holders(wsStage) + 1
      BY <1>0, <3>1, <3>2, SocketMoved, HoldersNat
    <3>4. SocketCounts'
      BY <1>0, <2>0, <2>1, <3>1, <3>3, HoldersNat, HandlersAssumption
      DEF SocketCounts, HandlersAssumption
    <3>5. SocketTypes' /\ SocketsPlaced'
      BY <1>0, <3>1, <3>3 DEF SocketTypes, SocketsPlaced
    <3> QED BY <3>4, <3>5 DEF SocketsInv
  <2>2. CASE ~(wsCurrent + 1 <= MaxConnections)
    <3>1. /\ WebSocket!Move(s, "new", "done") /\ wsCurrent' = wsCurrent + 1
          /\ turnedAway' = turnedAway \cup {s} /\ closed' = closed \cup {s}
          /\ UNCHANGED <<mapped, onBus, heart, alive, pinging>>
      BY <1>1, <2>2 DEF WebSocket!TryAcquire
    <3>2. "done" \in SocketStages /\ OneIf("new", HoldingStages) = 0
          /\ OneIf("done", HoldingStages) = 0
      BY DEF HoldingStages, SocketStages, OneIf
    <3>3. /\ wsStage[s] = "new"
          /\ wsStage' \in [Sockets -> SocketStages]
          /\ \A x \in Sockets : wsStage'[x] = IF x = s THEN "done" ELSE wsStage[x]
          /\ Holders(wsStage') = Holders(wsStage)
      BY <1>0, <3>1, <3>2, SocketMoved, HoldersNat
    <3>4. Cardinality(turnedAway') = Cardinality(turnedAway) + 1
      <4>1. s \notin turnedAway
        BY <1>0, <3>3 DEF SocketsPlaced
      <4> QED BY <2>0, <3>1, <4>1, FS_AddElement
    <3>5. SocketCounts'
      BY <1>0, <2>0, <3>1, <3>3, <3>4, HoldersNat DEF SocketCounts
    <3>6. SocketTypes' /\ SocketsPlaced'
      BY <1>0, <3>1, <3>3 DEF SocketTypes, SocketsPlaced
    <3> QED BY <3>5, <3>6 DEF SocketsInv
  <2> QED BY <2>1, <2>2
<1>2. ASSUME NEW s \in Sockets, NEW from \in HoldingStages, NEW to \in HoldingStages,
             WebSocket!Move(s, from, to), UNCHANGED <<wsCurrent, turnedAway>>
      PROVE  /\ wsStage[s] = from
             /\ wsStage' \in [Sockets -> SocketStages]
             /\ \A x \in Sockets : wsStage'[x] = IF x = s THEN to ELSE wsStage[x]
             /\ SocketCounts'
  BY <1>0, <1>2, SocketMoved, HolderMoves DEF HoldingStages
<1> DEFINE Stays(s, from, to) ==
      /\ wsStage[s] = from
      /\ wsStage' \in [Sockets -> SocketStages]
      /\ \A x \in Sockets : wsStage'[x] = IF x = s THEN to ELSE wsStage[x]
      /\ SocketCounts'
<1> HIDE DEF Stays
<1>3. /\ {"upgrading", "created", "mapped", "reading", "pong"} \subseteq HoldingStages
      /\ {"unmapping", "unregistering", "releasing"} \subseteq HoldingStages
  BY DEF HoldingStages, SocketStages
<1>4. ASSUME NEW s \in Sockets, WebSocket!Upgrade(s)  PROVE SocketsInv'
  <2>1. Stays(s, "upgrading", "created")
    BY <1>2, <1>3, <1>4 DEF WebSocket!Upgrade, Stays
  <2> QED BY <1>0, <1>4, <2>1
      DEF WebSocket!Upgrade, SocketsInv, SocketTypes, SocketsPlaced, Stays
<1>5. ASSUME NEW s \in Sockets, WebSocket!Map(s)  PROVE SocketsInv'
  <2>1. Stays(s, "created", "mapped")
    BY <1>2, <1>3, <1>5 DEF WebSocket!Map, Stays
  <2> QED BY <1>0, <1>5, <2>1
      DEF WebSocket!Map, SocketsInv, SocketTypes, SocketsPlaced, Stays
<1>6. ASSUME NEW s \in Sockets, WebSocket!RegisterConnection(s)  PROVE SocketsInv'
  <2>1. Stays(s, "mapped", "reading")
    BY <1>2, <1>3, <1>6 DEF WebSocket!RegisterConnection, Stays
  <2> QED BY <1>0, <1>6, <2>1
      DEF WebSocket!RegisterConnection, SocketsInv, SocketTypes, SocketsPlaced, Stays
<1>7. ASSUME NEW s \in Sockets, WebSocket!ReadPong(s)  PROVE SocketsInv'
  <2>1. Stays(s, "reading", "pong")
    BY <1>2, <1>3, <1>7 DEF WebSocket!ReadPong, Stays
  <2> QED BY <1>0, <1>7, <2>1
      DEF WebSocket!ReadPong, SocketsInv, SocketTypes, SocketsPlaced, Stays
<1>8. ASSUME NEW s \in Sockets, WebSocket!UpdatePong(s)  PROVE SocketsInv'
  <2>1. Stays(s, "pong", "reading")
    BY <1>2, <1>3, <1>8 DEF WebSocket!UpdatePong, Stays
  <2> QED BY <1>0, <1>8, <2>1
      DEF WebSocket!UpdatePong, SocketsInv, SocketTypes, SocketsPlaced, Stays
<1>9. ASSUME NEW s \in Sockets, WebSocket!ReadFails(s)  PROVE SocketsInv'
  <2>1. Stays(s, "reading", "unmapping")
    BY <1>2, <1>3, <1>9 DEF WebSocket!ReadFails, Stays
  <2> QED BY <1>0, <1>9, <2>1
      DEF WebSocket!ReadFails, SocketsInv, SocketTypes, SocketsPlaced, Stays
<1>10. ASSUME NEW s \in Sockets, WebSocket!Unmap(s)  PROVE SocketsInv'
  <2>1. Stays(s, "unmapping", "unregistering")
    BY <1>2, <1>3, <1>10 DEF WebSocket!Unmap, Stays
  <2> QED BY <1>0, <1>10, <2>1
      DEF WebSocket!Unmap, SocketsInv, SocketTypes, SocketsPlaced, Stays
<1>11. ASSUME NEW s \in Sockets, WebSocket!UnregisterConnection(s)  PROVE SocketsInv'
  <2>1. Stays(s, "unregistering", "releasing")
    BY <1>2, <1>3, <1>11 DEF WebSocket!UnregisterConnection, Stays
  <2> QED BY <1>0, <1>11, <2>1
      DEF WebSocket!UnregisterConnection, SocketsInv, SocketTypes, SocketsPlaced, Stays
<1>12. ASSUME NEW s \in Sockets, WebSocket!Release(s)  PROVE SocketsInv'
  <2>1. /\ WebSocket!Move(s, "releasing", "closing") /\ wsCurrent' = wsCurrent - 1
        /\ UNCHANGED <<turnedAway, mapped, onBus, heart, alive, pinging, closed>>
    BY <1>12 DEF WebSocket!Release
  <2>2. "closing" \in SocketStages /\ OneIf("releasing", HoldingStages) = 1
        /\ OneIf("closing", HoldingStages) = 0
    BY DEF HoldingStages, SocketStages, OneIf
  <2>3. /\ wsStage[s] = "releasing"
        /\ wsStage' \in [Sockets -> SocketStages]
        /\ \A x \in Sockets : wsStage'[x] = IF x = s THEN "closing" ELSE wsStage[x]
        /\ Holders(wsStage') = Holders(wsStage) - 1
    BY <1>0, <2>1, <2>2, SocketMoved, HoldersNat
  <2>4. Cardinality(turnedAway) \in Nat
    BY <1>0, SomeSockets DEF SocketTypes
  <2>5. SocketCounts'
    BY <1>0, <2>1, <2>3, <2>4, HoldersNat, HandlersAssumption
    DEF SocketCounts, HandlersAssumption
  <2>6. SocketTypes' /\ SocketsPlaced'
    BY <1>0, <2>1, <2>3 DEF SocketTypes, SocketsPlaced
  <2> QED BY <2>5, <2>6 DEF SocketsInv
<1>13. ASSUME NEW s \in Sockets, WebSocket!Close(s)  PROVE SocketsInv'
  <2>1. /\ WebSocket!Move(s, "closing", "done")
        /\ alive' = alive \ {s} /\ closed' = closed \cup {s}
        /\ UNCHANGED <<wsCurrent, turnedAway, mapped, onBus, heart, pinging>>
    BY <1>13 DEF WebSocket!Close
  <2>2. "done" \in SocketStages /\ OneIf("closing", HoldingStages) = 0
        /\ OneIf("done", HoldingStages) = 0
    BY DEF HoldingStages, SocketStages, OneIf
  <2>3. /\ wsStage[s] = "closing"
        /\ wsStage' \in [Sockets -> SocketStages]
        /\ \A x \in Sockets : wsStage'[x] = IF x = s THEN "done" ELSE wsStage[x]
        /\ Holders(wsStage') = Holders(wsStage)
    BY <1>0, <2>1, <2>2, SocketMoved, HoldersNat
  <2>4. SocketCounts'
    BY <1>0, <2>1, <2>3 DEF SocketCounts
  <2>5. SocketTypes' /\ SocketsPlaced'
    BY <1>0, <2>1, <2>3 DEF SocketTypes, SocketsPlaced
  <2> QED BY <2>4, <2>5 DEF SocketsInv
<1>14. ASSUME NEW s \in Sockets,
              WebSocket!PingBegins(s) \/ WebSocket!PingEnds(s)
                \/ WebSocket!PingFails(s) \/ WebSocket!HeartEnds(s)
       PROVE  SocketsInv'
  <2>1. /\ UNCHANGED <<wsStage, wsCurrent, turnedAway, mapped, onBus, closed>>
        /\ alive' \subseteq alive /\ heart' \subseteq heart
        /\ pinging' \subseteq Sockets
    BY <1>0, <1>14 DEF WebSocket!PingBegins, WebSocket!PingEnds, WebSocket!PingFails,
       WebSocket!HeartEnds, SocketTypes
  <2> QED BY <1>0, <2>1 DEF SocketsInv, SocketTypes, SocketsPlaced, SocketCounts
<1>15. CASE UNCHANGED WebSocket!vars
  BY <1>0, <1>15 DEF WebSocket!vars, SocketsInv, SocketTypes, SocketsPlaced, SocketCounts
<1> QED
  BY <1>1, <1>4, <1>5, <1>6, <1>7, <1>8, <1>9, <1>10, <1>11, <1>12, <1>13, <1>14, <1>15
  DEF WebSocket!Next

LEMMA SocketsShow == SocketsInv => WebSocket!TypeOK /\ WebSocket!LimitShrinks
<1> SUFFICES ASSUME SocketsInv  PROVE WebSocket!TypeOK /\ WebSocket!LimitShrinks
  OBVIOUS
<1> DEFINE H == InStates(Sockets, wsStage, HoldingStages)
<1>0. SocketTypes /\ SocketsPlaced /\ SocketCounts
  BY DEF SocketsInv
<1>1. \A S : WebSocket!Cardinality(S) = Cardinality(S)
  BY DEF WebSocket!Cardinality, Cardinality, WebSocket!IsFiniteSet, IsFiniteSet
<1>2. WebSocket!Holding = H
  BY <1>0 DEF WebSocket!Holding, InStates, HoldingStages, SocketTypes, SocketStages
<1>3. H \in SUBSET Sockets /\ turnedAway \in SUBSET Sockets /\ H \cap turnedAway = {}
  BY <1>0 DEF InStates, SocketTypes, SocketsPlaced, HoldingStages, SocketStages
<1>4. wsCurrent \in 0..Cardinality(Sockets)
  <2>1. /\ IsFiniteSet(H) /\ Cardinality(H) \in Nat
        /\ IsFiniteSet(turnedAway) /\ Cardinality(turnedAway) \in Nat
    BY <1>3, SomeSockets
  <2>2. Cardinality(H \cup turnedAway) = Cardinality(H) + Cardinality(turnedAway)
    <3>1. Cardinality(H \cap turnedAway) = 0
      BY <1>3, FS_EmptySet
    <3>2. Cardinality(H \cup turnedAway)
            = Cardinality(H) + Cardinality(turnedAway) - Cardinality(H \cap turnedAway)
      BY <2>1, FS_Union
    <3> QED BY <2>1, <3>1, <3>2
  <2>3. Cardinality(H \cup turnedAway) <= Cardinality(Sockets) /\ Cardinality(Sockets) \in Nat
    BY <1>3, FS_Subset, FS_CardinalityType, HandlersAssumption DEF HandlersAssumption
  <2>4. wsCurrent = Cardinality(H) + Cardinality(turnedAway)
    BY <1>0 DEF SocketCounts, Holders
  <2> QED BY <2>1, <2>2, <2>3, <2>4
<1>5. WebSocket!TypeOK
  BY <1>0, <1>1, <1>4 DEF WebSocket!TypeOK, SocketTypes, SocketStages
<1>6. mapped \subseteq H /\ onBus \subseteq H \ closed
  BY <1>0 DEF SocketTypes, SocketsPlaced, InStates, HoldingStages, SocketStages
<1>7. heart \cap closed \subseteq Sockets \ alive
  BY <1>0 DEF SocketTypes, SocketsPlaced
<1> HIDE DEF H
<1>8. wsCurrent = Cardinality(H) + Cardinality(turnedAway) /\ Cardinality(H) <= MaxConnections
  BY <1>0 DEF SocketCounts, Holders, H
<1> QED BY <1>1, <1>2, <1>5, <1>6, <1>7, <1>8 DEF WebSocket!LimitShrinks
-----------------------------------------------------------------------------
(* The gRPC handler.  Servers are made by callers that found none: those   *)
(* made and those about to be are no more than the callers.                *)
Kind(f) == [c \in Callers |-> f[c].doing]
Makers(f) == Cardinality(InStates(Callers, Kind(f), {"initialising"}))

ClientsInv ==
    /\ \A t \in DOMAIN connections : connections[t] \in 1..dials
    /\ \A d \in 1..dials : d \in shut \/ \E t \in DOMAIN connections : connections[t] = d

ServersInv ==
    /\ DOMAIN grpcCaller = Callers
    /\ \A c \in Callers : grpcCaller[c].doing = "ready" => servers > 0
    /\ servers + Makers(grpcCaller) <= Cardinality(Callers)

GRPCInv == GRPC!TypeOK /\ ClientsInv /\ ServersInv

CallerStates == {GRPC!Idle} \cup [doing : {"dialling"}, target : Targets]
                \cup [doing : {"initialising", "ready"}, what : {"handle", "register"}]

LEMMA GRPCCounted == \A S : GRPC!Cardinality(S) = Cardinality(S)
BY DEF GRPC!Cardinality, Cardinality, GRPC!IsFiniteSet, IsFiniteSet

LEMMA GRPCInit == GRPC!Init => GRPCInv
<1> SUFFICES ASSUME GRPC!Init  PROVE GRPCInv
  OBVIOUS
<1>1. DOMAIN connections = {} /\ 1..0 = {}
  BY DEF GRPC!Init
<1>2. GRPC!TypeOK
  BY <1>1, HandlersAssumption DEF GRPC!Init, GRPC!TypeOK, HandlersAssumption
<1>3. ClientsInv
  BY <1>1 DEF GRPC!Init, ClientsInv
<1>4. ServersInv
  <2>1. Makers(grpcCaller) \in Nat /\ Makers(grpcCaller) <= Cardinality(Callers)
    BY CountIsNat, HandlersAssumption DEF Makers, HandlersAssumption
  <2>2. Cardinality(Callers) \in Nat
    BY FS_CardinalityType, HandlersAssumption DEF HandlersAssumption
  <2> QED BY <2>1, <2>2 DEF GRPC!Init, GRPC!Idle, ServersInv
<1> QED BY <1>2, <1>3, <1>4 DEF GRPCInv

(* A caller that goes on, and how many are about to make a server then.    *)
LEMMA CallerMoved ==
    ASSUME DOMAIN grpcCaller = Callers, NEW c \in Callers, NEW r,
           grpcCaller' = [grpcCaller EXCEPT ![c] = r]
    PROVE  /\ DOMAIN grpcCaller' = Callers
           /\ \A x \in Callers : grpcCaller'[x] = IF x = c THEN r ELSE grpcCaller[x]
           /\ Makers(grpcCaller') = Makers(grpcCaller)
                                    - OneIf(grpcCaller[c].doing, {"initialising"})
                                    + OneIf(r.doing, {"initialising"})
<1>1. /\ DOMAIN grpcCaller' = Callers
      /\ \A x \in Callers : grpcCaller'[x] = IF x = c THEN r ELSE grpcCaller[x]
  OBVIOUS
<1> DEFINE f == Kind(grpcCaller)
           g == Kind(grpcCaller')
<1>2. OnlyAt(Callers, f, g, c, r.doing)
  BY <1>1 DEF Kind, OnlyAt
<1>3. IsFiniteSet(Callers)
  BY HandlersAssumption DEF HandlersAssumption
<1>4. f[c] = grpcCaller[c].doing
  BY DEF Kind
<1> HIDE DEF f, g
<1>5. Cardinality(InStates(Callers, g, {"initialising"}))
        = Cardinality(InStates(Callers, f, {"initialising"}))
            - OneIf(f[c], {"initialising"}) + OneIf(r.doing, {"initialising"})
  BY <1>2, <1>3, CountMoved
<1> QED BY <1>1, <1>4, <1>5 DEF Makers, f, g

(* What the counts are made of are numbers, before and after a step.       *)
LEMMA MakersNat == \A f : Makers(f) \in Nat /\ Cardinality(Callers) \in Nat
BY CountIsNat, FS_CardinalityType, HandlersAssumption DEF Makers, HandlersAssumption

(* A caller that becomes a maker only while there is no server.            *)
LEMMA CallerKeeps ==
    ASSUME GRPCInv, NEW c \in Callers, NEW r \in CallerStates,
           grpcCaller' = [grpcCaller EXCEPT ![c] = r],
           UNCHANGED servers,
           r.doing = "initialising" => servers = 0,
           r.doing = "ready" => servers > 0
    PROVE  /\ \A x \in Callers : grpcCaller'[x] \in CallerStates
           /\ ServersInv'
<1>1. /\ DOMAIN grpcCaller' = Callers
      /\ \A x \in Callers : grpcCaller'[x] = IF x = c THEN r ELSE grpcCaller[x]
      /\ Makers(grpcCaller') = Makers(grpcCaller)
                               - OneIf(grpcCaller[c].doing, {"initialising"})
                               + OneIf(r.doing, {"initialising"})
  BY CallerMoved DEF GRPCInv, ServersInv
<1>2. \A x \in Callers : grpcCaller'[x] \in CallerStates
  BY <1>1 DEF GRPCInv, GRPC!TypeOK, CallerStates
<1>3. servers' + Makers(grpcCaller') <= Cardinality(Callers)
  <2>1. CASE r.doing = "initialising"
    <3>1. Makers(grpcCaller') <= Cardinality(Callers)
      BY CountIsNat, HandlersAssumption DEF Makers, HandlersAssumption
    <3> QED BY <2>1, <3>1, MakersNat
  <2>2. CASE r.doing # "initialising"
    BY <1>1, <2>2, MakersNat DEF OneIf, GRPCInv, ServersInv, GRPC!TypeOK
  <2> QED BY <2>1, <2>2
<1>4. \A x \in Callers : grpcCaller'[x].doing = "ready" => servers' > 0
  BY <1>1 DEF GRPCInv, ServersInv
<1> QED BY <1>1, <1>2, <1>3, <1>4 DEF ServersInv

LEMMA GRPCStep == GRPCInv /\ [GRPC!Next]_(GRPC!vars) => GRPCInv'
<1> SUFFICES ASSUME GRPCInv, [GRPC!Next]_(GRPC!vars)  PROVE GRPCInv'
  OBVIOUS
<1> USE DEF GRPC!clientVars, GRPC!serverVars
<1>0. /\ DOMAIN connections \subseteq Targets
      /\ \A t \in DOMAIN connections : connections[t] \in 1..MaxDials
      /\ dials \in 0..MaxDials /\ shut \subseteq 1..dials
      /\ \A c \in Callers : grpcCaller[c] \in CallerStates
      /\ servers \in 0..MaxServers
      /\ services \subseteq 1..servers /\ serving \subseteq 1..servers
  BY DEF GRPCInv, GRPC!TypeOK, CallerStates, GRPC!Dialled
<1>a. ASSUME /\ DOMAIN connections' \subseteq Targets
             /\ \A t \in DOMAIN connections' : connections'[t] \in 1..MaxDials
             /\ dials' \in 0..MaxDials /\ shut' \subseteq 1..dials'
             /\ \A c \in Callers : grpcCaller'[c] \in CallerStates
             /\ servers' \in 0..MaxServers
             /\ services' \subseteq 1..servers' /\ serving' \subseteq 1..servers'
      PROVE  GRPC!TypeOK'
  BY <1>a DEF GRPC!TypeOK, CallerStates, GRPC!Dialled
<1>b. MaxDials \in Nat /\ MaxServers \in Nat
  BY HandlersAssumption DEF HandlersAssumption
<1>1. ASSUME NEW c \in Callers, NEW t \in Targets, GRPC!LookUp(c, t)  PROVE GRPCInv'
  <2> DEFINE r == IF GRPC!Usable(t) THEN GRPC!Idle ELSE [doing |-> "dialling", target |-> t]
  <2>0. r \in CallerStates /\ r.doing \notin {"initialising", "ready"}
    BY DEF CallerStates, GRPC!Idle
  <2>1. grpcCaller' = [grpcCaller EXCEPT ![c] = r]
    BY <1>1 DEF GRPC!LookUp
  <2>2. UNCHANGED <<connections, dials, shut, servers, services, serving>>
    BY <1>1 DEF GRPC!LookUp
  <2>3. (\A x \in Callers : grpcCaller'[x] \in CallerStates) /\ ServersInv'
    <3> HIDE DEF r
    <3> QED BY <2>0, <2>1, <2>2, CallerKeeps
  <2>4. GRPC!TypeOK' /\ ClientsInv'
    BY <1>0, <1>a, <2>2, <2>3 DEF ClientsInv, GRPCInv
  <2> QED BY <2>3, <2>4 DEF GRPCInv
<1>2. ASSUME NEW c \in Callers, NEW what \in {"handle", "register"}, GRPC!CheckServer(c, what)
      PROVE  GRPCInv'
  <2> DEFINE r == [doing |-> IF servers = 0 THEN "initialising" ELSE "ready", what |-> what]
  <2>0. /\ r \in CallerStates
        /\ r.doing = "initialising" => servers = 0
        /\ r.doing = "ready" => servers > 0
    BY <1>0 DEF CallerStates
  <2>1. grpcCaller' = [grpcCaller EXCEPT ![c] = r]
    BY <1>2 DEF GRPC!CheckServer
  <2>2. UNCHANGED <<connections, dials, shut, servers, services, serving>>
    BY <1>2 DEF GRPC!CheckServer
  <2>3. (\A x \in Callers : grpcCaller'[x] \in CallerStates) /\ ServersInv'
    <3> HIDE DEF r
    <3> QED BY <2>0, <2>1, <2>2, CallerKeeps
  <2>4. GRPC!TypeOK' /\ ClientsInv'
    BY <1>0, <1>a, <2>2, <2>3 DEF ClientsInv, GRPCInv
  <2> QED BY <2>3, <2>4 DEF GRPCInv
<1>3. ASSUME NEW c \in Callers, GRPC!Dial(c)  PROVE GRPCInv'
  <2> DEFINE t == grpcCaller[c].target
  <2>0. t \in Targets
    BY <1>0, <1>3 DEF GRPC!Dial, CallerStates, GRPC!Idle
  <2>1. GRPC!Idle \in CallerStates /\ GRPC!Idle.doing = "idle"
    BY DEF CallerStates, GRPC!Idle
  <2>2. UNCHANGED <<shut, servers, services, serving>>
    BY <1>3 DEF GRPC!Dial
  <2>3. (\A x \in Callers : grpcCaller'[x] \in CallerStates) /\ ServersInv'
    BY <1>3, <2>1, <2>2, CallerKeeps DEF GRPC!Dial
  <2>4. CASE UNCHANGED <<connections, dials>>
    BY <1>0, <1>a, <2>2, <2>3, <2>4 DEF ClientsInv, GRPCInv
  <2>5. CASE /\ ~GRPC!Usable(t) /\ dials < MaxDials /\ dials' = dials + 1
             /\ connections' = [u \in DOMAIN connections \cup {t} |->
                                  IF u = t THEN dials + 1 ELSE connections[u]]
    <3> HIDE DEF t
    <3>1. /\ DOMAIN connections' = DOMAIN connections \cup {t}
          /\ connections'[t] = dials + 1
          /\ \A u \in DOMAIN connections \ {t} : connections'[u] = connections[u]
      BY <2>5
    <3>2. dials \in Nat /\ dials' \in 0..MaxDials /\ 1..dials \subseteq 1..dials'
          /\ \A d \in 1..dials' : d = dials + 1 \/ d \in 1..dials
      BY <1>0, <1>b, <2>5
    <3>3. \A u \in DOMAIN connections' : connections'[u] \in 1..dials'
      BY <2>5, <3>1, <3>2 DEF GRPCInv, ClientsInv
    <3>4. \A d \in 1..dials' : d \in shut' \/ \E u \in DOMAIN connections' : connections'[u] = d
      <4> SUFFICES ASSUME NEW d \in 1..dials', d \notin shut
                   PROVE  \E u \in DOMAIN connections' : connections'[u] = d
        BY <2>2
      <4>1. CASE d = dials + 1
        BY <3>1, <4>1
      <4>2. CASE d \in 1..dials
        <5>1. PICK u \in DOMAIN connections : connections[u] = d
          BY <4>2 DEF GRPCInv, ClientsInv
        <5>2. u # t
          BY <2>5, <5>1 DEF GRPC!Usable
        <5> QED BY <3>1, <5>1, <5>2
      <4> QED BY <3>2, <4>1, <4>2
    <3>5. GRPC!TypeOK'
      <4>1. shut' \subseteq 1..dials'
        BY <1>0, <2>2, <3>2
      <4>2. \A u \in DOMAIN connections' : connections'[u] \in 1..MaxDials
        BY <3>2, <3>3, <1>b
      <4> QED BY <1>0, <1>a, <2>0, <2>2, <2>3, <3>1, <3>2, <4>1, <4>2
    <3> QED BY <2>3, <3>3, <3>4, <3>5 DEF GRPCInv, ClientsInv
  <2> QED BY <1>3, <2>4, <2>5 DEF GRPC!Dial
<1>4. ASSUME NEW c \in Callers, GRPC!InitializeServer(c)  PROVE GRPCInv'
  <2> DEFINE r == [grpcCaller[c] EXCEPT !.doing = "ready"]
  <2>1. r \in CallerStates /\ r.doing = "ready"
    BY <1>0, <1>4 DEF GRPC!InitializeServer, CallerStates, GRPC!Idle
  <2>2. /\ grpcCaller' = [grpcCaller EXCEPT ![c] = r]
        /\ grpcCaller[c].doing = "initialising"
        /\ servers < MaxServers /\ servers' = servers + 1
        /\ UNCHANGED <<connections, dials, shut, services, serving>>
    BY <1>4 DEF GRPC!InitializeServer
  <2> HIDE DEF r
  <2>3. /\ DOMAIN grpcCaller' = Callers
        /\ \A x \in Callers : grpcCaller'[x] = IF x = c THEN r ELSE grpcCaller[x]
        /\ Makers(grpcCaller') = Makers(grpcCaller) - 1
    <3>1. DOMAIN grpcCaller = Callers
      BY DEF GRPCInv, ServersInv
    <3>2. /\ DOMAIN grpcCaller' = Callers
          /\ \A x \in Callers : grpcCaller'[x] = IF x = c THEN r ELSE grpcCaller[x]
          /\ Makers(grpcCaller') = Makers(grpcCaller)
                                   - OneIf(grpcCaller[c].doing, {"initialising"})
                                   + OneIf(r.doing, {"initialising"})
      BY <2>2, <3>1, CallerMoved
    <3>3. OneIf(grpcCaller[c].doing, {"initialising"}) = 1 /\ OneIf(r.doing, {"initialising"}) = 0
      BY <2>1, <2>2 DEF OneIf
    <3> QED BY <3>2, <3>3, MakersNat
  <2>4. servers' + Makers(grpcCaller') <= Cardinality(Callers) /\ servers' \in 0..MaxServers
        /\ 1..servers \subseteq 1..servers' /\ servers' > 0
    BY <1>0, <1>b, <2>2, <2>3, MakersNat DEF GRPCInv, ServersInv
  <2>5. GRPC!TypeOK'
    BY <1>0, <1>a, <2>1, <2>2, <2>3, <2>4
  <2> QED BY <2>2, <2>3, <2>4, <2>5 DEF GRPCInv, ClientsInv, ServersInv
<1>5. ASSUME NEW c \in Callers, GRPC!UseServer(c)  PROVE GRPCInv'
  <2>1. GRPC!Idle \in CallerStates /\ GRPC!Idle.doing = "idle"
    BY DEF CallerStates, GRPC!Idle
  <2>2. UNCHANGED <<connections, dials, shut, servers>>
    BY <1>5 DEF GRPC!UseServer
  <2>3. (\A x \in Callers : grpcCaller'[x] \in CallerStates) /\ ServersInv'
    BY <1>5, <2>1, <2>2, CallerKeeps DEF GRPC!UseServer
  <2>4. servers \in 1..servers
    BY <1>0, <1>5 DEF GRPC!UseServer, GRPCInv, ServersInv
  <2>5. GRPC!TypeOK'
    BY <1>0, <1>5, <1>a, <2>2, <2>3, <2>4 DEF GRPC!UseServer
  <2> QED BY <2>2, <2>3, <2>5 DEF GRPCInv, ClientsInv
<1>6. ASSUME NEW S \in SUBSET DOMAIN connections, GRPC!Remove(S)  PROVE GRPCInv'
  <2>1. /\ DOMAIN connections' = DOMAIN connections \ S
        /\ \A t \in DOMAIN connections \ S : connections'[t] = connections[t]
        /\ shut' = shut \cup {connections[t] : t \in S}
        /\ UNCHANGED <<dials, grpcCaller, servers, services, serving>>
    BY <1>6 DEF GRPC!Remove
  <2>2. shut' \subseteq 1..dials'
    BY <1>0, <2>1 DEF GRPCInv, ClientsInv
  <2>3. GRPC!TypeOK'
    BY <1>0, <1>a, <2>1, <2>2
  <2>4. ClientsInv'
    <3>1. ASSUME NEW d \in 1..dials, d \notin shut'
          PROVE  \E t \in DOMAIN connections' : connections'[t] = d
      <4>1. PICK t \in DOMAIN connections : connections[t] = d
        BY <2>1, <3>1 DEF GRPCInv, ClientsInv
      <4>2. t \notin S
        BY <2>1, <3>1, <4>1
      <4> QED BY <2>1, <4>1, <4>2
    <3> QED BY <2>1, <3>1 DEF GRPCInv, ClientsInv
  <2> QED BY <2>1, <2>3, <2>4 DEF GRPCInv, ServersInv
<1>7. ASSUME NEW t \in Targets, GRPC!UserCloses(t)  PROVE GRPCInv'
  <2>1. /\ t \in DOMAIN connections /\ shut' = shut \cup {connections[t]}
        /\ UNCHANGED <<connections, dials, grpcCaller, servers, services, serving>>
    BY <1>7 DEF GRPC!UserCloses, GRPC!Usable
  <2>2. shut' \subseteq 1..dials'
    BY <1>0, <2>1 DEF GRPCInv, ClientsInv
  <2>3. GRPC!TypeOK'
    BY <1>0, <1>a, <2>1, <2>2
  <2> QED BY <2>1, <2>3 DEF GRPCInv, ClientsInv, ServersInv
<1>8. ASSUME UNCHANGED GRPC!vars  PROVE GRPCInv'
  BY <1>0, <1>8, <1>a DEF GRPC!vars, GRPCInv, ClientsInv, ServersInv
<1> QED
  BY <1>1, <1>2, <1>3, <1>4, <1>5, <1>6, <1>7, <1>8
  DEF GRPC!Next, GRPC!CloseConnection, GRPC!CloseAll

LEMMA GRPCShows == GRPCInv => GRPC!TypeOK /\ GRPC!DialledIsKept
<1>1. ASSUME GRPCInv  PROVE servers <= Cardinality(Callers)
  BY <1>1, MakersNat DEF GRPCInv, ServersInv, GRPC!TypeOK
<1> QED BY <1>1, GRPCCounted DEF GRPCInv, ClientsInv, GRPC!DialledIsKept
-----------------------------------------------------------------------------
LEMMA SlotsHold == SuiteSpec => [](HTTPInv /\ SocketsInv /\ GRPCInv)
<1>1. SuiteInit => HTTPInv /\ SocketsInv /\ GRPCInv
  BY HTTPInit, SocketsInit, GRPCInit DEF SuiteInit
<1>2. HTTPInv /\ SocketsInv /\ GRPCInv /\ [SuiteNext]_suiteVars
        => (HTTPInv /\ SocketsInv /\ GRPCInv)'
  <2> SUFFICES ASSUME HTTPInv, SocketsInv, GRPCInv, [SuiteNext]_suiteVars
               PROVE  (HTTPInv /\ SocketsInv /\ GRPCInv)'
    OBVIOUS
  <2>1. [HTTP!Next]_(HTTP!vars)
    BY DEF SuiteNext, suiteVars, httpVars, HTTP!vars
  <2>2. [WebSocket!Next]_(WebSocket!vars)
    BY DEF SuiteNext, suiteVars, wsVars, WebSocket!vars
  <2>3. [GRPC!Next]_(GRPC!vars)
    BY DEF SuiteNext, suiteVars, grpcVars, GRPC!vars
  <2> QED BY <2>1, <2>2, <2>3, HTTPStep, SocketsStep, GRPCStep
<1> QED BY <1>1, <1>2, PTL DEF SuiteSpec

(* Handlers account for what they take.  The HTTP connection manager:      *)
(* limiter and connections inside Handle agree, whatever panics, fails to  *)
(* parse or is stuck in a writer's mutex, and no writer serves two.  The   *)
(* WebSocket handler: its limiter counts those that hold a slot and those  *)
(* turned away, map and bus hold live connections only.  The gRPC handler: *)
(* no client connection is dialled and forgotten, and no more servers are  *)
(* made than there are callers.                                            *)
THEOREM SlotsAccountedHolds == SuiteSpec => []SlotsAccounted
<1>1. HTTPInv /\ SocketsInv /\ GRPCInv => SlotsAccounted
  BY HTTPShows, SocketsShow, GRPCShows DEF SlotsAccounted
<1> QED BY <1>1, SlotsHold, PTL
-----------------------------------------------------------------------------
(* The logger.  What was sent is in the channel, in the hands of one       *)
(* goroutine or written, once; what is about to be sent is nowhere yet.    *)
Held == Log!InHand(Log!Handlers)
HeldBySenders == Log!InHand(Senders)
Repeats(s) == \E i, j \in 1..Len(s) : i # j /\ s[i] = s[j]

LogTypes ==
    /\ calls \in 0..MaxEvents /\ sender \in [Senders -> 0..MaxEvents]
    /\ sent \in Seq(Log!Events) /\ channel \in Seq(Log!Events) /\ written \in Seq(Log!Events)
    /\ Len(channel) <= BufferSize
    /\ hand \in [Log!Handlers -> 0..MaxEvents] /\ flushing \subseteq Senders
    /\ processor \in {"loop", "flush", "ended"}
    /\ stuck \in BOOLEAN /\ exited \in BOOLEAN
    /\ stopping = Log!NotYet \/ stopping \subseteq Log!ToSet(sent)

NewEvents ==
    /\ \A s \in Senders : sender[s] <= calls /\ sender[s] \notin Log!ToSet(sent)
    /\ \A r, s \in Senders : sender[r] = sender[s] /\ sender[r] # 0 => r = s
    /\ \A e \in Log!ToSet(sent) : e <= calls

SentEvents ==
    /\ Log!ToSet(sent) = Log!ToSet(channel) \cup Held \cup Log!ToSet(written)
    /\ Log!ToSet(channel) \cap Held = {} /\ Log!ToSet(written) \cap Held = {}
    /\ Log!ToSet(channel) \cap Log!ToSet(written) = {}
    /\ ~Repeats(channel) /\ ~Repeats(written)
    /\ \A g, h \in Log!Handlers : hand[g] = hand[h] /\ hand[g] # 0 => g = h

(* Only a sender of a fatal event takes part in the handling, and Stop     *)
(* ends a processor that has nothing in hand.                              *)
LogRules ==
    /\ \A s \in Senders : hand[s] # 0 => s \in flushing
    /\ flushing # {} => Log!ToSet(sent) \cap Fatals # {}
    /\ processor = "ended" =>
        hand["processor"] = 0 /\ stopping \subseteq Log!ToSet(written) \cup HeldBySenders
    /\ processor # "loop" => stopping # Log!NotYet
    /\ exited => \E e \in Fatals : e \in Log!ToSet(written) \cup Held

(* Without a fatal event: what is written, what the processor has in hand  *)
(* and the channel, one after the other, are what was sent.                *)
InTheProcessor == IF hand["processor"] = 0 THEN 0 ELSE 1
SentInOrder ==
    /\ Len(sent) = Len(written) + InTheProcessor + Len(channel)
    /\ \A i \in 1..Len(written) : written[i] = sent[i]
    /\ hand["processor"] # 0 => hand["processor"] = sent[Len(written) + 1]
    /\ \A i \in 1..Len(channel) : channel[i] = sent[Len(written) + InTheProcessor + i]

LogInv ==
    /\ LogTypes /\ NewEvents /\ SentEvents /\ LogRules
    /\ Log!ToSet(sent) \cap Fatals = {} => SentInOrder

LEMMA GrownSet ==
    ASSUME NEW S, NEW s \in Seq(S), NEW e \in S
    PROVE  Log!ToSet(Append(s, e)) = Log!ToSet(s) \cup {e}
<1> DEFINE t == Append(s, e)
<1>1. /\ Len(t) = Len(s) + 1 /\ t \in Seq(S)
      /\ \A i \in 1..Len(s) : t[i] = s[i]
      /\ t[Len(s) + 1] = e
  BY AppendProperties
<1>2. Len(s) \in Nat /\ DOMAIN s = 1..Len(s) /\ DOMAIN t = 1..Len(t)
  BY <1>1, LenProperties
<1> HIDE DEF t
<1>3. Log!ToSet(t) = Log!ToSet(s) \cup {e}
  BY <1>1, <1>2 DEF Log!ToSet
<1> QED BY <1>3 DEF t

LEMMA Grown ==
    ASSUME NEW S, NEW s \in Seq(S), NEW e \in S, NEW t, t = Append(s, e)
    PROVE  /\ t \in Seq(S) /\ Len(s) \in Nat /\ Len(t) = Len(s) + 1
           /\ \A i \in 1..Len(s) : t[i] = s[i]
           /\ t[Len(s) + 1] = e
           /\ Log!ToSet(t) = Log!ToSet(s) \cup {e}
           /\ e \notin Log!ToSet(s) /\ ~Repeats(s) => ~Repeats(t)
<1>1. /\ t \in Seq(S) /\ Len(t) = Len(s) + 1
      /\ \A i \in 1..Len(s) : t[i] = s[i]
      /\ t[Len(s) + 1] = e
  BY AppendProperties
<1>2. Len(s) \in Nat /\ DOMAIN s = 1..Len(s) /\ DOMAIN t = 1..Len(t)
  BY <1>1, LenProperties
<1>3. Log!ToSet(t) = Log!ToSet(s) \cup {e}
  BY GrownSet
<1>4. ASSUME e \notin Log!ToSet(s), ~Repeats(s),
             NEW i \in 1..Len(t), NEW j \in 1..Len(t), t[i] = t[j]
      PROVE  i = j
  <2>1. \A k \in 1..Len(s) : t[k] # e
    BY <1>1, <1>2, <1>4 DEF Log!ToSet
  <2>2. CASE i = Len(s) + 1 \/ j = Len(s) + 1
    BY <1>1, <1>2, <1>4, <2>1, <2>2
  <2>3. CASE i \in 1..Len(s) /\ j \in 1..Len(s)
    BY <1>1, <1>4, <2>3 DEF Repeats
  <2> QED BY <1>1, <1>2, <2>2, <2>3
<1> QED BY <1>1, <1>2, <1>3, <1>4 DEF Repeats

LEMMA Shrunk ==
    ASSUME NEW S, NEW s \in Seq(S), s # <<>>, NEW t, t = Tail(s)
    PROVE  /\ t \in Seq(S) /\ Len(s) \in Nat /\ Len(s) > 0 /\ Len(t) = Len(s) - 1
           /\ Head(s) = s[1] /\ Head(s) \in S /\ Head(s) \in Log!ToSet(s)
           /\ \A i \in 1..Len(t) : t[i] = s[i + 1]
           /\ Log!ToSet(s) = Log!ToSet(t) \cup {Head(s)}
           /\ ~Repeats(s) => ~Repeats(t) /\ Head(s) \notin Log!ToSet(t)
<1>1. /\ t \in Seq(S) /\ Len(t) = Len(s) - 1 /\ Head(s) \in S
      /\ \A i \in 1..Len(t) : t[i] = s[i + 1]
  BY HeadTailProperties
<1>2. Len(s) \in Nat /\ Len(s) > 0 /\ DOMAIN s = 1..Len(s) /\ DOMAIN t = 1..Len(t) /\ Head(s) = s[1]
  BY <1>1, EmptySeq, LenProperties
<1>3. Log!ToSet(s) = Log!ToSet(t) \cup {Head(s)}
  <2>1. ASSUME NEW i \in 1..Len(s) PROVE s[i] \in Log!ToSet(t) \cup {Head(s)}
    <3>1. CASE i = 1 BY <3>1, <1>2
    <3>2. CASE i # 1
      <4>1. i - 1 \in 1..Len(t) /\ t[i - 1] = s[i]
        BY <3>2, <1>1, <1>2
      <4> QED BY <4>1, <1>2 DEF Log!ToSet
    <3> QED BY <3>1, <3>2
  <2>2. ASSUME NEW i \in 1..Len(t) PROVE t[i] \in Log!ToSet(s)
    <3>1. i + 1 \in 1..Len(s) /\ t[i] = s[i + 1]
      BY <1>1, <1>2
    <3> QED BY <3>1, <1>2 DEF Log!ToSet
  <2>3. Head(s) \in Log!ToSet(s)
    BY <1>2 DEF Log!ToSet
  <2> QED BY <2>1, <2>2, <2>3, <1>2 DEF Log!ToSet
<1>4. ASSUME ~Repeats(s) PROVE ~Repeats(t) /\ Head(s) \notin Log!ToSet(t)
  <2>1. \A i \in 1..Len(t) : i + 1 \in 1..Len(s) /\ t[i] = s[i + 1] /\ i + 1 # 1
    BY <1>1, <1>2
  <2>2. ~Repeats(t)
    BY <1>4, <2>1 DEF Repeats
  <2>3. ASSUME NEW i \in 1..Len(t) PROVE t[i] # Head(s)
    <3>1. 1 \in 1..Len(s) BY <1>2
    <3> QED BY <1>2, <1>4, <2>1, <3>1 DEF Repeats
  <2> QED BY <2>2, <2>3, <1>2 DEF Log!ToSet
<1> QED BY <1>1, <1>2, <1>3, <1>4

LEMMA TakenInHand ==
    ASSUME hand \in [Log!Handlers -> 0..MaxEvents], NEW h \in Log!Handlers, hand[h] = 0,
           NEW e \in Log!Events, hand' = [hand EXCEPT ![h] = e]
    PROVE  /\ hand' \in [Log!Handlers -> 0..MaxEvents] /\ hand'[h] = e /\ e # 0
           /\ \A g \in Log!Handlers \ {h} : hand'[g] = hand[g]
           /\ Held' = Held \cup {e} /\ HeldBySenders \subseteq HeldBySenders'
<1>1. MaxEvents \in Nat /\ e # 0 /\ Senders \subseteq Log!Handlers
  BY HandlersAssumption DEF Log!Events, Log!Handlers, HandlersAssumption
<1>2. /\ hand' \in [Log!Handlers -> 0..MaxEvents] /\ hand'[h] = e
      /\ \A g \in Log!Handlers \ {h} : hand'[g] = hand[g]
  BY <1>1 DEF Log!Events
<1> QED BY <1>1, <1>2 DEF Held, HeldBySenders, Log!InHand

LEMMA LeftHand ==
    ASSUME hand \in [Log!Handlers -> 0..MaxEvents], NEW h \in Log!Handlers, hand[h] # 0,
           \A g \in Log!Handlers : hand[g] = hand[h] => g = h,
           hand' = [hand EXCEPT ![h] = 0]
    PROVE  /\ hand' \in [Log!Handlers -> 0..MaxEvents] /\ hand'[h] = 0
           /\ \A g \in Log!Handlers \ {h} : hand'[g] = hand[g]
           /\ Held' = Held \ {hand[h]} /\ hand[h] \in Held
           /\ HeldBySenders \subseteq HeldBySenders' \cup {hand[h]}
<1>1. MaxEvents \in Nat /\ Senders \subseteq Log!Handlers
  BY HandlersAssumption DEF Log!Handlers, HandlersAssumption
<1>2. /\ hand' \in [Log!Handlers -> 0..MaxEvents] /\ hand'[h] = 0
      /\ \A g \in Log!Handlers \ {h} : hand'[g] = hand[g]
  BY <1>1
<1> QED BY <1>1, <1>2 DEF Held, HeldBySenders, Log!InHand

LEMMA LogInit == Log!Init => LogInv
<1> SUFFICES ASSUME Log!Init PROVE LogInv
  OBVIOUS
<1>0. MaxEvents \in Nat /\ BufferSize \in Nat /\ "processor" \in Log!Handlers
  BY HandlersAssumption DEF HandlersAssumption, Log!Handlers
<1>1. /\ sent = <<>> /\ channel = <<>> /\ written = <<>> /\ calls = 0
      /\ sender = [s \in Senders |-> 0] /\ hand = [h \in Log!Handlers |-> 0]
      /\ flushing = {} /\ processor = "loop" /\ stuck = FALSE /\ stopping = Log!NotYet
      /\ exited = FALSE
  BY DEF Log!Init
<1>2. <<>> \in Seq(Log!Events) /\ Len(<<>>) = 0
  BY EmptySeq
<1>3. LogTypes
  <2>1. /\ sent \in Seq(Log!Events) /\ channel \in Seq(Log!Events)
        /\ written \in Seq(Log!Events) /\ Len(channel) = 0
    BY <1>1, <1>2
  <2>2. Len(channel) <= BufferSize
    BY <1>0, <2>1
  <2>3. /\ calls \in 0..MaxEvents /\ sender \in [Senders -> 0..MaxEvents]
        /\ hand \in [Log!Handlers -> 0..MaxEvents] /\ flushing \subseteq Senders
    BY <1>0, <1>1
  <2>4. /\ processor \in {"loop", "flush", "ended"} /\ stuck \in BOOLEAN
        /\ exited \in BOOLEAN /\ stopping = Log!NotYet
    BY <1>1
  <2> QED BY <2>1, <2>2, <2>3, <2>4 DEF LogTypes
<1>4. /\ Log!ToSet(sent) = {} /\ Log!ToSet(channel) = {} /\ Log!ToSet(written) = {}
      /\ ~Repeats(channel) /\ ~Repeats(written)
  BY <1>1, <1>2 DEF Log!ToSet, Repeats
<1>5. Held = {} /\ HeldBySenders = {}
  BY <1>1 DEF Held, HeldBySenders, Log!InHand, Log!Handlers
<1>6. NewEvents
  BY <1>0, <1>1, <1>4 DEF NewEvents
<1>7. SentEvents
  BY <1>1, <1>4, <1>5 DEF SentEvents
<1>8. LogRules
  BY <1>0, <1>1 DEF LogRules, Log!Handlers
<1>9. SentInOrder
  BY <1>0, <1>1, <1>2 DEF SentInOrder, InTheProcessor
<1> QED BY <1>3, <1>6, <1>7, <1>8, <1>9 DEF LogInv

LEMMA LogSends ==
    ASSUME LogInv, ~exited, NEW s \in Senders, Log!Send(s)
    PROVE  LogInv'
<1> DEFINE e == sender[s]
<1>1. /\ e # 0 /\ Len(channel) < BufferSize /\ channel' = Append(channel, e)
      /\ sent' = Append(sent, e) /\ sender' = [sender EXCEPT ![s] = 0]
      /\ flushing' = IF e \in Fatals THEN flushing \cup {s} ELSE flushing
      /\ UNCHANGED <<calls, hand, processor, stuck, written, stopping, exited>>
  BY DEF Log!Send
<1>2. LogTypes /\ NewEvents /\ SentEvents /\ LogRules
  BY DEF LogInv
<1>3. MaxEvents \in Nat /\ BufferSize \in Nat /\ "processor" \in Log!Handlers
  BY HandlersAssumption DEF HandlersAssumption, Log!Handlers
<1>4. e \in Log!Events /\ e <= calls /\ e \notin Log!ToSet(sent) /\ calls \in Nat
  BY <1>1, <1>2, <1>3 DEF LogTypes, NewEvents, Log!Events
<1>5. /\ channel \in Seq(Log!Events) /\ sent \in Seq(Log!Events) /\ written \in Seq(Log!Events)
      /\ Len(written) \in Nat
  BY <1>2, LenProperties DEF LogTypes
<1>6. /\ channel' \in Seq(Log!Events) /\ Len(channel) \in Nat /\ Len(channel') = Len(channel) + 1
      /\ \A i \in 1..Len(channel) : channel'[i] = channel[i]
      /\ channel'[Len(channel) + 1] = e
      /\ Log!ToSet(channel') = Log!ToSet(channel) \cup {e}
      /\ e \notin Log!ToSet(channel) /\ ~Repeats(channel) => ~Repeats(channel')
  <2>1. channel \in Seq(Log!Events) /\ e \in Log!Events /\ channel' = Append(channel, e)
    BY <1>1, <1>4, <1>5
  <2> HIDE DEF e
  <2>2. /\ channel' \in Seq(Log!Events) /\ Len(channel) \in Nat /\ Len(channel') = Len(channel) + 1
        /\ \A i \in 1..Len(channel) : channel'[i] = channel[i]
        /\ channel'[Len(channel) + 1] = e
    BY <2>1, Grown
  <2>3. Log!ToSet(channel') = Log!ToSet(channel) \cup {e}
    BY <2>1, GrownSet
  <2>4. e \notin Log!ToSet(channel) /\ ~Repeats(channel) => ~Repeats(channel')
    BY <2>1, Grown
  <2> QED BY <2>2, <2>3, <2>4
<1>7. /\ sent' \in Seq(Log!Events) /\ Len(sent) \in Nat /\ Len(sent') = Len(sent) + 1
      /\ \A i \in 1..Len(sent) : sent'[i] = sent[i]
      /\ sent'[Len(sent) + 1] = e
      /\ Log!ToSet(sent') = Log!ToSet(sent) \cup {e}
  <2>1. sent \in Seq(Log!Events) /\ e \in Log!Events /\ sent' = Append(sent, e)
    BY <1>1, <1>4, <1>5
  <2> HIDE DEF e
  <2>2. /\ sent' \in Seq(Log!Events) /\ Len(sent) \in Nat /\ Len(sent') = Len(sent) + 1
        /\ \A i \in 1..Len(sent) : sent'[i] = sent[i]
        /\ sent'[Len(sent) + 1] = e
    BY <2>1, Grown
  <2>3. Log!ToSet(sent') = Log!ToSet(sent) \cup {e}
    BY <2>1, GrownSet
  <2> QED BY <2>2, <2>3
<1>8. Held' = Held /\ HeldBySenders' = HeldBySenders
  BY <1>1 DEF Held, HeldBySenders, Log!InHand
<1>9. \A r \in Senders : sender'[r] = IF r = s THEN 0 ELSE sender[r]
  BY <1>1, <1>2 DEF LogTypes
<1>10. LogTypes'
  <2>1. sender' \in [Senders -> 0..MaxEvents] /\ flushing' \subseteq Senders
    BY <1>1, <1>2, <1>3 DEF LogTypes
  <2>2. Len(channel') <= BufferSize
    BY <1>1, <1>3, <1>6
  <2> QED BY <1>1, <1>2, <1>6, <1>7, <2>1, <2>2 DEF LogTypes
<1>11. NewEvents'
  <2>1. 0 \notin Log!ToSet(sent')
    <3>1. \A i \in 1..Len(sent) : sent[i] \in Log!Events
      BY <1>5, ElementOfSeq
    <3>2. 0 \notin Log!ToSet(sent)
      BY <3>1, <1>5, LenProperties DEF Log!ToSet, Log!Events
    <3> QED BY <3>2, <1>1, <1>7
  <2>2. ASSUME NEW r \in Senders PROVE sender'[r] <= calls' /\ sender'[r] \notin Log!ToSet(sent')
    BY <1>1, <1>2, <1>4, <1>7, <1>9, <2>1 DEF NewEvents
  <2>3. \A r, q \in Senders : sender'[r] = sender'[q] /\ sender'[r] # 0 => r = q
    BY <1>2, <1>9 DEF NewEvents
  <2>4. \A x \in Log!ToSet(sent') : x <= calls'
    BY <1>1, <1>2, <1>4, <1>7 DEF NewEvents
  <2> QED BY <2>2, <2>3, <2>4 DEF NewEvents
<1>12. SentEvents'
  <2>1. e \notin Log!ToSet(channel) /\ e \notin Held /\ e \notin Log!ToSet(written)
    BY <1>2, <1>4 DEF SentEvents
  <2> QED BY <1>1, <1>2, <1>6, <1>7, <1>8, <2>1 DEF SentEvents
<1>13. LogRules'
  <2>1. flushing' # {} => Log!ToSet(sent') \cap Fatals # {}
    BY <1>1, <1>2, <1>7 DEF LogRules
  <2> QED BY <1>1, <1>2, <1>8, <2>1 DEF LogRules
<1>14. ASSUME Log!ToSet(sent') \cap Fatals = {} PROVE SentInOrder'
  <2>1. SentInOrder
    BY <1>7, <1>14 DEF LogInv
  <2>2. InTheProcessor' = InTheProcessor /\ InTheProcessor \in {0, 1}
    BY <1>1 DEF InTheProcessor
  <2>3. Len(sent') = Len(written') + InTheProcessor' + Len(channel')
    BY <1>1, <1>5, <1>6, <1>7, <2>1, <2>2 DEF SentInOrder
  <2>4. \A i \in 1..Len(written') : written'[i] = sent'[i]
    BY <1>1, <1>5, <1>6, <1>7, <2>1, <2>2 DEF SentInOrder
  <2>5. hand'["processor"] # 0 => hand'["processor"] = sent'[Len(written') + 1]
    BY <1>1, <1>5, <1>6, <1>7, <2>1 DEF SentInOrder, InTheProcessor
  <2>6. \A i \in 1..Len(channel') : channel'[i] = sent'[Len(written') + InTheProcessor' + i]
    <3>1. ASSUME NEW i \in 1..Len(channel)
          PROVE  channel'[i] = sent'[Len(written') + InTheProcessor' + i]
      <4>1. channel[i] = sent[Len(written) + InTheProcessor + i]
        BY <2>1 DEF SentInOrder
      <4>2. Len(written) + InTheProcessor + i \in 1..Len(sent)
        BY <1>5, <1>6, <1>7, <2>1, <2>2 DEF SentInOrder
      <4> QED BY <1>1, <1>6, <1>7, <2>2, <4>1, <4>2
    <3>2. channel'[Len(channel) + 1] = sent'[Len(written') + InTheProcessor' + (Len(channel) + 1)]
      <4>1. Len(written') + InTheProcessor' + (Len(channel) + 1) = Len(sent) + 1
        BY <1>1, <1>5, <1>6, <1>7, <2>1, <2>2 DEF SentInOrder
      <4> QED BY <4>1, <1>6, <1>7
    <3>3. 1..Len(channel') = 1..Len(channel) \cup {Len(channel) + 1}
      BY <1>6
    <3> QED BY <3>1, <3>2, <3>3
  <2> QED BY <2>3, <2>4, <2>5, <2>6 DEF SentInOrder
<1> QED BY <1>10, <1>11, <1>12, <1>13, <1>14 DEF LogInv

LEMMA LogReceives ==
    ASSUME LogInv, ~exited, NEW h \in Log!Handlers, Log!Receive(h)
    PROVE  LogInv'
<1> DEFINE e == Head(channel)
<1>1. /\ Log!Handles(h) /\ hand[h] = 0 /\ channel # <<>>
      /\ hand' = [hand EXCEPT ![h] = e] /\ channel' = Tail(channel)
      /\ UNCHANGED <<calls, sender, sent, flushing, processor, stuck, written, stopping, exited>>
  BY DEF Log!Receive
<1>2. LogTypes /\ NewEvents /\ SentEvents /\ LogRules
  BY DEF LogInv
<1>3. /\ MaxEvents \in Nat /\ BufferSize \in Nat /\ "processor" \in Log!Handlers
      /\ "processor" \notin Senders
  BY HandlersAssumption DEF HandlersAssumption, Log!Handlers
<1>4. Len(written) \in Nat /\ Len(sent) \in Nat
  BY <1>2, LenProperties DEF LogTypes
<1>5. /\ channel' \in Seq(Log!Events) /\ Len(channel) \in Nat /\ Len(channel) > 0
      /\ Len(channel') = Len(channel) - 1
      /\ e = channel[1] /\ e \in Log!Events /\ e \in Log!ToSet(channel)
      /\ \A i \in 1..Len(channel') : channel'[i] = channel[i + 1]
      /\ Log!ToSet(channel) = Log!ToSet(channel') \cup {e}
      /\ ~Repeats(channel) => ~Repeats(channel') /\ e \notin Log!ToSet(channel')
  <2>1. channel \in Seq(Log!Events) /\ channel # <<>> /\ channel' = Tail(channel)
    BY <1>1, <1>2 DEF LogTypes
  <2>2. /\ channel' \in Seq(Log!Events) /\ Len(channel) \in Nat /\ Len(channel) > 0
        /\ Len(channel') = Len(channel) - 1
        /\ e = channel[1] /\ e \in Log!Events /\ e \in Log!ToSet(channel)
        /\ \A i \in 1..Len(channel') : channel'[i] = channel[i + 1]
    BY <2>1, Shrunk
  <2>3. Log!ToSet(channel) = Log!ToSet(channel') \cup {e}
    BY <2>1, Shrunk
  <2>4. ~Repeats(channel) => ~Repeats(channel') /\ e \notin Log!ToSet(channel')
    BY <2>1, Shrunk
  <2> QED BY <2>2, <2>3, <2>4
<1>6. /\ hand' \in [Log!Handlers -> 0..MaxEvents] /\ hand'[h] = e /\ e # 0
      /\ \A g \in Log!Handlers \ {h} : hand'[g] = hand[g]
      /\ Held' = Held \cup {e} /\ HeldBySenders \subseteq HeldBySenders'
  BY <1>1, <1>2, <1>5, TakenInHand DEF LogTypes
<1>7. LogTypes'
  <2>1. Len(channel') <= BufferSize
    BY <1>2, <1>3, <1>5 DEF LogTypes
  <2> QED BY <1>1, <1>2, <1>5, <1>6, <2>1 DEF LogTypes
<1>8. NewEvents'
  BY <1>1, <1>2 DEF NewEvents
<1>9. SentEvents'
  <2>1. e \notin Held /\ e \notin Log!ToSet(written) /\ e \in Log!ToSet(sent)
    BY <1>2, <1>5 DEF SentEvents
  <2>2. \A g \in Log!Handlers : hand[g] # e
    BY <1>6, <2>1 DEF Held, Log!InHand
  <2>3. \A f, g \in Log!Handlers : hand'[f] = hand'[g] /\ hand'[f] # 0 => f = g
    BY <1>2, <1>6, <2>2 DEF SentEvents
  <2> QED BY <1>1, <1>2, <1>5, <1>6, <2>1, <2>3 DEF SentEvents
<1>10. LogRules'
  <2>1. \A s \in Senders : hand'[s] # 0 => s \in flushing
    BY <1>1, <1>2, <1>3, <1>6 DEF LogRules, Log!Handles, Log!Handlers
  <2>2. processor = "ended" => h # "processor"
    BY <1>1 DEF Log!Handles
  <2>3. processor' = "ended" =>
          hand'["processor"] = 0 /\ stopping' \subseteq Log!ToSet(written') \cup HeldBySenders'
    BY <1>1, <1>2, <1>3, <1>6, <2>2 DEF LogRules
  <2> QED BY <1>1, <1>2, <1>6, <2>1, <2>3 DEF LogRules
<1>11. ASSUME Log!ToSet(sent') \cap Fatals = {} PROVE SentInOrder'
  <2>1. SentInOrder
    BY <1>1, <1>11 DEF LogInv
  <2>2. h = "processor"
    BY <1>1, <1>2, <1>3, <1>11 DEF LogRules, Log!Handles, Log!Handlers
  <2>3. InTheProcessor = 0 /\ InTheProcessor' = 1
    BY <1>1, <1>6, <2>2 DEF InTheProcessor
  <2>4. e = sent[Len(written) + 1]
    <3>1. channel[1] = sent[Len(written) + 0 + 1]
      BY <1>5, <2>1, <2>3 DEF SentInOrder
    <3> QED BY <3>1, <1>4, <1>5
  <2>5. ASSUME NEW i \in 1..Len(channel')
        PROVE  channel'[i] = sent[Len(written) + 1 + i]
    <3>1. i + 1 \in 1..Len(channel) /\ channel'[i] = channel[i + 1]
      BY <1>5
    <3>2. channel[i + 1] = sent[Len(written) + 0 + (i + 1)]
      BY <3>1, <2>1, <2>3 DEF SentInOrder
    <3>3. Len(written) + 0 + (i + 1) = Len(written) + 1 + i
      BY <1>4
    <3> QED BY <3>1, <3>2, <3>3
  <2>6. Len(sent) = Len(written) + 1 + Len(channel')
    BY <1>4, <1>5, <2>1, <2>3 DEF SentInOrder
  <2> QED BY <1>1, <1>6, <2>1, <2>2, <2>3, <2>4, <2>5, <2>6 DEF SentInOrder
<1> QED BY <1>7, <1>8, <1>9, <1>10, <1>11 DEF LogInv

LEMMA LogWrites ==
    ASSUME LogInv, ~exited, NEW h \in Log!Handlers, Log!Write(h)
    PROVE  LogInv'
<1> DEFINE e == hand[h]
<1>1. /\ e # 0 /\ written' = Append(written, e) /\ hand' = [hand EXCEPT ![h] = 0]
      /\ exited' = (e \in Fatals)
      /\ UNCHANGED <<calls, sender, sent, channel, flushing, processor, stuck, stopping>>
  BY DEF Log!Write
<1>2. LogTypes /\ NewEvents /\ SentEvents /\ LogRules
  BY DEF LogInv
<1>3. /\ MaxEvents \in Nat /\ "processor" \in Log!Handlers
      /\ "processor" \notin Senders
  BY HandlersAssumption DEF HandlersAssumption, Log!Handlers
<1>4. e \in Log!Events
  BY <1>1, <1>2, <1>3 DEF LogTypes, Log!Events
<1>5. Len(sent) \in Nat /\ Len(channel) \in Nat
  BY <1>2, LenProperties DEF LogTypes
<1>6. /\ hand' \in [Log!Handlers -> 0..MaxEvents] /\ hand'[h] = 0
      /\ \A g \in Log!Handlers \ {h} : hand'[g] = hand[g]
      /\ Held' = Held \ {e} /\ e \in Held
      /\ HeldBySenders \subseteq HeldBySenders' \cup {e}
  <2>1. \A g \in Log!Handlers : hand[g] = hand[h] => g = h
    BY <1>1, <1>2 DEF SentEvents
  <2> QED BY <1>1, <1>2, <2>1, LeftHand DEF LogTypes
<1>7. /\ written' \in Seq(Log!Events) /\ Len(written) \in Nat /\ Len(written') = Len(written) + 1
      /\ \A i \in 1..Len(written) : written'[i] = written[i]
      /\ written'[Len(written) + 1] = e
      /\ Log!ToSet(written') = Log!ToSet(written) \cup {e}
      /\ ~Repeats(written')
  <2>1. written \in Seq(Log!Events) /\ e \in Log!Events /\ written' = Append(written, e)
    BY <1>1, <1>2, <1>4 DEF LogTypes
  <2>2. e \notin Log!ToSet(written) /\ ~Repeats(written)
    BY <1>2, <1>6 DEF SentEvents
  <2> HIDE DEF e
  <2>3. /\ written' \in Seq(Log!Events) /\ Len(written) \in Nat /\ Len(written') = Len(written) + 1
        /\ \A i \in 1..Len(written) : written'[i] = written[i]
        /\ written'[Len(written) + 1] = e
    BY <2>1, Grown
  <2>4. Log!ToSet(written') = Log!ToSet(written) \cup {e}
    BY <2>1, GrownSet
  <2>5. ~Repeats(written')
    BY <2>1, <2>2, Grown
  <2> QED BY <2>3, <2>4, <2>5
<1>8. LogTypes'
  BY <1>1, <1>2, <1>6, <1>7 DEF LogTypes
<1>9. NewEvents'
  BY <1>1, <1>2 DEF NewEvents
<1>10. SentEvents'
  <2>1. \A f, g \in Log!Handlers : hand'[f] = hand'[g] /\ hand'[f] # 0 => f = g
    BY <1>2, <1>6 DEF SentEvents
  <2>2. e \notin Log!ToSet(channel)
    BY <1>2, <1>6 DEF SentEvents
  <2> QED BY <1>1, <1>2, <1>6, <1>7, <2>1, <2>2 DEF SentEvents
<1>11. LogRules'
  <2>1. \A s \in Senders : hand'[s] # 0 => s \in flushing
    BY <1>2, <1>3, <1>6 DEF LogRules, Log!Handlers
  <2>2. processor = "ended" =>
          hand'["processor"] = 0 /\ stopping \subseteq Log!ToSet(written') \cup HeldBySenders'
    BY <1>2, <1>3, <1>6, <1>7 DEF LogRules
  <2>3. exited' => e \in Fatals /\ e \in Log!ToSet(written')
    BY <1>1, <1>7
  <2> QED BY <1>1, <1>2, <2>1, <2>2, <2>3 DEF LogRules
<1>12. ASSUME Log!ToSet(sent') \cap Fatals = {} PROVE SentInOrder'
  <2>1. SentInOrder
    BY <1>1, <1>12 DEF LogInv
  <2>2. h = "processor"
    BY <1>1, <1>2, <1>3, <1>12 DEF LogRules, Log!Handlers
  <2>3. InTheProcessor = 1 /\ InTheProcessor' = 0
    BY <1>1, <1>6, <2>2 DEF InTheProcessor
  <2>4. e = sent[Len(written) + 1]
    BY <1>1, <2>1, <2>2 DEF SentInOrder
  <2>5. ASSUME NEW i \in 1..Len(written') PROVE written'[i] = sent[i]
    <3>1. CASE i = Len(written) + 1
      BY <1>7, <2>4, <3>1
    <3>2. CASE i \in 1..Len(written)
      BY <1>7, <2>1, <3>2 DEF SentInOrder
    <3> QED BY <1>7, <3>1, <3>2
  <2>6. ASSUME NEW i \in 1..Len(channel) PROVE channel[i] = sent[Len(written') + 0 + i]
    <3>1. channel[i] = sent[Len(written) + 1 + i]
      BY <2>1, <2>3 DEF SentInOrder
    <3>2. Len(written') + 0 + i = Len(written) + 1 + i
      BY <1>5, <1>7
    <3> QED BY <3>1, <3>2
  <2>7. Len(sent) = Len(written') + 0 + Len(channel)
    BY <1>5, <1>7, <2>1, <2>3 DEF SentInOrder
  <2> QED BY <1>1, <1>6, <2>2, <2>3, <2>5, <2>6, <2>7 DEF SentInOrder
<1> QED BY <1>8, <1>9, <1>10, <1>11, <1>12 DEF LogInv

(* The steps that leave the events where they are.                         *)
LEMMA LogRemains ==
    ASSUME LogInv, UNCHANGED <<sent, channel, hand, written>>
    PROVE  /\ SentEvents' /\ Held' = Held /\ HeldBySenders' = HeldBySenders
           /\ Log!ToSet(sent') \cap Fatals = {} => SentInOrder'
<1>1. Held' = Held /\ HeldBySenders' = HeldBySenders
  BY DEF Held, HeldBySenders, Log!InHand
<1>2. SentEvents'
  BY <1>1 DEF LogInv, SentEvents
<1>3. Log!ToSet(sent') \cap Fatals = {} => SentInOrder'
  BY DEF LogInv, SentInOrder, InTheProcessor
<1> QED BY <1>1, <1>2, <1>3

LEMMA LogCalls ==
    ASSUME LogInv, ~exited, NEW s \in Senders, Log!Log(s)
    PROVE  LogInv'
<1>1. /\ sender[s] = 0 /\ calls < MaxEvents /\ calls' = calls + 1
      /\ sender' = [sender EXCEPT ![s] = calls + 1]
      /\ UNCHANGED <<sent, channel, hand, flushing, processor, stuck, written, stopping, exited>>
  BY DEF Log!Log
<1>2. LogTypes /\ NewEvents /\ SentEvents /\ LogRules
  BY DEF LogInv
<1>3. MaxEvents \in Nat
  BY HandlersAssumption DEF HandlersAssumption
<1>4. /\ SentEvents' /\ Held' = Held /\ HeldBySenders' = HeldBySenders
      /\ Log!ToSet(sent') \cap Fatals = {} => SentInOrder'
  BY <1>1, LogRemains
<1>5. calls \in Nat /\ calls' \in 0..MaxEvents /\ calls' = calls + 1 /\ calls' > calls
  BY <1>1, <1>2, <1>3 DEF LogTypes
<1>6. /\ sender' \in [Senders -> 0..MaxEvents]
      /\ \A r \in Senders : sender'[r] = IF r = s THEN calls' ELSE sender[r]
  BY <1>1, <1>2, <1>5 DEF LogTypes
<1>7. LogTypes'
  BY <1>1, <1>2, <1>5, <1>6 DEF LogTypes
<1>8. NewEvents'
  <2>1. \A r \in Senders : sender[r] \in Nat
    BY <1>2, <1>3 DEF LogTypes
  <2>2. \A i \in 1..Len(sent) : sent[i] \in Log!Events
    BY <1>2, ElementOfSeq DEF LogTypes
  <2>3. \A x \in Log!ToSet(sent) : x \in Nat /\ x <= calls
    BY <1>2, <1>3, <2>2, LenProperties DEF LogTypes, NewEvents, Log!ToSet, Log!Events
  <2>4. calls' \notin Log!ToSet(sent)
    BY <1>5, <2>3
  <2>5. \A r \in Senders : sender'[r] <= calls' /\ sender'[r] \notin Log!ToSet(sent)
    BY <1>2, <1>5, <1>6, <2>1, <2>4 DEF NewEvents
  <2>6. ASSUME NEW r \in Senders, NEW q \in Senders, sender'[r] = sender'[q], sender'[r] # 0
        PROVE  r = q
    <3>1. sender[r] <= calls /\ sender[q] <= calls
      BY <1>2 DEF NewEvents
    <3> QED BY <1>2, <1>5, <1>6, <2>1, <2>6, <3>1 DEF NewEvents
  <2>7. \A x \in Log!ToSet(sent) : x <= calls'
    BY <1>5, <2>3
  <2> QED BY <1>1, <2>5, <2>6, <2>7 DEF NewEvents
<1>9. LogRules'
  BY <1>1, <1>2, <1>4 DEF LogRules
<1> QED BY <1>4, <1>7, <1>8, <1>9 DEF LogInv

LEMMA RulesRemain ==
    ASSUME LogInv, UNCHANGED <<sent, hand, written, flushing, exited>>,
           Held' = Held, HeldBySenders' = HeldBySenders,
           processor' = "ended" =>
             hand["processor"] = 0 /\ stopping' \subseteq Log!ToSet(written) \cup HeldBySenders,
           processor' # "loop" => stopping' # Log!NotYet
    PROVE  LogRules'
<1>1. LogRules
  BY DEF LogInv
<1>2. \A s \in Senders : hand'[s] # 0 => s \in flushing'
  BY <1>1 DEF LogRules
<1>3. flushing' # {} => Log!ToSet(sent') \cap Fatals # {}
  BY <1>1 DEF LogRules
<1>4. exited' => \E e \in Fatals : e \in Log!ToSet(written') \cup Held'
  BY <1>1 DEF LogRules
<1>5. processor' = "ended" =>
          hand'["processor"] = 0 /\ stopping' \subseteq Log!ToSet(written') \cup HeldBySenders'
  OBVIOUS
<1>6. processor' # "loop" => stopping' # Log!NotYet
  OBVIOUS
<1> QED BY <1>2, <1>3, <1>4, <1>5, <1>6 DEF LogRules

LEMMA LogEnds ==
    ASSUME LogInv, ~exited,
           \/ \E s \in Senders : Log!FlushedFatal(s)
           \/ Log!Rotate \/ Log!Stop \/ Log!SeeStop \/ Log!flushEvents
    PROVE  LogInv'
<1>1. UNCHANGED <<calls, sender, sent, channel, hand, flushing, written>>
  BY DEF Log!FlushedFatal, Log!Rotate, Log!Stop, Log!SeeStop, Log!flushEvents
<1>2. LogTypes /\ NewEvents /\ SentEvents /\ LogRules
  BY DEF LogInv
<1>3. /\ SentEvents' /\ Held' = Held /\ HeldBySenders' = HeldBySenders
      /\ Log!ToSet(sent') \cap Fatals = {} => SentInOrder'
  BY <1>1, LogRemains
<1>4. NewEvents'
  BY <1>1, <1>2 DEF NewEvents
<1>5. LogTypes'
  BY <1>1, <1>2 DEF LogTypes, Log!FlushedFatal, Log!Rotate, Log!Stop, Log!SeeStop, Log!flushEvents
<1>6. ASSUME NEW s \in Senders, Log!FlushedFatal(s) PROVE LogRules'
  <2>1. Log!ToSet(channel) = {}
    BY <1>6, EmptySeq DEF Log!FlushedFatal, Log!ToSet
  <2>2. \E e \in Fatals : e \in Log!ToSet(written) \cup Held
    BY <1>2, <1>6, <2>1 DEF LogRules, SentEvents, Log!FlushedFatal
  <2> QED BY <1>1, <1>2, <1>3, <1>6, <2>2 DEF LogRules, Log!FlushedFatal
<1>7. ASSUME Log!Rotate PROVE LogRules'
  <2>1. UNCHANGED <<processor, stopping, exited>>
    BY <1>7 DEF Log!Rotate
  <2> QED BY <1>1, <1>2, <1>3, <2>1, RulesRemain DEF LogRules
<1>8. ASSUME Log!Stop PROVE LogRules'
  <2>1. processor' = "loop" /\ UNCHANGED exited
    BY <1>2, <1>8 DEF LogTypes, LogRules, Log!Stop
  <2> QED BY <1>1, <1>3, <2>1, RulesRemain
<1>9. ASSUME Log!SeeStop PROVE LogRules'
  <2>1. processor' = "flush" /\ stopping # Log!NotYet /\ UNCHANGED <<stopping, exited>>
    BY <1>9 DEF Log!SeeStop
  <2> QED BY <1>1, <1>3, <2>1, RulesRemain
<1>10. ASSUME Log!flushEvents PROVE LogRules'
  <2>1. Log!ToSet(channel) = {}
    BY <1>10, EmptySeq DEF Log!flushEvents, Log!ToSet
  <2>2. stopping \subseteq Log!ToSet(written) \cup Held
    BY <1>2, <1>10, <2>1 DEF LogTypes, LogRules, SentEvents, Log!flushEvents
  <2>3. Held \subseteq HeldBySenders
    BY <1>10 DEF Held, HeldBySenders, Log!InHand, Log!Handlers, Log!flushEvents
  <2>4. /\ processor = "flush" /\ hand["processor"] = 0
        /\ UNCHANGED <<stopping, exited>>
    BY <1>10 DEF Log!flushEvents
  <2>5. stopping' \subseteq Log!ToSet(written) \cup HeldBySenders /\ stopping' # Log!NotYet
    BY <1>2, <2>2, <2>3, <2>4 DEF LogRules
  <2> QED BY <1>1, <1>3, <2>4, <2>5, RulesRemain
<1> QED BY <1>3, <1>4, <1>5, <1>6, <1>7, <1>8, <1>9, <1>10 DEF LogInv

LEMMA LogStep == LogInv /\ [Log!Next]_(Log!vars) => LogInv'
<1>1. ASSUME LogInv, Log!Next PROVE LogInv'
  BY <1>1, LogSends, LogReceives, LogWrites, LogCalls, LogEnds DEF Log!Next
<1>2. ASSUME LogInv, UNCHANGED Log!vars PROVE LogInv'
  <2>1. /\ UNCHANGED <<sent, channel, hand, written>>
        /\ UNCHANGED <<calls, sender, flushing, processor, stuck, stopping, exited>>
    BY <1>2 DEF Log!vars
  <2>2. /\ SentEvents' /\ Held' = Held /\ HeldBySenders' = HeldBySenders
        /\ Log!ToSet(sent') \cap Fatals = {} => SentInOrder'
    BY <1>2, <2>1, LogRemains
  <2>3. LogTypes' /\ NewEvents' /\ LogRules'
    BY <1>2, <2>1, <2>2 DEF LogInv, LogTypes, NewEvents, LogRules
  <2> QED BY <2>2, <2>3 DEF LogInv
<1> QED BY <1>1, <1>2

LEMMA LogShows == LogInv => Log!TypeOK /\ Log!StopFlushes
<1> SUFFICES ASSUME LogInv PROVE Log!TypeOK /\ Log!StopFlushes
  OBVIOUS
<1>1. LogTypes /\ NewEvents /\ SentEvents /\ LogRules
  BY DEF LogInv
<1>2. /\ Len(sent) \in Nat /\ DOMAIN sent = 1..Len(sent)
      /\ Len(channel) \in Nat /\ DOMAIN channel = 1..Len(channel)
      /\ Len(written) \in Nat /\ DOMAIN written = 1..Len(written)
  BY <1>1, LenProperties DEF LogTypes
<1>3. Log!TypeOK
  <2>1. /\ \A i \in 1..Len(sent) : sent[i] \in Log!Events
        /\ \A i \in 1..Len(channel) : channel[i] \in Log!Events
        /\ \A i \in 1..Len(written) : written[i] \in Log!Events
    BY <1>1, ElementOfSeq DEF LogTypes
  <2>2. Log!ToSet(channel) \cup Log!ToSet(sent) \cup Log!ToSet(written) \subseteq Log!Events
    BY <1>2, <2>1 DEF Log!ToSet
  <2> QED BY <1>1, <2>2 DEF LogTypes, Log!TypeOK
<1>4. Log!IsPrefix(written, sent) \/ Log!ToSet(sent) \cap Fatals # {}
  <2>1. SUFFICES ASSUME SentInOrder PROVE Log!IsPrefix(written, sent)
    BY DEF LogInv
  <2>2. Len(written) <= Len(sent)
    BY <1>2, <2>1 DEF SentInOrder, InTheProcessor
  <2>3. SubSeq(written, 1, Len(written)) = SubSeq(sent, 1, Len(written))
    BY <1>2, <2>1, <2>2 DEF SentInOrder
  <2> QED BY <2>2, <2>3 DEF Log!IsPrefix
<1>5. Len(written) = Log!Cardinality(Log!ToSet(written))
  <2>1. Log!Cardinality(Log!ToSet(written)) = Cardinality(Log!ToSet(written))
    BY DEF Log!Cardinality, Cardinality, Log!IsFiniteSet, IsFiniteSet
  <2>2. written \in Bijection(1..Len(written), Log!ToSet(written))
    BY <1>1, <1>2, LenProperties DEF LogTypes, SentEvents, Repeats, Log!ToSet,
           Bijection, Injection, Surjection, IsInjective
  <2> QED BY <1>2, <2>1, <2>2, FS_CountingElements DEF ExistsBijection
<1> QED BY <1>1, <1>3, <1>4, <1>5 DEF LogRules, Log!StopFlushes, Held, HeldBySenders

(* When the logger's Stop returns, what was sent before it is written or   *)
(* in the hands of the sender of a fatal event; without a fatal event the  *)
(* file has the events in the order they were sent; and no event is        *)
(* written twice, whatever the rotation of the file blocks.                *)
THEOREM LogIsFlushedHolds == SuiteSpec => []LogIsFlushed
<1>1. SuiteInit => LogInv
  BY LogInit DEF SuiteInit
<1>2. LogInv /\ [SuiteNext]_suiteVars => LogInv'
  <2> SUFFICES ASSUME LogInv, [SuiteNext]_suiteVars PROVE LogInv'
    OBVIOUS
  <2>1. [Log!Next]_(Log!vars)
    BY DEF SuiteNext, suiteVars, logVars, Log!vars
  <2> QED BY <2>1, LogStep
<1>3. LogInv => LogIsFlushed
  BY LogShows DEF LogIsFlushed
<1> QED BY <1>1, <1>2, <1>3, PTL DEF SuiteSpec
-----------------------------------------------------------------------------
(* The protocol processor.  A task is in the batch, in the queue, with a   *)
(* worker, in a goroutine of its own, or nowhere.                          *)
InBatch(t) == \E i \in 1..Len(batch) : batch[i] = t
InQueue(t) == \E i \in 1..Len(processorQueue) : processorQueue[i] = t
WithWorker(t) == \E w \in ProcessorWorkers : worker[w] = t
Placed(t) == InBatch(t) \/ InQueue(t) \/ WithWorker(t) \/ t \in direct
NoRepeats(s) == \A i, j \in 1..Len(s) : s[i] = s[j] => i = j

TasksTyped ==
    /\ processorStatus \in {"new", "running", "stopped", "panicked"}
    /\ stopOpen \in BOOLEAN /\ batching \in BOOLEAN /\ ticker \in BOOLEAN
    /\ changes \in 0..MaxChanges
    /\ processorCaller \in [ProcessorTasks -> {"idle", "entered", "waiting", "returned"}]
    /\ opening \in [ProcessorTasks -> Openings]
    /\ protocol \in [ProcessorTasks -> Protocols \cup {"unknown"}]
    /\ batch \in Seq(ProcessorTasks) /\ Len(batch) < BatchSize
    /\ processorQueue \in Seq(ProcessorTasks) /\ Len(processorQueue) <= ProcessorQueueSize
    /\ worker \in [ProcessorWorkers -> ProcessorTasks \cup Processor!NoWork]
    /\ direct \subseteq ProcessorTasks /\ answered \subseteq ProcessorTasks
    /\ handled \in [ProcessorTasks -> 0..1]
    /\ cache \in Seq(Processor!Entry)

TasksApart ==
    /\ NoRepeats(batch) /\ NoRepeats(processorQueue)
    /\ \A v, w \in ProcessorWorkers : worker[v] = worker[w] /\ worker[v] \in ProcessorTasks => v = w
    /\ \A t \in ProcessorTasks :
        /\ InBatch(t) => ~InQueue(t) /\ ~WithWorker(t) /\ t \notin direct
        /\ InQueue(t) => ~WithWorker(t) /\ t \notin direct
        /\ WithWorker(t) => t \notin direct

\* Where the caller is and what became of its task; a placed task has a handler.
TasksFollowed ==
    \A t \in ProcessorTasks :
        /\ Placed(t) => /\ handled[t] = 0 /\ protocol[t] \in Protocols
                        /\ processorCaller[t] \in {"waiting", "returned"}
        /\ processorCaller[t] \in {"idle", "entered"} => handled[t] = 0
        /\ processorCaller[t] = "entered" => protocol[t] \in Protocols
        /\ processorCaller[t] = "waiting" => Placed(t) \/ t \in answered

\* The keys of the cache, each once, are openings of connections handled.
Opened(k) == \E t \in ProcessorTasks : handled[t] = 1 /\ opening[t] = k
CacheKept ==
    /\ \A i, j \in 1..Len(cache) : cache[i].key = cache[j].key => i = j
    /\ \A i \in 1..Len(cache) : Opened(cache[i].key)
    /\ Len(cache) > CacheSize => Opened(NoData)

TasksInv == TasksTyped /\ TasksApart /\ TasksFollowed /\ CacheKept

LEMMA ProcessorInit == Processor!Init => TasksInv
<1> SUFFICES ASSUME Processor!Init PROVE TasksInv
  OBVIOUS
<1>1. /\ processorStatus = "new" /\ stopOpen = TRUE /\ batching \in BOOLEAN /\ ticker = FALSE /\ changes = 0
      /\ processorCaller = [t \in ProcessorTasks |-> "idle"]
      /\ opening = [t \in ProcessorTasks |-> NoData] /\ protocol = [t \in ProcessorTasks |-> "unknown"]
      /\ batch = <<>> /\ processorQueue = <<>>
      /\ worker = [w \in ProcessorWorkers |-> "off"] /\ direct = {}
      /\ answered = {} /\ handled = [t \in ProcessorTasks |-> 0] /\ cache = <<>>
  BY DEF Processor!Init
<1>2. /\ Len(batch) = 0 /\ Len(processorQueue) = 0 /\ Len(cache) = 0
      /\ batch \in Seq(ProcessorTasks) /\ processorQueue \in Seq(ProcessorTasks)
      /\ cache \in Seq(Processor!Entry)
  BY <1>1, EmptySeq
<1>3. \A w \in ProcessorWorkers : worker[w] \notin ProcessorTasks
  BY <1>1, ProcessorAssumption
<1>4. /\ Len(batch) < BatchSize /\ Len(processorQueue) <= ProcessorQueueSize /\ 0 \in 0..MaxChanges
      /\ ~(Len(cache) > CacheSize) /\ 1..0 = {}
  <2>1. 0 < BatchSize /\ 0 <= ProcessorQueueSize
    BY ProcessorAssumption
  <2>2. ~(0 > CacheSize)
    BY ProcessorAssumption
  <2>3. 0 \in 0..MaxChanges
    BY ProcessorAssumption
  <2> QED BY <1>2, <2>1, <2>2, <2>3
<1>5. TasksTyped
  <2>1. /\ changes \in 0..MaxChanges
        /\ processorCaller \in [ProcessorTasks -> {"idle", "entered", "waiting", "returned"}]
        /\ opening \in [ProcessorTasks -> Openings]
        /\ protocol \in [ProcessorTasks -> Protocols \cup {"unknown"}]
    BY <1>1, <1>4, ProcessorAssumption
  <2>2. /\ worker \in [ProcessorWorkers -> ProcessorTasks \cup Processor!NoWork]
        /\ handled \in [ProcessorTasks -> 0..1]
    BY <1>1 DEF Processor!NoWork
  <2>3. /\ processorStatus \in {"new", "running", "stopped", "panicked"}
        /\ stopOpen \in BOOLEAN /\ batching \in BOOLEAN /\ ticker \in BOOLEAN
        /\ direct \subseteq ProcessorTasks /\ answered \subseteq ProcessorTasks
    BY <1>1
  <2> QED BY <1>2, <1>4, <2>1, <2>2, <2>3 DEF TasksTyped
<1>6. \A t \in ProcessorTasks : ~Placed(t) /\ ~InBatch(t) /\ ~InQueue(t) /\ ~WithWorker(t)
  BY <1>1, <1>2, <1>3, <1>4 DEF Placed, InBatch, InQueue, WithWorker
<1>7. NoRepeats(batch) /\ NoRepeats(processorQueue)
  BY <1>2, <1>4 DEF NoRepeats
<1>8. TasksApart
  BY <1>3, <1>6, <1>7 DEF TasksApart
<1>9. TasksFollowed
  BY <1>1, <1>6 DEF TasksFollowed
<1>10. CacheKept
  BY <1>2, <1>4 DEF CacheKept
<1> QED BY <1>5, <1>8, <1>9, <1>10 DEF TasksInv

\* What the lengths are, and the elements.
LEMMA TasksInSequences ==
    TasksTyped => /\ Len(batch) \in Nat /\ Len(processorQueue) \in Nat /\ Len(cache) \in Nat
                  /\ \A i \in 1..Len(batch) : batch[i] \in ProcessorTasks
                  /\ \A i \in 1..Len(processorQueue) : processorQueue[i] \in ProcessorTasks
                  /\ \A i \in 1..Len(cache) : cache[i] \in Processor!Entry
<1> SUFFICES ASSUME TasksTyped
             PROVE  /\ Len(batch) \in Nat /\ Len(processorQueue) \in Nat /\ Len(cache) \in Nat
                    /\ \A i \in 1..Len(batch) : batch[i] \in ProcessorTasks
                    /\ \A i \in 1..Len(processorQueue) : processorQueue[i] \in ProcessorTasks
                    /\ \A i \in 1..Len(cache) : cache[i] \in Processor!Entry
  OBVIOUS
<1>1. batch \in Seq(ProcessorTasks) /\ processorQueue \in Seq(ProcessorTasks) /\ cache \in Seq(Processor!Entry)
  BY DEF TasksTyped
<1> QED BY <1>1, LenProperties, ElementOfSeq

\* Workers without a task may turn from one kind to another.
LEMMA PlacesRemain ==
    ASSUME TasksInv, UNCHANGED <<batch, processorQueue, direct>>,
           \A w \in ProcessorWorkers : \/ worker'[w] = worker[w]
                                       \/ worker[w] \in Processor!NoWork /\ worker'[w] \in Processor!NoWork
    PROVE  TasksApart' /\ \A t \in ProcessorTasks : Placed(t)' <=> Placed(t)
<1>1. \A v \in Processor!NoWork : v \notin ProcessorTasks
  BY ProcessorAssumption DEF Processor!NoWork
<1>2. \A t \in ProcessorTasks : WithWorker(t)' <=> WithWorker(t)
  BY <1>1 DEF WithWorker
<1>3. \A t \in ProcessorTasks : (InBatch(t)' <=> InBatch(t)) /\ (InQueue(t)' <=> InQueue(t))
  BY DEF InBatch, InQueue
<1>4. \A v, w \in ProcessorWorkers : (worker[v] = worker[w] /\ worker[v] \in ProcessorTasks => v = w)'
  BY <1>1 DEF TasksInv, TasksApart
<1>5. TasksApart'
  BY <1>2, <1>3, <1>4 DEF TasksInv, TasksApart, NoRepeats
<1> QED BY <1>2, <1>3, <1>5 DEF Placed

\* The cache is right as long as what has been handled and opened is.
LEMMA CacheRemains ==
    ASSUME CacheKept, cache' = cache,
           \A t \in ProcessorTasks : handled[t] = 1 => handled'[t] = 1 /\ opening'[t] = opening[t]
    PROVE  CacheKept'
<1>1. \A k : Opened(k) => Opened(k)'
  BY DEF Opened
<1> QED BY <1>1 DEF CacheKept
-----------------------------------------------------------------------------
LEMMA ProcessorRuns ==
    ASSUME TasksInv,
           \/ Processor!Start \/ Processor!Stop \/ Processor!UpdateConfig \/ Processor!BatchExits
           \/ \E w \in ProcessorWorkers : Processor!WorkerExits(w)
           \/ UNCHANGED Processor!vars
    PROVE  TasksInv'
<1> USE DEF Processor!Start, Processor!Stop, Processor!UpdateConfig, Processor!BatchExits, Processor!WorkerExits,
            Processor!vars, Processor!callVars, Processor!workVars, Processor!runVars
<1>1. UNCHANGED <<processorCaller, opening, protocol, batch, processorQueue, direct, answered, handled, cache>>
  OBVIOUS
<1>2. TasksTyped
  BY DEF TasksInv
<1>3. \A w \in ProcessorWorkers : \/ worker'[w] = worker[w]
                                  \/ worker[w] \in Processor!NoWork /\ worker'[w] \in Processor!NoWork
  BY <1>2 DEF TasksTyped, Processor!NoWork
<1>4. worker' \in [ProcessorWorkers -> ProcessorTasks \cup Processor!NoWork]
  BY <1>2 DEF TasksTyped, Processor!NoWork
<1>5. /\ processorStatus' \in {"new", "running", "stopped", "panicked"}
      /\ stopOpen' \in BOOLEAN /\ batching' \in BOOLEAN /\ ticker' \in BOOLEAN
  BY <1>2 DEF TasksTyped
<1>6. changes' \in 0..MaxChanges
  <2>1. changes \in 0..MaxChanges /\ MaxChanges \in Nat
    BY <1>2, ProcessorAssumption DEF TasksTyped
  <2>2. changes' = changes \/ (changes < MaxChanges /\ changes' = changes + 1)
    OBVIOUS
  <2> QED BY <2>1, <2>2
<1> USE DEF TasksInv
<1>7. TasksTyped'
  BY <1>1, <1>2, <1>4, <1>5, <1>6 DEF TasksTyped
<1>8. TasksApart' /\ \A t \in ProcessorTasks : Placed(t)' <=> Placed(t)
  BY <1>1, <1>3, PlacesRemain
<1>9. TasksFollowed'
  BY <1>1, <1>8 DEF TasksFollowed
<1>10. CacheKept'
  BY <1>1, CacheRemains
<1> QED BY <1>7, <1>8, <1>9, <1>10

LEMMA TaskEnters ==
    ASSUME TasksInv, NEW t \in ProcessorTasks, NEW k \in Openings, NEW p \in Protocols \cup {"unknown"},
           Processor!Enter(t, k, p)
    PROVE  TasksInv'
<1> DEFINE known == Processor!Cached(k) \cup (IF Processor!Cached(k) = {} THEN {p} ELSE {})
           proceeds == processorStatus = "running" /\ known # {"unknown"}
<1>1. PICK q \in known :
        /\ processorCaller[t] = "idle"
        /\ processorCaller' = [processorCaller EXCEPT ![t] = IF proceeds THEN "entered" ELSE "returned"]
        /\ protocol' = [protocol EXCEPT ![t] = q] /\ opening' = [opening EXCEPT ![t] = k]
        /\ UNCHANGED <<processorStatus, stopOpen, batching, ticker, changes, batch, processorQueue,
                       worker, direct, answered, handled, cache>>
  BY DEF Processor!Enter, Processor!runVars, Processor!workVars
<1>2. TasksTyped /\ TasksFollowed /\ CacheKept
  BY DEF TasksInv
<1>3. Processor!Cached(k) \subseteq Protocols
  BY <1>2, TasksInSequences DEF Processor!Cached, Processor!CacheIndex, Processor!Entry
<1>4. q \in Protocols \cup {"unknown"} /\ (proceeds => q \in Protocols)
  <2>1. CASE Processor!Cached(k) = {}
    BY <2>1
  <2>2. CASE Processor!Cached(k) # {}
    BY <2>2, <1>3
  <2> QED BY <2>1, <2>2
<1> HIDE DEF known, proceeds
<1>5. \E c \in {"entered", "returned"} :
        processorCaller' = [processorCaller EXCEPT ![t] = c] /\ (c = "entered" => q \in Protocols)
  BY <1>1, <1>4
<1>6. TasksTyped'
  BY <1>1, <1>2, <1>4, <1>5 DEF TasksTyped
<1>7. TasksApart' /\ \A u \in ProcessorTasks : Placed(u)' <=> Placed(u)
  BY <1>1, PlacesRemain
<1>8. ~Placed(t) /\ handled[t] = 0
  BY <1>1, <1>2 DEF TasksFollowed
<1>9. ASSUME NEW u \in ProcessorTasks
      PROVE  /\ Placed(u)' => /\ handled'[u] = 0 /\ protocol'[u] \in Protocols
                              /\ processorCaller'[u] \in {"waiting", "returned"}
             /\ processorCaller'[u] \in {"idle", "entered"} => handled'[u] = 0
             /\ processorCaller'[u] = "entered" => protocol'[u] \in Protocols
             /\ processorCaller'[u] = "waiting" => Placed(u)' \/ u \in answered'
  <2>1. CASE u = t
    BY <2>1, <1>1, <1>2, <1>5, <1>7, <1>8 DEF TasksTyped
  <2>2. CASE u # t
    <3>1. protocol'[u] = protocol[u] /\ processorCaller'[u] = processorCaller[u]
      BY <2>2, <1>1, <1>2, <1>5 DEF TasksTyped
    <3> QED BY <3>1, <1>1, <1>2, <1>7 DEF TasksFollowed
  <2> QED BY <2>1, <2>2
<1>10. TasksFollowed'
  BY <1>9 DEF TasksFollowed
<1>11. CacheKept'
  <2>1. \A u \in ProcessorTasks : handled[u] = 1 => handled'[u] = 1 /\ opening'[u] = opening[u]
    BY <1>1, <1>2, <1>8 DEF TasksTyped
  <2> QED BY <2>1, <1>1, <1>2, CacheRemains
<1> QED BY <1>6, <1>7, <1>10, <1>11 DEF TasksInv

LEMMA CallReturns ==
    ASSUME TasksInv, NEW t \in ProcessorTasks, Processor!Return(t)
    PROVE  TasksInv'
<1>1. /\ processorCaller[t] = "waiting"
      /\ processorCaller' = [processorCaller EXCEPT ![t] = "returned"] /\ answered' = answered \ {t}
      /\ UNCHANGED <<processorStatus, stopOpen, batching, ticker, changes, opening, protocol, batch,
                     processorQueue, worker, direct, handled, cache>>
  BY DEF Processor!Return, Processor!runVars
<1>2. TasksTyped /\ TasksFollowed /\ CacheKept
  BY DEF TasksInv
<1>3. TasksTyped'
  BY <1>1, <1>2 DEF TasksTyped
<1>4. TasksApart' /\ \A u \in ProcessorTasks : Placed(u)' <=> Placed(u)
  BY <1>1, PlacesRemain
<1>5. \A u \in ProcessorTasks : processorCaller'[u] = IF u = t THEN "returned" ELSE processorCaller[u]
  BY <1>1, <1>2 DEF TasksTyped
<1>6. TasksFollowed'
  BY <1>1, <1>2, <1>4, <1>5 DEF TasksFollowed
<1>7. CacheKept'
  BY <1>1, <1>2, CacheRemains
<1> QED BY <1>3, <1>4, <1>6, <1>7 DEF TasksInv
-----------------------------------------------------------------------------
\* Tasks that were in no other place go to the queue, or get goroutines.
LEMMA Dispatched ==
    ASSUME TasksInv, NEW ts \in Seq(ProcessorTasks), NoRepeats(ts),
           \A i \in 1..Len(ts) : ~InQueue(ts[i]) /\ ~WithWorker(ts[i]) /\ ts[i] \notin direct,
           Processor!Dispatch(ts), batch' = <<>>, worker' = worker
    PROVE  /\ TasksApart'
           /\ processorQueue' \in Seq(ProcessorTasks) /\ Len(processorQueue') <= ProcessorQueueSize
           /\ direct' \subseteq ProcessorTasks
           /\ \A t \in ProcessorTasks :
                Placed(t)' <=> InQueue(t) \/ WithWorker(t) \/ t \in direct \/ \E i \in 1..Len(ts) : ts[i] = t
<1> DEFINE n == Len(ts)
           m == Len(processorQueue)
<1>1. PICK fit \in 0..n :
        /\ fit <= ProcessorQueueSize - m
        /\ processorQueue' = processorQueue \o SubSeq(ts, 1, fit)
        /\ direct' = direct \cup {ts[i] : i \in (fit + 1)..n}
  <2> DEFINE f == IF Len(ts) <= ProcessorQueueSize - m THEN Len(ts) ELSE ProcessorQueueSize - m
  <2>1. n \in Nat /\ m \in Nat /\ m <= ProcessorQueueSize /\ ProcessorQueueSize \in Nat
    BY LenProperties, ProcessorAssumption DEF TasksInv, TasksTyped
  <2>2. f \in 0..n /\ f <= ProcessorQueueSize - m
    BY <2>1
  <2>3. /\ processorQueue' = processorQueue \o SubSeq(ts, 1, f)
        /\ direct' = direct \cup {ts[i] : i \in (f + 1)..n}
    BY DEF Processor!Dispatch, Processor!Fit
  <2> QED BY <2>2, <2>3
<1>2. n \in Nat /\ m \in Nat /\ ProcessorQueueSize \in Nat /\ fit \in Nat /\ fit <= n
  <2>1. n \in Nat
    BY LenProperties
  <2>2. m \in Nat
    BY LenProperties DEF TasksInv, TasksTyped
  <2>3. ProcessorQueueSize \in Nat
    BY ProcessorAssumption
  <2> QED BY <1>1, <2>1, <2>2, <2>3
<1>3. \A i \in 1..n : ts[i] \in ProcessorTasks
  BY ElementOfSeq
<1> DEFINE h == SubSeq(ts, 1, fit)
<1>4. h \in Seq(ProcessorTasks) /\ Len(h) = fit /\ \A i \in 1..fit : h[i] = ts[i]
  <2>1. \A i \in 1..fit : ts[i] \in ProcessorTasks
    BY <1>2, <1>3
  <2>2. /\ h \in Seq(ProcessorTasks) /\ Len(h) = (IF 1 <= fit THEN fit - 1 + 1 ELSE 0)
        /\ \A i \in 1..(fit - 1 + 1) : h[i] = ts[1 + i - 1]
    BY <1>2, <2>1, SubSeqProperties
  <2> HIDE DEF h
  <2> QED BY <1>2, <2>2
<1> HIDE DEF h
<1>5. /\ processorQueue' \in Seq(ProcessorTasks) /\ Len(processorQueue') = m + fit
      /\ \A i \in 1..(m + fit) : processorQueue'[i] = IF i <= m THEN processorQueue[i] ELSE ts[i - m]
  <2>1. processorQueue' = processorQueue \o h /\ processorQueue \in Seq(ProcessorTasks)
    BY <1>1 DEF h, TasksInv, TasksTyped
  <2>2. /\ processorQueue' \in Seq(ProcessorTasks) /\ Len(processorQueue') = m + fit
        /\ \A i \in 1..(m + fit) : processorQueue'[i] = IF i <= m THEN processorQueue[i] ELSE h[i - m]
    BY <2>1, <1>4, ConcatProperties
  <2>3. \A i \in 1..(m + fit) : ~(i <= m) => h[i - m] = ts[i - m]
    BY <1>2, <1>4
  <2> QED BY <2>2, <2>3
<1>6. Len(processorQueue') <= ProcessorQueueSize
  BY <1>1, <1>2, <1>5
<1>7. ASSUME NEW t \in ProcessorTasks
      PROVE  InQueue(t)' <=> InQueue(t) \/ \E i \in 1..fit : ts[i] = t
  <2>1. ASSUME NEW i \in 1..m PROVE i \in 1..(m + fit) /\ processorQueue'[i] = processorQueue[i]
    BY <1>2, <1>5
  <2>2. ASSUME NEW i \in 1..fit PROVE i + m \in 1..(m + fit) /\ processorQueue'[i + m] = ts[i]
    <3>1. i + m \in 1..(m + fit) /\ ~(i + m <= m) /\ (i + m) - m = i
      BY <1>2
    <3> QED BY <3>1, <1>5
  <2>3. ASSUME NEW i \in 1..(m + fit) PROVE \/ i \in 1..m /\ processorQueue'[i] = processorQueue[i]
                                            \/ i - m \in 1..fit /\ processorQueue'[i] = ts[i - m]
    BY <1>2, <1>5
  <2> QED BY <1>5, <2>1, <2>2, <2>3 DEF InQueue
<1>8. \A t \in ProcessorTasks : t \in direct' <=> t \in direct \/ \E i \in (fit + 1)..n : ts[i] = t
  BY <1>1
<1>9. \A t \in ProcessorTasks : ~InBatch(t)' /\ (WithWorker(t)' <=> WithWorker(t))
  <2>1. Len(batch') = 0
    BY EmptySeq
  <2> QED BY <2>1 DEF InBatch, WithWorker
<1>10. direct' \subseteq ProcessorTasks
  <2>1. direct \subseteq ProcessorTasks
    BY DEF TasksInv, TasksTyped
  <2>2. \A i \in (fit + 1)..n : ts[i] \in ProcessorTasks
    BY <1>2, <1>3
  <2> QED BY <1>1, <2>1, <2>2
<1>11. NoRepeats(processorQueue')
  <2> SUFFICES ASSUME NEW i \in 1..(m + fit), NEW j \in 1..(m + fit), processorQueue'[i] = processorQueue'[j]
               PROVE  i = j
    BY <1>5 DEF NoRepeats
  <2>1. ASSUME NEW k \in 1..(m + fit)
        PROVE  \/ k \in 1..m /\ processorQueue'[k] = processorQueue[k]
               \/ k - m \in 1..fit /\ k - m \in 1..n /\ processorQueue'[k] = ts[k - m]
    BY <1>2, <1>5
  <2>2. \A k \in 1..m, l \in 1..n : processorQueue[k] # ts[l]
    BY DEF InQueue
  <2>3. NoRepeats(processorQueue)
    BY DEF TasksInv, TasksApart
  <2>4. CASE i \in 1..m /\ processorQueue'[i] = processorQueue[i]
    BY <2>1, <2>2, <2>3, <2>4 DEF NoRepeats
  <2>5. CASE i - m \in 1..n /\ processorQueue'[i] = ts[i - m]
    <3>1. j - m \in 1..n /\ processorQueue'[j] = ts[j - m]
      BY <2>1, <2>2, <2>5
    <3>2. i - m = j - m
      BY <2>5, <3>1 DEF NoRepeats
    <3> QED BY <1>2, <3>2
  <2> QED BY <2>1, <2>4, <2>5
<1>12. ASSUME NEW t \in ProcessorTasks
       PROVE  /\ InQueue(t)' => ~WithWorker(t)' /\ t \notin direct'
              /\ WithWorker(t)' => t \notin direct'
  <2>1. InQueue(t) => ~WithWorker(t) /\ t \notin direct
    BY DEF TasksInv, TasksApart
  <2>2. WithWorker(t) => t \notin direct
    BY DEF TasksInv, TasksApart
  <2>3. \A i \in 1..fit, j \in (fit + 1)..n : i \in 1..n /\ j \in 1..n /\ i # j
    BY <1>2
  <2>4. \A i \in 1..fit, j \in (fit + 1)..n : ts[i] # ts[j]
    BY <2>3 DEF NoRepeats
  <2>5. \A i \in 1..fit : i \in 1..n
    BY <1>2
  <2>6. \A j \in (fit + 1)..n : j \in 1..n
    BY <1>2
  <2>7. InQueue(t)' => ~WithWorker(t)
    BY <1>7, <2>1, <2>5
  <2>8. InQueue(t)' => t \notin direct'
    BY <1>7, <1>8, <2>1, <2>4, <2>5, <2>6
  <2>9. WithWorker(t) => t \notin direct'
    BY <1>8, <2>2, <2>6
  <2> QED BY <1>9, <2>7, <2>8, <2>9
<1>13. TasksApart'
  <2>1. NoRepeats(batch)'
    BY EmptySeq DEF NoRepeats
  <2>2. \A v, w \in ProcessorWorkers : worker'[v] = worker'[w] /\ worker'[v] \in ProcessorTasks => v = w
    BY DEF TasksInv, TasksApart
  <2>3. NoRepeats(processorQueue)'
    BY <1>11 DEF NoRepeats
  <2> QED BY <1>9, <1>12, <2>1, <2>2, <2>3 DEF TasksApart
<1>14. ASSUME NEW t \in ProcessorTasks
       PROVE  Placed(t)' <=> InQueue(t) \/ WithWorker(t) \/ t \in direct \/ \E i \in 1..n : ts[i] = t
  <2>1. (\E i \in 1..n : ts[i] = t) <=> (\E i \in 1..fit : ts[i] = t) \/ \E i \in (fit + 1)..n : ts[i] = t
    BY <1>2
  <2> QED BY <1>7, <1>8, <1>9, <2>1 DEF Placed
<1> QED BY <1>5, <1>6, <1>10, <1>13, <1>14
-----------------------------------------------------------------------------
\* What holds of a task that was submitted, when no other changed places.
LEMMA FollowedAfter ==
    ASSUME TasksInv, NEW t \in ProcessorTasks, processorCaller[t] = "entered",
           processorCaller' = [processorCaller EXCEPT ![t] = "waiting"],
           UNCHANGED <<protocol, handled>>, answered \subseteq answered',
           \A u \in ProcessorTasks : u # t => (Placed(u)' <=> Placed(u)),
           Placed(t)' \/ t \in answered'
    PROVE  TasksFollowed'
<1>1. TasksFollowed /\ TasksTyped
  BY DEF TasksInv
<1>2. \A u \in ProcessorTasks : processorCaller'[u] = IF u = t THEN "waiting" ELSE processorCaller[u]
  BY <1>1 DEF TasksTyped
<1> SUFFICES ASSUME NEW u \in ProcessorTasks
             PROVE  /\ Placed(u)' => /\ handled'[u] = 0 /\ protocol'[u] \in Protocols
                                     /\ processorCaller'[u] \in {"waiting", "returned"}
                    /\ processorCaller'[u] \in {"idle", "entered"} => handled'[u] = 0
                    /\ processorCaller'[u] = "entered" => protocol'[u] \in Protocols
                    /\ processorCaller'[u] = "waiting" => Placed(u)' \/ u \in answered'
  BY DEF TasksFollowed
<1>3. CASE u = t
  <2>1. handled[t] = 0 /\ protocol[t] \in Protocols
    BY <1>1 DEF TasksFollowed
  <2> QED BY <2>1, <1>2, <1>3
<1>4. CASE u # t
  BY <1>1, <1>2, <1>4 DEF TasksFollowed
<1> QED BY <1>3, <1>4

LEMMA TaskAppended ==
    ASSUME NEW s \in Seq(ProcessorTasks), NEW t \in ProcessorTasks, NoRepeats(s), \A i \in 1..Len(s) : s[i] # t
    PROVE  LET r == Append(s, t)
           IN  /\ r \in Seq(ProcessorTasks) /\ Len(r) = Len(s) + 1 /\ Len(s) \in Nat /\ NoRepeats(r)
               /\ \A u : (\E i \in 1..Len(r) : r[i] = u) <=> u = t \/ \E i \in 1..Len(s) : s[i] = u
<1> DEFINE r == Append(s, t)
<1>1. /\ r \in Seq(ProcessorTasks) /\ Len(r) = Len(s) + 1
      /\ \A i \in 1..Len(s) : r[i] = s[i]
      /\ r[Len(s) + 1] = t
  BY AppendProperties
<1>2. Len(s) \in Nat
  BY LenProperties
<1> HIDE DEF r
<1>3. \A i \in 1..Len(r) : i \in 1..Len(s) \/ i = Len(s) + 1
  BY <1>1, <1>2
<1>4. Len(s) + 1 \in 1..Len(r) /\ \A i \in 1..Len(s) : i \in 1..Len(r)
  BY <1>1, <1>2
<1>5. NoRepeats(r)
  <2> SUFFICES ASSUME NEW i \in 1..Len(r), NEW j \in 1..Len(r), r[i] = r[j] PROVE i = j
    BY DEF NoRepeats
  <2>1. CASE i \in 1..Len(s) /\ j \in 1..Len(s)
    BY <1>1, <2>1 DEF NoRepeats
  <2>2. CASE i = Len(s) + 1
    BY <1>1, <1>3, <2>2
  <2>3. CASE j = Len(s) + 1
    BY <1>1, <1>3, <2>3
  <2> QED BY <1>3, <2>1, <2>2, <2>3
<1>6. \A u : (\E i \in 1..Len(r) : r[i] = u) <=> u = t \/ \E i \in 1..Len(s) : s[i] = u
  BY <1>1, <1>3, <1>4
<1> QED BY <1>1, <1>2, <1>5, <1>6 DEF r

\* A task in ProcessConnection is nowhere yet.
LEMMA NotYetPlaced ==
    ASSUME TasksInv, NEW t \in ProcessorTasks, processorCaller[t] = "entered"
    PROVE  ~Placed(t) /\ ~InBatch(t) /\ ~InQueue(t) /\ ~WithWorker(t) /\ t \notin direct
BY DEF TasksInv, TasksFollowed, Placed

LEMMA TaskBatched ==
    ASSUME TasksInv, NEW t \in ProcessorTasks, Processor!SubmitBatchTask(t)
    PROVE  TasksInv'
<1> DEFINE r == Append(batch, t)
<1>1. /\ processorCaller[t] = "entered" /\ processorCaller' = [processorCaller EXCEPT ![t] = "waiting"]
      /\ UNCHANGED <<processorStatus, stopOpen, batching, ticker, changes, opening, protocol,
                     worker, answered, handled, cache>>
  BY DEF Processor!SubmitBatchTask, Processor!runVars
<1>2. TasksTyped /\ TasksApart /\ CacheKept
  BY DEF TasksInv
<1>3. ~Placed(t) /\ ~InBatch(t) /\ ~InQueue(t) /\ ~WithWorker(t) /\ t \notin direct
  BY <1>1, NotYetPlaced
<1>4. batch \in Seq(ProcessorTasks) /\ NoRepeats(batch) /\ \A i \in 1..Len(batch) : batch[i] # t
  BY <1>2, <1>3 DEF TasksTyped, TasksApart, InBatch
<1>5. /\ r \in Seq(ProcessorTasks) /\ Len(r) = Len(batch) + 1 /\ Len(batch) \in Nat /\ NoRepeats(r)
      /\ \A u : (\E i \in 1..Len(r) : r[i] = u) <=> u = t \/ \E i \in 1..Len(batch) : batch[i] = u
  BY <1>4, TaskAppended
<1>6. IF Len(batch) + 1 >= BatchSize THEN batch' = <<>> /\ Processor!Dispatch(r)
      ELSE batch' = r /\ UNCHANGED <<processorQueue, direct>>
  BY DEF Processor!SubmitBatchTask
<1>7. BatchSize \in Nat \ {0}
  BY ProcessorAssumption
<1> HIDE DEF r
<1>8. /\ TasksApart' /\ batch' \in Seq(ProcessorTasks) /\ Len(batch') < BatchSize
      /\ processorQueue' \in Seq(ProcessorTasks) /\ Len(processorQueue') <= ProcessorQueueSize
      /\ direct' \subseteq ProcessorTasks
      /\ \A u \in ProcessorTasks : Placed(u)' <=> u = t \/ Placed(u)
  <2>1. CASE Len(batch) + 1 >= BatchSize
    <3>1. batch' = <<>> /\ Processor!Dispatch(r)
      BY <1>6, <2>1
    <3>2. Len(batch') = 0 /\ batch' \in Seq(ProcessorTasks)
      BY <3>1, EmptySeq
    <3>3. \A i \in 1..Len(r) : r[i] \in ProcessorTasks /\ (r[i] = t \/ InBatch(r[i]))
      BY <1>5, ElementOfSeq DEF InBatch
    <3>4. \A i \in 1..Len(r) : ~InQueue(r[i]) /\ ~WithWorker(r[i]) /\ r[i] \notin direct
      BY <1>2, <1>3, <3>3 DEF TasksApart
    <3>5. /\ TasksApart'
          /\ processorQueue' \in Seq(ProcessorTasks) /\ Len(processorQueue') <= ProcessorQueueSize
          /\ direct' \subseteq ProcessorTasks
          /\ \A u \in ProcessorTasks :
               Placed(u)' <=> InQueue(u) \/ WithWorker(u) \/ u \in direct \/ \E i \in 1..Len(r) : r[i] = u
      BY <1>1, <1>5, <3>1, <3>4, Dispatched
    <3>6. \A u \in ProcessorTasks : Placed(u)' <=> u = t \/ Placed(u)
      BY <1>5, <3>5 DEF Placed, InBatch
    <3>7. Len(batch') < BatchSize
      BY <1>7, <3>2
    <3> QED BY <3>2, <3>5, <3>6, <3>7
  <2>2. CASE ~(Len(batch) + 1 >= BatchSize)
    <3>1. batch' = r /\ UNCHANGED <<processorQueue, direct>>
      BY <1>6, <2>2
    <3>2. \A u \in ProcessorTasks : /\ InBatch(u)' <=> u = t \/ InBatch(u)
                                    /\ InQueue(u)' <=> InQueue(u)
                                    /\ WithWorker(u)' <=> WithWorker(u)
      BY <1>1, <1>5, <3>1 DEF InBatch, InQueue, WithWorker
    <3>3. Len(batch') < BatchSize
      BY <1>5, <1>7, <2>2, <3>1
    <3>4. NoRepeats(batch)' /\ NoRepeats(processorQueue)'
      BY <1>2, <1>5, <3>1 DEF TasksApart, NoRepeats
    <3>5. TasksApart'
      BY <1>1, <1>2, <1>3, <3>1, <3>2, <3>4 DEF TasksApart
    <3>6. \A u \in ProcessorTasks : Placed(u)' <=> u = t \/ Placed(u)
      BY <3>1, <3>2 DEF Placed
    <3> QED BY <1>2, <1>5, <3>1, <3>3, <3>5, <3>6 DEF TasksTyped
  <2> QED BY <2>1, <2>2
<1>9. TasksTyped'
  BY <1>1, <1>2, <1>8 DEF TasksTyped
<1>10. TasksFollowed'
  <2>1. Placed(t)' /\ \A u \in ProcessorTasks : u # t => (Placed(u)' <=> Placed(u))
    BY <1>8
  <2> QED BY <2>1, <1>1, FollowedAfter
<1>11. CacheKept'
  BY <1>1, <1>2, CacheRemains
<1> QED BY <1>8, <1>9, <1>10, <1>11 DEF TasksInv

LEMMA TaskQueued ==
    ASSUME TasksInv, NEW t \in ProcessorTasks, Processor!SubmitTask(t)
    PROVE  TasksInv'
<1> DEFINE r == Append(processorQueue, t)
<1>1. /\ processorCaller[t] = "entered" /\ processorCaller' = [processorCaller EXCEPT ![t] = "waiting"]
      /\ UNCHANGED <<processorStatus, stopOpen, batching, ticker, changes, opening, protocol,
                     batch, worker, direct, handled, cache>>
  BY DEF Processor!SubmitTask, Processor!runVars
<1>2. TasksTyped /\ TasksApart /\ CacheKept
  BY DEF TasksInv
<1>3. ~Placed(t) /\ ~InBatch(t) /\ ~InQueue(t) /\ ~WithWorker(t) /\ t \notin direct
  BY <1>1, NotYetPlaced
<1>4. CacheKept'
  BY <1>1, <1>2, CacheRemains
<1>5. CASE Len(processorQueue) < ProcessorQueueSize
  <2>1. processorQueue' = r /\ answered' = answered
    BY <1>5 DEF Processor!SubmitTask
  <2>2. /\ processorQueue \in Seq(ProcessorTasks) /\ NoRepeats(processorQueue)
        /\ \A i \in 1..Len(processorQueue) : processorQueue[i] # t
    BY <1>2, <1>3 DEF TasksTyped, TasksApart, InQueue
  <2>3. /\ r \in Seq(ProcessorTasks) /\ Len(r) = Len(processorQueue) + 1 /\ Len(processorQueue) \in Nat
        /\ NoRepeats(r)
        /\ \A u : (\E i \in 1..Len(r) : r[i] = u) <=> u = t \/ \E i \in 1..Len(processorQueue) : processorQueue[i] = u
    BY <2>2, TaskAppended
  <2> HIDE DEF r
  <2>4. Len(r) <= ProcessorQueueSize
    BY <1>5, <2>3, ProcessorAssumption
  <2>5. \A u \in ProcessorTasks : /\ InQueue(u)' <=> u = t \/ InQueue(u)
                                  /\ InBatch(u)' <=> InBatch(u)
                                  /\ WithWorker(u)' <=> WithWorker(u)
    BY <1>1, <2>1, <2>3 DEF InBatch, InQueue, WithWorker
  <2>6. NoRepeats(batch)' /\ NoRepeats(processorQueue)'
    BY <1>1, <1>2, <2>1, <2>3 DEF TasksApart, NoRepeats
  <2>7. TasksApart'
    BY <1>1, <1>2, <1>3, <2>5, <2>6 DEF TasksApart
  <2>8. \A u \in ProcessorTasks : Placed(u)' <=> u = t \/ Placed(u)
    BY <1>1, <2>5 DEF Placed
  <2>9. TasksTyped'
    BY <1>1, <1>2, <2>1, <2>3, <2>4 DEF TasksTyped
  <2>10. TasksFollowed'
    <3>1. Placed(t)' /\ \A u \in ProcessorTasks : u # t => (Placed(u)' <=> Placed(u))
      BY <2>8
    <3> QED BY <3>1, <1>1, <2>1, FollowedAfter
  <2> QED BY <1>4, <2>7, <2>9, <2>10 DEF TasksInv
<1>6. CASE ~(Len(processorQueue) < ProcessorQueueSize)
  <2>1. processorQueue' = processorQueue /\ answered' = answered \cup {t}
    BY <1>6 DEF Processor!SubmitTask
  <2>2. TasksApart' /\ \A u \in ProcessorTasks : Placed(u)' <=> Placed(u)
    BY <1>1, <2>1, PlacesRemain
  <2>3. TasksTyped'
    BY <1>1, <1>2, <2>1 DEF TasksTyped
  <2>4. TasksFollowed'
    BY <1>1, <2>1, <2>2, FollowedAfter
  <2> QED BY <1>4, <2>2, <2>3, <2>4 DEF TasksInv
<1> QED BY <1>5, <1>6

LEMMA BatchTicks ==
    ASSUME TasksInv, Processor!BatchTick
    PROVE  TasksInv'
<1>1. /\ batch' = <<>> /\ Processor!Dispatch(batch)
      /\ UNCHANGED <<processorStatus, stopOpen, batching, ticker, changes, processorCaller, opening, protocol,
                     worker, answered, handled, cache>>
  BY DEF Processor!BatchTick, Processor!runVars, Processor!callVars
<1>2. TasksTyped /\ TasksApart /\ TasksFollowed /\ CacheKept
  BY DEF TasksInv
<1>3. batch \in Seq(ProcessorTasks) /\ NoRepeats(batch)
  BY <1>2 DEF TasksTyped, TasksApart
<1>4. \A i \in 1..Len(batch) : ~InQueue(batch[i]) /\ ~WithWorker(batch[i]) /\ batch[i] \notin direct
  <2>1. \A i \in 1..Len(batch) : batch[i] \in ProcessorTasks /\ InBatch(batch[i])
    BY <1>3, ElementOfSeq DEF InBatch
  <2> QED BY <1>2, <2>1 DEF TasksApart
<1>5. /\ TasksApart'
      /\ processorQueue' \in Seq(ProcessorTasks) /\ Len(processorQueue') <= ProcessorQueueSize
      /\ direct' \subseteq ProcessorTasks
      /\ \A t \in ProcessorTasks :
           Placed(t)' <=> InQueue(t) \/ WithWorker(t) \/ t \in direct \/ \E i \in 1..Len(batch) : batch[i] = t
  BY <1>1, <1>3, <1>4, Dispatched
<1>6. \A t \in ProcessorTasks : Placed(t)' <=> Placed(t)
  BY <1>5 DEF Placed, InBatch
<1>7. batch' \in Seq(ProcessorTasks) /\ Len(batch') < BatchSize
  <2>1. batch' \in Seq(ProcessorTasks) /\ Len(batch') = 0
    BY <1>1, EmptySeq
  <2> QED BY <2>1, ProcessorAssumption
<1>8. TasksTyped'
  BY <1>1, <1>2, <1>5, <1>7 DEF TasksTyped
<1>9. TasksFollowed'
  BY <1>1, <1>2, <1>6 DEF TasksFollowed
<1>10. CacheKept'
  BY <1>1, <1>2, CacheRemains
<1> QED BY <1>5, <1>8, <1>9, <1>10 DEF TasksInv

LEMMA WorkerTakesTask ==
    ASSUME TasksInv, NEW w \in ProcessorWorkers, Processor!WorkerTakes(w)
    PROVE  TasksInv'
<1> DEFINE h == Head(processorQueue)
<1>1. /\ worker[w] = "free" /\ processorQueue # <<>>
      /\ worker' = [worker EXCEPT ![w] = h] /\ processorQueue' = Tail(processorQueue)
      /\ UNCHANGED <<processorStatus, stopOpen, batching, ticker, changes, processorCaller, opening, protocol,
                     batch, direct, answered, handled, cache>>
  BY DEF Processor!WorkerTakes, Processor!runVars, Processor!callVars
<1>2. TasksTyped /\ TasksApart /\ TasksFollowed /\ CacheKept
  BY DEF TasksInv
<1>3. processorQueue \in Seq(ProcessorTasks)
  BY <1>2 DEF TasksTyped
<1> DEFINE n == Len(processorQueue)
<1>4. /\ h \in ProcessorTasks /\ processorQueue' \in Seq(ProcessorTasks) /\ Len(processorQueue') = n - 1
      /\ \A i \in 1..(n - 1) : processorQueue'[i] = processorQueue[i + 1]
  BY <1>1, <1>3, HeadTailProperties
<1>5. n \in Nat \ {0} /\ h = processorQueue[1]
  BY <1>1, <1>3, EmptySeq
<1> HIDE DEF h, n
<1>6. NoRepeats(processorQueue) /\ Len(processorQueue) = n
  BY <1>2 DEF TasksApart, n
<1>7. NoRepeats(processorQueue)'
  <2> SUFFICES ASSUME NEW i \in 1..(n - 1), NEW j \in 1..(n - 1), processorQueue'[i] = processorQueue'[j]
               PROVE  i = j
    BY <1>4 DEF NoRepeats
  <2>1. i + 1 \in 1..n /\ j + 1 \in 1..n
    BY <1>5
  <2>2. i + 1 = j + 1
    BY <1>4, <1>6, <2>1 DEF NoRepeats
  <2> QED BY <1>5, <2>2
<1>8. \A t \in ProcessorTasks : InQueue(t)' <=> InQueue(t) /\ t # h
  <2> SUFFICES ASSUME NEW t \in ProcessorTasks PROVE InQueue(t)' <=> InQueue(t) /\ t # h
    OBVIOUS
  <2>1. ASSUME NEW i \in 1..(n - 1) PROVE i + 1 \in 1..n /\ i + 1 # 1 /\ processorQueue'[i] = processorQueue[i + 1]
    BY <1>4, <1>5
  <2>2. ASSUME NEW i \in 1..(n - 1) PROVE processorQueue'[i] # h
    <3>1. 1 \in 1..n
      BY <1>5
    <3> QED BY <1>5, <1>6, <2>1, <3>1 DEF NoRepeats
  <2>3. ASSUME NEW i \in 1..n, i # 1 PROVE i - 1 \in 1..(n - 1) /\ processorQueue'[i - 1] = processorQueue[i]
    <3>1. i - 1 \in 1..(n - 1) /\ (i - 1) + 1 = i
      BY <1>5, <2>3
    <3>2. processorQueue'[i - 1] = processorQueue[(i - 1) + 1]
      BY <1>4, <3>1
    <3> QED BY <3>1, <3>2
  <2>4. ASSUME InQueue(t)' PROVE InQueue(t) /\ t # h
    <3>1. PICK i \in 1..(n - 1) : processorQueue'[i] = t
      BY <1>4, <2>4 DEF InQueue
    <3>2. i + 1 \in 1..n /\ processorQueue[i + 1] = t
      BY <2>1, <3>1
    <3>3. InQueue(t)
      BY <1>6, <3>2 DEF InQueue
    <3> QED BY <2>2, <3>1, <3>3
  <2>5. ASSUME InQueue(t), t # h PROVE InQueue(t)'
    <3>1. PICK i \in 1..n : processorQueue[i] = t
      BY <1>6, <2>5 DEF InQueue
    <3>2. i - 1 \in 1..(n - 1) /\ processorQueue'[i - 1] = t
      BY <1>5, <2>3, <2>5, <3>1
    <3> QED BY <1>4, <3>2 DEF InQueue
  <2> QED BY <2>4, <2>5
<1>9. InQueue(h)
  <2>1. 1 \in 1..n
    BY <1>5
  <2> QED BY <1>5, <1>6, <2>1 DEF InQueue
<1>10. "free" \notin ProcessorTasks
  BY ProcessorAssumption
<1>11. \A v \in ProcessorWorkers : worker'[v] = IF v = w THEN h ELSE worker[v]
  BY <1>1, <1>2 DEF TasksTyped
<1>12. \A t \in ProcessorTasks : WithWorker(t)' <=> WithWorker(t) \/ t = h
  BY <1>1, <1>10, <1>11 DEF WithWorker
<1>13. \A t \in ProcessorTasks : InBatch(t)' <=> InBatch(t)
  BY <1>1 DEF InBatch
<1>14. ~WithWorker(h) /\ h \notin direct /\ ~InBatch(h)
  BY <1>2, <1>4, <1>9 DEF TasksApart
<1>15. \A u, v \in ProcessorWorkers : worker'[u] = worker'[v] /\ worker'[u] \in ProcessorTasks => u = v
  BY <1>2, <1>11, <1>14 DEF TasksApart, WithWorker
<1>16. NoRepeats(batch)'
  BY <1>1, <1>2 DEF TasksApart, NoRepeats
<1>17. \A t \in ProcessorTasks :
        /\ InBatch(t)' => ~InQueue(t)' /\ ~WithWorker(t)' /\ t \notin direct'
        /\ InQueue(t)' => ~WithWorker(t)' /\ t \notin direct'
        /\ WithWorker(t)' => t \notin direct'
  BY <1>1, <1>2, <1>8, <1>12, <1>13, <1>14 DEF TasksApart
<1>18. TasksApart'
  BY <1>7, <1>15, <1>16, <1>17 DEF TasksApart
<1>19. \A t \in ProcessorTasks : Placed(t)' <=> Placed(t)
  BY <1>1, <1>8, <1>9, <1>12, <1>13 DEF Placed
<1>20. TasksTyped'
  <2>1. Len(processorQueue') <= ProcessorQueueSize
    <3>1. n <= ProcessorQueueSize /\ ProcessorQueueSize \in Nat
      BY <1>2, <1>6, ProcessorAssumption DEF TasksTyped
    <3> QED BY <1>4, <1>5, <3>1
  <2>2. worker' \in [ProcessorWorkers -> ProcessorTasks \cup Processor!NoWork]
    BY <1>1, <1>2, <1>4 DEF TasksTyped
  <2> QED BY <1>1, <1>2, <1>4, <2>1, <2>2 DEF TasksTyped
<1>21. TasksFollowed'
  BY <1>1, <1>2, <1>19 DEF TasksFollowed
<1>22. CacheKept'
  BY <1>1, <1>2, CacheRemains
<1> QED BY <1>18, <1>20, <1>21, <1>22 DEF TasksInv
-----------------------------------------------------------------------------
\* The cache without the entry of a key.
KeysDiffer(c) == \A i, j \in 1..Len(c) : c[i].key = c[j].key => i = j

LEMMA EntryTaken ==
    ASSUME NEW c \in Seq(Processor!Entry), NEW k, KeysDiffer(c)
    PROVE  LET r == Processor!Others(k, c)
           IN  /\ r \in Seq(Processor!Entry) /\ Len(r) <= Len(c) /\ Len(r) \in Nat /\ KeysDiffer(r)
               /\ \A i \in 1..Len(r) : r[i].key # k /\ \E j \in 1..Len(c) : r[i] = c[j]
<1> DEFINE r == Processor!Others(k, c)
           n == Len(c)
<1>1. n \in Nat /\ \A i \in 1..n : c[i] \in Processor!Entry
  BY LenProperties, ElementOfSeq
<1>2. CASE \A i \in 1..n : c[i].key # k
  <2>1. r = c
    BY <1>2 DEF Processor!Others
  <2> HIDE DEF r
  <2> QED BY <1>1, <1>2, <2>1 DEF r
<1>3. CASE ~\A i \in 1..n : c[i].key # k
  <2> DEFINE p == Processor!Place(k, c)
             a == SubSeq(c, 1, p - 1)
             b == SubSeq(c, p + 1, n)
  <2>1. p \in 1..n /\ c[p].key = k
    BY <1>3 DEF Processor!Place
  <2>2. r = a \o b
    BY <1>3 DEF Processor!Others
  <2> HIDE DEF p, r
  <2>3. p \in Nat /\ 1 <= p /\ p <= n
    BY <1>1, <2>1
  <2>4. a \in Seq(Processor!Entry) /\ Len(a) = p - 1 /\ \A i \in 1..(p - 1) : a[i] = c[i]
    <3>1. \A i \in 1..(p - 1) : c[i] \in Processor!Entry
      BY <1>1, <2>3
    <3>2. /\ a \in Seq(Processor!Entry) /\ Len(a) = (IF 1 <= p - 1 THEN (p - 1) - 1 + 1 ELSE 0)
          /\ \A i \in 1..((p - 1) - 1 + 1) : a[i] = c[1 + i - 1]
      BY <2>3, <3>1, SubSeqProperties
    <3> HIDE DEF a
    <3> QED BY <2>3, <3>2
  <2>5. b \in Seq(Processor!Entry) /\ Len(b) = n - p /\ \A i \in 1..(n - p) : b[i] = c[p + i]
    <3>1. \A i \in (p + 1)..n : c[i] \in Processor!Entry
      BY <1>1, <2>3
    <3>2. /\ b \in Seq(Processor!Entry) /\ Len(b) = (IF p + 1 <= n THEN n - (p + 1) + 1 ELSE 0)
          /\ \A i \in 1..(n - (p + 1) + 1) : b[i] = c[(p + 1) + i - 1]
      BY <1>1, <2>3, <3>1, SubSeqProperties
    <3> HIDE DEF b
    <3> QED BY <1>1, <2>3, <3>2
  <2> HIDE DEF a, b
  <2>6. /\ r \in Seq(Processor!Entry) /\ Len(r) = Len(a) + Len(b)
        /\ \A i \in 1..(Len(a) + Len(b)) : r[i] = IF i <= Len(a) THEN a[i] ELSE b[i - Len(a)]
    BY <2>2, <2>4, <2>5, ConcatProperties
  <2> HIDE DEF n
  <2>7. Len(r) = n - 1
    BY <1>1, <2>3, <2>4, <2>5, <2>6
  <2>8. ASSUME NEW i \in 1..(n - 1)
        PROVE  \/ i < p /\ r[i] = c[i] /\ i \in 1..n
               \/ i >= p /\ r[i] = c[i + 1] /\ i + 1 \in 1..n
    <3>1. i \in 1..(Len(a) + Len(b))
      BY <1>1, <2>3, <2>4, <2>5
    <3>2. CASE i < p
      <4>1. i <= Len(a) /\ i \in 1..(p - 1) /\ i \in 1..n
        BY <1>1, <2>3, <2>4, <3>2
      <4> QED BY <2>4, <2>6, <3>1, <3>2, <4>1
    <3>3. CASE i >= p
      <4>1. ~(i <= Len(a)) /\ i - Len(a) = i - (p - 1) /\ i - (p - 1) \in 1..(n - p)
            /\ p + (i - (p - 1)) = i + 1 /\ i + 1 \in 1..n
        BY <1>1, <2>3, <2>4, <3>3
      <4>2. r[i] = b[i - (p - 1)]
        BY <2>6, <3>1, <4>1
      <4>3. b[i - (p - 1)] = c[p + (i - (p - 1))]
        BY <2>5, <4>1
      <4> QED BY <3>3, <4>1, <4>2, <4>3
    <3> QED BY <2>3, <3>2, <3>3
  <2>9. ASSUME NEW i \in 1..(n - 1), NEW j \in 1..(n - 1), r[i].key = r[j].key
        PROVE  i = j
    <3>1. PICK x \in 1..n : r[i] = c[x] /\ x = IF i < p THEN i ELSE i + 1
      BY <2>3, <2>8
    <3>2. PICK y \in 1..n : r[j] = c[y] /\ y = IF j < p THEN j ELSE j + 1
      BY <2>3, <2>8
    <3>3. x = y
      BY <2>9, <3>1, <3>2 DEF KeysDiffer, n
    <3> QED BY <2>3, <3>1, <3>2, <3>3
  <2>10. ASSUME NEW i \in 1..(n - 1)
         PROVE  r[i].key # k /\ \E j \in 1..n : r[i] = c[j]
    <3>1. PICK x \in 1..n : r[i] = c[x] /\ x # p
      BY <2>3, <2>8
    <3>2. c[x].key # k
      BY <2>1, <3>1 DEF KeysDiffer, n
    <3> QED BY <3>1, <3>2
  <2>11. Len(r) \in Nat /\ Len(r) <= n
    BY <1>1, <2>3, <2>7
  <2>12. KeysDiffer(r)
    BY <2>7, <2>9 DEF KeysDiffer
  <2> QED BY <2>6, <2>7, <2>10, <2>11, <2>12 DEF n, r
<1> QED BY <1>2, <1>3

\* A new entry; the cache outgrows its size only behind an entry without data.
LEMMA EntryCached ==
    ASSUME TasksInv, NEW t \in ProcessorTasks, protocol[t] \in Protocols, opening' = opening,
           handled' = [handled EXCEPT ![t] = 1],
           cache' = Processor!CachedAfter(opening[t], protocol[t])
    PROVE  cache' \in Seq(Processor!Entry) /\ CacheKept'
<1> DEFINE k == opening[t]
           e == [key |-> k, protocol |-> protocol[t], fresh |-> TRUE]
           full == Len(cache) >= CacheSize
           kept == IF full /\ cache[1].key # NoData THEN Tail(cache) ELSE cache
           rest == Processor!Others(k, kept)
<1>1. cache' = Append(rest, e)
  BY DEF Processor!CachedAfter
<1>2. TasksTyped /\ CacheKept
  BY DEF TasksInv
<1>3. e \in Processor!Entry
  BY <1>2 DEF TasksTyped, Processor!Entry
<1>4. CacheSize \in Nat /\ 1 <= CacheSize
  <2>1. CacheSize \in Nat \ {0}
    BY ProcessorAssumption
  <2> QED BY <2>1
<1>5. cache \in Seq(Processor!Entry) /\ Len(cache) \in Nat /\ KeysDiffer(cache)
  BY <1>2, TasksInSequences DEF TasksTyped, CacheKept, KeysDiffer
<1>6. /\ kept \in Seq(Processor!Entry) /\ KeysDiffer(kept)
      /\ \A i \in 1..Len(kept) : \E j \in 1..Len(cache) : kept[i] = cache[j]
      /\ Len(kept) = IF full /\ cache[1].key # NoData THEN Len(cache) - 1 ELSE Len(cache)
  <2>1. CASE full /\ cache[1].key # NoData
    <3>1. cache # <<>>
      BY <1>4, <1>5, <2>1, EmptySeq
    <3>2. kept = Tail(cache)
      BY <2>1
    <3>3. /\ kept \in Seq(Processor!Entry) /\ Len(kept) = Len(cache) - 1
          /\ \A i \in 1..Len(kept) : kept[i] = cache[i + 1]
      BY <1>5, <3>1, <3>2, HeadTailProperties
    <3> HIDE DEF kept
    <3>4. \A i \in 1..Len(kept) : i + 1 \in 1..Len(cache) /\ kept[i] = cache[i + 1]
      BY <1>5, <3>3
    <3>5. KeysDiffer(kept)
      <4> SUFFICES ASSUME NEW i \in 1..Len(kept), NEW j \in 1..Len(kept), kept[i].key = kept[j].key PROVE i = j
        BY DEF KeysDiffer
      <4>1. i + 1 = j + 1
        BY <1>5, <3>4 DEF KeysDiffer
      <4> QED BY <1>5, <3>3, <4>1
    <3> QED BY <2>1, <3>3, <3>4, <3>5
  <2>2. CASE ~(full /\ cache[1].key # NoData)
    <3>1. kept = cache
      BY <2>2
    <3> HIDE DEF kept
    <3> QED BY <1>5, <2>2, <3>1
  <2> QED BY <2>1, <2>2
<1> HIDE DEF kept, e, full
<1>7. /\ rest \in Seq(Processor!Entry) /\ Len(rest) <= Len(kept) /\ Len(rest) \in Nat /\ KeysDiffer(rest)
      /\ \A i \in 1..Len(rest) : rest[i].key # k /\ \E j \in 1..Len(kept) : rest[i] = kept[j]
  BY <1>6, EntryTaken
<1> HIDE DEF rest
<1>8. /\ cache' \in Seq(Processor!Entry) /\ Len(cache') = Len(rest) + 1
      /\ \A i \in 1..Len(rest) : cache'[i] = rest[i]
      /\ cache'[Len(rest) + 1] = e
  BY <1>1, <1>3, <1>7, AppendProperties
<1>9. \A i \in 1..Len(cache') : i \in 1..Len(rest) \/ i = Len(rest) + 1
  BY <1>7, <1>8
<1>10. e.key = k
  BY DEF e
<1>11. \A q : Opened(q) => Opened(q)'
  BY <1>2 DEF Opened, TasksTyped
<1>13. ASSUME NEW i \in 1..Len(cache') PROVE \E u \in ProcessorTasks : handled'[u] = 1 /\ opening'[u] = cache'[i].key
  <2>1. CASE i \in 1..Len(rest)
    <3>1. \E j \in 1..Len(cache) : cache'[i] = cache[j]
      BY <1>6, <1>7, <1>8, <2>1
    <3>2. PICK j \in 1..Len(cache) : cache'[i] = cache[j]
      BY <3>1
    <3>3. PICK u \in ProcessorTasks : handled[u] = 1 /\ opening[u] = cache[j].key
      BY <1>2 DEF CacheKept, Opened
    <3>4. handled'[u] = 1
      BY <1>2, <3>3 DEF TasksTyped
    <3> QED BY <3>2, <3>3, <3>4
  <2>2. CASE i = Len(rest) + 1
    <3>1. handled'[t] = 1 /\ opening'[t] = cache'[i].key
      BY <1>2, <1>8, <1>10, <2>2 DEF TasksTyped
    <3> QED BY <3>1
  <2> QED BY <1>9, <2>1, <2>2
<1>14. ASSUME NEW i \in 1..Len(cache'), NEW j \in 1..Len(cache'), cache'[i].key = cache'[j].key
       PROVE  i = j
  <2>1. CASE i \in 1..Len(rest) /\ j \in 1..Len(rest)
    BY <1>7, <1>8, <1>14, <2>1 DEF KeysDiffer
  <2>2. CASE i = Len(rest) + 1 /\ j \in 1..Len(rest)
    BY <1>7, <1>8, <1>10, <1>14, <2>2
  <2>3. CASE i \in 1..Len(rest) /\ j = Len(rest) + 1
    BY <1>7, <1>8, <1>10, <1>14, <2>3
  <2> QED BY <1>9, <2>1, <2>2, <2>3
<1>15. ASSUME Len(cache') > CacheSize PROVE Opened(NoData)'
  <2>1. CASE Len(cache) > CacheSize
    BY <1>2, <1>11, <2>1 DEF CacheKept
  <2>2. CASE ~(Len(cache) > CacheSize)
    <3>1. ~(full /\ cache[1].key # NoData)
      <4> SUFFICES ASSUME full /\ cache[1].key # NoData PROVE FALSE
        OBVIOUS
      <4>1. Len(kept) = Len(cache) - 1
        BY <1>6
      <4> QED BY <1>4, <1>5, <1>7, <1>8, <1>15, <2>2, <4>1
    <3>2. full
      <4> SUFFICES ASSUME ~full PROVE FALSE
        OBVIOUS
      <4>1. Len(kept) = Len(cache)
        BY <1>6
      <4>2. Len(cache) < CacheSize
        BY <1>4, <1>5 DEF full
      <4> QED BY <1>4, <1>5, <1>7, <1>8, <1>15, <4>1, <4>2
    <3>3. cache[1].key = NoData
      BY <3>1, <3>2
    <3>4. 1 \in 1..Len(cache)
      BY <1>4, <1>5, <3>2 DEF full
    <3>5. Opened(NoData)
      BY <1>2, <3>3, <3>4 DEF CacheKept
    <3> QED BY <1>11, <3>5
  <2> QED BY <2>1, <2>2
<1>16. CacheKept'
  BY <1>13, <1>14, <1>15 DEF CacheKept, Opened
<1> QED BY <1>8, <1>16

\* A placed task is handled, and is nowhere then.
LEMMA TaskProcessed ==
    ASSUME TasksInv, NEW t \in ProcessorTasks, Placed(t), Processor!ProcessTask(t),
           UNCHANGED <<processorCaller, opening, protocol>>,
           \A u \in ProcessorTasks : Placed(u)' <=> Placed(u) /\ u # t
    PROVE  /\ handled' \in [ProcessorTasks -> 0..1] /\ answered' \subseteq ProcessorTasks
           /\ cache' \in Seq(Processor!Entry)
           /\ TasksFollowed' /\ CacheKept'
<1>1. TasksTyped /\ TasksFollowed
  BY DEF TasksInv
<1>2. /\ handled[t] = 0 /\ protocol[t] \in Protocols
      /\ processorCaller[t] \in {"waiting", "returned"}
  BY <1>1 DEF TasksFollowed
<1>3. /\ handled' = [handled EXCEPT ![t] = 1]
      /\ cache' = Processor!CachedAfter(opening[t], protocol[t])
      /\ answered' = IF processorCaller[t] = "returned" THEN answered ELSE answered \cup {t}
  BY <1>2 DEF Processor!ProcessTask
<1>4. handled' \in [ProcessorTasks -> 0..1] /\ answered' \subseteq ProcessorTasks
  BY <1>1, <1>3 DEF TasksTyped
<1>5. cache' \in Seq(Processor!Entry) /\ CacheKept'
  BY <1>2, <1>3, EntryCached
<1>6. \A u \in ProcessorTasks : handled'[u] = IF u = t THEN 1 ELSE handled[u]
  BY <1>1, <1>3 DEF TasksTyped
<1>7. TasksFollowed'
  <2> SUFFICES ASSUME NEW u \in ProcessorTasks
               PROVE  /\ Placed(u)' => /\ handled'[u] = 0 /\ protocol[u] \in Protocols
                                       /\ processorCaller[u] \in {"waiting", "returned"}
                      /\ processorCaller[u] \in {"idle", "entered"} => handled'[u] = 0
                      /\ processorCaller[u] = "entered" => protocol[u] \in Protocols
                      /\ processorCaller[u] = "waiting" => Placed(u)' \/ u \in answered'
    BY DEF TasksFollowed
  <2>1. CASE u = t
    BY <1>2, <1>3, <1>6, <2>1
  <2>2. CASE u # t
    BY <1>1, <1>3, <1>6, <2>2 DEF TasksFollowed
  <2> QED BY <2>1, <2>2
<1> QED BY <1>4, <1>5, <1>7

LEMMA WorkerProcessesTask ==
    ASSUME TasksInv, NEW w \in ProcessorWorkers, Processor!WorkerProcesses(w)
    PROVE  TasksInv'
<1>1. PICK t \in ProcessorTasks : worker[w] = t
  BY DEF Processor!WorkerProcesses
<1>2. /\ Processor!ProcessTask(t) /\ worker' = [worker EXCEPT ![w] = "free"]
      /\ UNCHANGED <<processorStatus, stopOpen, batching, ticker, changes, processorCaller, opening, protocol,
                     batch, processorQueue, direct>>
  BY <1>1 DEF Processor!WorkerProcesses, Processor!runVars, Processor!callVars
<1>3. TasksTyped /\ TasksApart
  BY DEF TasksInv
<1>4. "free" \notin ProcessorTasks
  BY ProcessorAssumption
<1>5. \A v \in ProcessorWorkers : worker'[v] = IF v = w THEN "free" ELSE worker[v]
  BY <1>2, <1>3 DEF TasksTyped
<1>6. WithWorker(t) /\ Placed(t) /\ ~InBatch(t) /\ ~InQueue(t) /\ t \notin direct
  BY <1>1, <1>3 DEF WithWorker, Placed, TasksApart
<1>7. \A u \in ProcessorTasks : /\ WithWorker(u)' <=> WithWorker(u) /\ u # t
                                /\ InBatch(u)' <=> InBatch(u)
                                /\ InQueue(u)' <=> InQueue(u)
  <2>1. \A u \in ProcessorTasks : WithWorker(u)' <=> WithWorker(u) /\ u # t
    BY <1>1, <1>3, <1>4, <1>5 DEF WithWorker, TasksApart
  <2> QED BY <1>2, <2>1 DEF InBatch, InQueue
<1>8. TasksApart'
  <2>1. \A u, v \in ProcessorWorkers : worker'[u] = worker'[v] /\ worker'[u] \in ProcessorTasks => u = v
    BY <1>3, <1>4, <1>5 DEF TasksApart
  <2>2. NoRepeats(batch)' /\ NoRepeats(processorQueue)'
    BY <1>2, <1>3 DEF TasksApart, NoRepeats
  <2> QED BY <1>2, <1>3, <1>7, <2>1, <2>2 DEF TasksApart
<1>9. \A u \in ProcessorTasks : Placed(u)' <=> Placed(u) /\ u # t
  BY <1>2, <1>6, <1>7 DEF Placed
<1>10. /\ handled' \in [ProcessorTasks -> 0..1] /\ answered' \subseteq ProcessorTasks
       /\ cache' \in Seq(Processor!Entry)
       /\ TasksFollowed' /\ CacheKept'
  BY <1>2, <1>6, <1>9, TaskProcessed
<1>11. worker' \in [ProcessorWorkers -> ProcessorTasks \cup Processor!NoWork]
  BY <1>2, <1>3 DEF TasksTyped, Processor!NoWork
<1>12. TasksTyped'
  BY <1>2, <1>3, <1>10, <1>11 DEF TasksTyped
<1> QED BY <1>8, <1>10, <1>12 DEF TasksInv

LEMMA DirectProcessesTask ==
    ASSUME TasksInv, NEW t \in ProcessorTasks, Processor!DirectProcesses(t)
    PROVE  TasksInv'
<1>1. /\ t \in direct /\ direct' = direct \ {t} /\ Processor!ProcessTask(t)
      /\ UNCHANGED <<processorStatus, stopOpen, batching, ticker, changes, processorCaller, opening, protocol,
                     batch, processorQueue, worker>>
  BY DEF Processor!DirectProcesses, Processor!runVars, Processor!callVars
<1>2. TasksTyped /\ TasksApart
  BY DEF TasksInv
<1>3. Placed(t) /\ ~InBatch(t) /\ ~InQueue(t) /\ ~WithWorker(t)
  BY <1>1, <1>2 DEF Placed, TasksApart
<1>4. \A u \in ProcessorTasks : /\ WithWorker(u)' <=> WithWorker(u)
                                /\ InBatch(u)' <=> InBatch(u)
                                /\ InQueue(u)' <=> InQueue(u)
  BY <1>1 DEF InBatch, InQueue, WithWorker
<1>5. TasksApart'
  <2>1. NoRepeats(batch)' /\ NoRepeats(processorQueue)'
    BY <1>1, <1>2 DEF TasksApart, NoRepeats
  <2> QED BY <1>1, <1>2, <1>4, <2>1 DEF TasksApart
<1>6. \A u \in ProcessorTasks : Placed(u)' <=> Placed(u) /\ u # t
  BY <1>1, <1>3, <1>4 DEF Placed
<1>7. /\ handled' \in [ProcessorTasks -> 0..1] /\ answered' \subseteq ProcessorTasks
      /\ cache' \in Seq(Processor!Entry)
      /\ TasksFollowed' /\ CacheKept'
  BY <1>1, <1>3, <1>6, TaskProcessed
<1>8. TasksTyped'
  BY <1>1, <1>2, <1>7 DEF TasksTyped
<1> QED BY <1>5, <1>7, <1>8 DEF TasksInv

\* Entries that are marked, or dropped from the front.
LEMMA CacheAges ==
    ASSUME TasksInv, Processor!Age \/ Processor!CleanExpiredCache
    PROVE  TasksInv'
<1>1. UNCHANGED <<processorStatus, stopOpen, batching, ticker, changes, processorCaller, opening, protocol,
                  batch, processorQueue, worker, direct, answered, handled>>
  BY DEF Processor!Age, Processor!CleanExpiredCache, Processor!runVars, Processor!callVars
<1>2. TasksTyped /\ TasksFollowed /\ CacheKept
  BY DEF TasksInv
<1>3. TasksApart' /\ \A t \in ProcessorTasks : Placed(t)' <=> Placed(t)
  BY <1>1, PlacesRemain
<1>4. TasksFollowed'
  BY <1>1, <1>2, <1>3 DEF TasksFollowed
<1>5. /\ cache \in Seq(Processor!Entry) /\ Len(cache) \in Nat
      /\ \A i \in 1..Len(cache) : cache[i] \in Processor!Entry
  BY <1>2, TasksInSequences DEF TasksTyped
<1>6. PICK d \in 0..Len(cache) :
        /\ cache' \in Seq(Processor!Entry) /\ Len(cache') = Len(cache) - d
        /\ \A i \in 1..Len(cache') : cache'[i].key = cache[i + d].key
  <2>1. CASE Processor!Age
    <3>1. PICK i \in 1..Len(cache) :
            cache' = [cache EXCEPT ![i] = [key |-> cache[i].key, protocol |-> cache[i].protocol, fresh |-> FALSE]]
      BY <2>1 DEF Processor!Age
    <3> DEFINE e == [key |-> cache[i].key, protocol |-> cache[i].protocol, fresh |-> FALSE]
    <3>2. e \in Processor!Entry /\ e.key = cache[i].key
      BY <1>5 DEF Processor!Entry
    <3> HIDE DEF e
    <3>3. cache' = [cache EXCEPT ![i] = e]
      BY <3>1 DEF e
    <3>4. /\ cache' \in Seq(Processor!Entry) /\ Len(cache') = Len(cache)
          /\ \A j \in 1..Len(cache) : cache'[j] = IF j = i THEN e ELSE cache[j]
      BY <1>5, <3>2, <3>3, ExceptSeq
    <3>5. \A j \in 1..Len(cache') : cache'[j].key = cache[j + 0].key
      BY <1>5, <3>2, <3>4
    <3>6. 0 \in 0..Len(cache) /\ Len(cache') = Len(cache) - 0
      BY <1>5, <3>4
    <3> QED BY <3>4, <3>5, <3>6
  <2>2. CASE Processor!CleanExpiredCache
    <3>1. PICK n \in 1..Len(cache) : cache' = SubSeq(cache, n + 1, Len(cache))
      BY <2>2 DEF Processor!CleanExpiredCache
    <3>2. \A i \in (n + 1)..Len(cache) : cache[i] \in Processor!Entry
      BY <1>5
    <3>3. /\ cache' \in Seq(Processor!Entry)
          /\ Len(cache') = (IF n + 1 <= Len(cache) THEN Len(cache) - (n + 1) + 1 ELSE 0)
          /\ \A i \in 1..(Len(cache) - (n + 1) + 1) : cache'[i] = cache[(n + 1) + i - 1]
      BY <1>5, <3>1, <3>2, SubSeqProperties
    <3>4. Len(cache') = Len(cache) - n /\ n \in 0..Len(cache)
      BY <1>5, <3>3
    <3>5. \A i \in 1..Len(cache') : cache'[i].key = cache[i + n].key
      <4> SUFFICES ASSUME NEW i \in 1..Len(cache') PROVE cache'[i].key = cache[i + n].key
        OBVIOUS
      <4>1. i \in 1..(Len(cache) - (n + 1) + 1) /\ (n + 1) + i - 1 = i + n
        BY <1>5, <3>4
      <4> QED BY <3>3, <4>1
    <3> QED BY <3>3, <3>4, <3>5
  <2> QED BY <2>1, <2>2
<1>7. CacheKept'
  <2>1. \A i \in 1..Len(cache') : i + d \in 1..Len(cache)
    BY <1>5, <1>6
  <2>2. \A i, j \in 1..Len(cache') : cache'[i].key = cache'[j].key => i = j
    <3> SUFFICES ASSUME NEW i \in 1..Len(cache'), NEW j \in 1..Len(cache'), cache'[i].key = cache'[j].key
                 PROVE  i = j
      OBVIOUS
    <3>1. i + d = j + d
      BY <1>2, <1>6, <2>1 DEF CacheKept
    <3> QED BY <1>5, <1>6, <3>1
  <2>3. \A i \in 1..Len(cache') : \E t \in ProcessorTasks : handled'[t] = 1 /\ opening'[t] = cache'[i].key
    BY <1>1, <1>2, <1>6, <2>1 DEF CacheKept, Opened
  <2>4. Len(cache') > CacheSize => Opened(NoData)'
    <3>1. Len(cache') <= Len(cache) /\ CacheSize \in Nat
      BY <1>5, <1>6, ProcessorAssumption
    <3>2. Len(cache') > CacheSize => Len(cache) > CacheSize
      BY <1>5, <1>6, <3>1
    <3> QED BY <1>1, <1>2, <3>2 DEF CacheKept, Opened
  <2> QED BY <2>2, <2>3, <2>4 DEF CacheKept, Opened
<1>8. TasksTyped'
  BY <1>1, <1>2, <1>6 DEF TasksTyped
<1> QED BY <1>3, <1>4, <1>7, <1>8 DEF TasksInv

LEMMA ProcessorStep == TasksInv /\ [Processor!Next]_(Processor!vars) => TasksInv'
BY ProcessorRuns, TaskEnters, CallReturns, TaskBatched, TaskQueued, BatchTicks, WorkerTakesTask,
   WorkerProcessesTask, DirectProcessesTask, CacheAges
DEF Processor!Next
-----------------------------------------------------------------------------
\* A set in which any two are the same has one element or none.
LEMMA AtMostOne ==
    ASSUME NEW S, \A x, y \in S : x = y
    PROVE  IF S = {} THEN Cardinality(S) = 0 ELSE Cardinality(S) = 1
<1>1. CASE S = {}
  BY <1>1, FS_EmptySet
<1>2. CASE S # {}
  <2>1. PICK x \in S : S = {x}
    BY <1>2
  <2> QED BY <1>2, <2>1, FS_Singleton
<1> QED BY <1>1, <1>2

\* Distinct keys are no more than there are.
LEMMA CacheFits == TasksInv => Len(cache) <= Cardinality(Openings)
<1> SUFFICES ASSUME TasksInv PROVE Len(cache) <= Cardinality(Openings)
  OBVIOUS
<1> DEFINE n == Len(cache)
           f == [i \in 1..n |-> cache[i].key]
<1>1. n \in Nat /\ \A i \in 1..n : cache[i] \in Processor!Entry
  BY TasksInSequences DEF TasksInv
<1>2. f \in Injection(1..n, Openings)
  BY <1>1 DEF TasksInv, CacheKept, Injection, IsInjective, Processor!Entry
<1>3. IsFiniteSet(Openings)
  BY ProcessorAssumption
<1>4. Cardinality(1..n) <= Cardinality(Openings)
  BY <1>2, <1>3, FS_Injection
<1>5. Cardinality(1..n) = n
  <2>1. Cardinality(1..n) = IF 1 > n THEN 0 ELSE n - 1 + 1
    BY <1>1, FS_Interval
  <2> QED BY <1>1, <2>1
<1> QED BY <1>4, <1>5

LEMMA TasksShow == TasksInv => Processor!TypeOK /\ Processor!TasksAndCache
<1> SUFFICES ASSUME TasksInv PROVE Processor!TypeOK /\ Processor!TasksAndCache
  OBVIOUS
<1>1. TasksTyped /\ TasksApart /\ TasksFollowed /\ CacheKept
  BY DEF TasksInv
<1>2. \A S : Processor!Cardinality(S) = Cardinality(S)
  BY DEF Processor!Cardinality, Cardinality, Processor!IsFiniteSet, IsFiniteSet
<1>3. Processor!IsEntries(cache)
  <2>1. \A i \in 1..Len(cache) : cache[i] \in Processor!Entry
    BY <1>1, TasksInSequences
  <2> QED BY <1>2, <2>1, CacheFits DEF Processor!IsEntries
<1>4. handled \in [ProcessorTasks -> Nat]
  BY <1>1 DEF TasksTyped
<1>5. Processor!TypeOK
  BY <1>1, <1>3, <1>4 DEF TasksTyped, Processor!TypeOK
<1>6. Processor!CacheBounded
  BY <1>1 DEF CacheKept, Opened, Processor!CacheBounded
<1>7. ASSUME NEW t \in ProcessorTasks
      PROVE  /\ Processor!Places(t) = IF Placed(t) THEN 1 ELSE 0
             /\ handled[t] \in 0..1 /\ (Placed(t) => handled[t] = 0)
  <2> DEFINE A == {i \in 1..Len(batch) : batch[i] = t}
             B == {i \in 1..Len(processorQueue) : processorQueue[i] = t}
             C == {w \in ProcessorWorkers : worker[w] = t}
  <2>1. /\ \A x, y \in A : x = y
        /\ \A x, y \in B : x = y
        /\ \A x, y \in C : x = y
    BY <1>1 DEF TasksApart, NoRepeats
  <2>2. (A # {} <=> InBatch(t)) /\ (B # {} <=> InQueue(t)) /\ (C # {} <=> WithWorker(t))
    BY DEF InBatch, InQueue, WithWorker
  <2>3. Processor!Places(t) = Cardinality(A) + Cardinality(B) + Cardinality(C) + (IF t \in direct THEN 1 ELSE 0)
    BY <1>2 DEF Processor!Places
  <2> HIDE DEF A, B, C
  <2>4. Cardinality(A) = IF InBatch(t) THEN 1 ELSE 0
    BY <2>1, <2>2, AtMostOne
  <2>5. Cardinality(B) = IF InQueue(t) THEN 1 ELSE 0
    BY <2>1, <2>2, AtMostOne
  <2>6. Cardinality(C) = IF WithWorker(t) THEN 1 ELSE 0
    BY <2>1, <2>2, AtMostOne
  <2>7. /\ InBatch(t) => ~InQueue(t) /\ ~WithWorker(t) /\ t \notin direct
        /\ InQueue(t) => ~WithWorker(t) /\ t \notin direct
        /\ WithWorker(t) => t \notin direct
    BY <1>1 DEF TasksApart
  <2>8. handled[t] \in 0..1 /\ (Placed(t) => handled[t] = 0)
    BY <1>1 DEF TasksTyped, TasksFollowed
  <2>9. Processor!Places(t) = IF Placed(t) THEN 1 ELSE 0
    BY <2>3, <2>4, <2>5, <2>6, <2>7 DEF Placed
  <2> QED BY <2>8, <2>9
<1>8. Processor!HeldOnce
  <2> SUFFICES ASSUME NEW t \in ProcessorTasks
               PROVE  /\ Processor!Places(t) + handled[t] <= 1
                      /\ processorCaller[t] = "waiting" => Processor!Places(t) = 1 \/ t \in answered
    BY DEF Processor!HeldOnce
  <2>1. Processor!Places(t) + handled[t] <= 1
    BY <1>7
  <2>2. processorCaller[t] = "waiting" => Placed(t) \/ t \in answered
    BY <1>1 DEF TasksFollowed
  <2> QED BY <1>7, <2>1, <2>2
<1> QED BY <1>5, <1>6, <1>8 DEF Processor!TasksAndCache

(* A connection given to the protocol processor is in one place - batch,   *)
(* queue, worker or a goroutine of its own - or handled, and never twice;  *)
(* while its caller waits it is in a place or answered; the cache of       *)
(* protocols keeps its size until a connection without data was handled.   *)
(* For any tasks, workers and sizes, through stops, restarts and changes   *)
(* of the configuration.                                                   *)
THEOREM TasksHandledHolds == SuiteSpec => []TasksHandled
<1>1. SuiteInit => TasksInv
  BY ProcessorInit DEF SuiteInit
<1>2. TasksInv /\ [SuiteNext]_suiteVars => TasksInv'
  <2> SUFFICES ASSUME TasksInv, [SuiteNext]_suiteVars PROVE TasksInv'
    OBVIOUS
  <2>1. [Processor!Next]_(Processor!vars)
    BY DEF SuiteNext, suiteVars, processorVars, Processor!vars
  <2> QED BY <2>1, ProcessorStep
<1>3. TasksInv => TasksHandled
  BY TasksShow DEF TasksHandled
<1> QED BY <1>1, <1>2, <1>3, PTL DEF SuiteSpec
=============================================================================
