---------------------------- MODULE TaskExecutor ----------------------------
(***************************************************************************)
(* What core/pool promises about a submitted task, whoever runs it: a task *)
(* is handed over once, is turned away or starts at most once, and         *)
(* finishes at most once.  There is no promise that an accepted task       *)
(* starts: see GoroutinePool for what shutdown does to the queued ones.    *)
(***************************************************************************)
CONSTANT Tasks       \* the closures given to Submit

VARIABLE phase       \* how far each task has come

Phases == {"new", "accepted", "running", "finished", "rejected"}

Init == phase = [t \in Tasks |-> "new"]

Move(t, from, to) ==
    /\ phase[t] \in from
    /\ phase' = [phase EXCEPT ![t] = to]

Accept(t) == Move(t, {"new"}, "accepted")
Reject(t) == Move(t, {"new"}, "rejected")
\* A task starts from the queue, or at once in a goroutine of its own.
Start(t)  == Move(t, {"new", "accepted"}, "running")
Finish(t) == Move(t, {"running"}, "finished")

Next == \E t \in Tasks : Accept(t) \/ Reject(t) \/ Start(t) \/ Finish(t)

Spec == Init /\ [][Next]_phase
=============================================================================
