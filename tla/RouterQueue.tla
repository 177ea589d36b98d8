----------------------------- MODULE RouterQueue ----------------------------
(***************************************************************************)
(* core/router/enhanced_router.go: callers of OptimizedRouter.RouteRequest *)
(* put requests on one channel and take results from another; the router's *)
(* workers sit in between.  A result does not say whose it is: every       *)
(* caller takes the oldest one.  A caller may give up at either channel    *)
(* after RequestTimeout; a result nobody waits for stays in the channel.   *)
(* How a worker chooses the node of a request is not the subject here: a   *)
(* result stands for the request it answers.                               *)
(***************************************************************************)
EXTENDS Naturals, Sequences, FiniteSets, Functions

CONSTANTS
    Callers,          \* goroutines calling RouteRequest, one call at a time
    Workers,          \* RouterWorker.run goroutines, config.MaxConcurrency of them
    MaxCalls,         \* bound: calls made by all callers together
    None              \* a worker with nothing in its hands

Requests == Callers \X (Nat \ {0})

ASSUME RouterAssumption ==
    /\ IsFiniteSet(Callers)
    /\ IsFiniteSet(Workers) /\ Workers # {}
    /\ MaxCalls \in Nat
    /\ None \notin Requests

\* NewOptimizedRouter makes both channels twice as long as MaxConcurrency.
Capacity == 2 * Cardinality(Workers)

VARIABLES
    requestQueue,   \* or.requestQueue
    resultQueue,    \* or.resultQueue: the requests whose results lie there
    calls,          \* how many calls each caller has begun
    at,             \* where each caller is in RouteRequest
    busy,           \* the request whose result each worker is about to send
    exited,         \* workers that have returned
    cancelled,      \* or.ctx is done
    abandoned,      \* how many callers gave up waiting for a result
    dropped,        \* how many results stopping workers threw away
    gone            \* requests whose result was taken or thrown away

vars == <<requestQueue, resultQueue, calls, at, busy, exited,
          cancelled, abandoned, dropped, gone>>

TypeOK ==
    /\ requestQueue \in Seq(Requests) /\ Len(requestQueue) <= Capacity
    /\ resultQueue \in Seq(Requests) /\ Len(resultQueue) <= Capacity
    /\ calls \in [Callers -> Nat]
    /\ at \in [Callers -> {"outside", "submit", "await"}]
    /\ busy \in [Workers -> Requests \cup {None}]
    /\ exited \subseteq Workers
    /\ cancelled \in BOOLEAN
    /\ abandoned \in Nat /\ dropped \in Nat
    /\ gone \subseteq Requests

Init ==
    /\ requestQueue = <<>> /\ resultQueue = <<>>
    /\ calls = [c \in Callers |-> 0]
    /\ at = [c \in Callers |-> "outside"]
    /\ busy = [w \in Workers |-> None]
    /\ exited = {}
    /\ cancelled = FALSE
    /\ abandoned = 0 /\ dropped = 0 /\ gone = {}

Current(c) == <<c, calls[c]>>
Goto(c, place) == at' = [at EXCEPT ![c] = place]
-----------------------------------------------------------------------------
Call(c) ==
    /\ at[c] = "outside" /\ SumFunction(calls) < MaxCalls
    /\ calls' = [calls EXCEPT ![c] = @ + 1]
    /\ Goto(c, "submit")
    /\ UNCHANGED <<requestQueue, resultQueue, busy, exited, cancelled,
                   abandoned, dropped, gone>>

Submit(c) ==
    /\ at[c] = "submit" /\ Len(requestQueue) < Capacity
    /\ requestQueue' = Append(requestQueue, Current(c))
    /\ Goto(c, "await")
    /\ UNCHANGED <<resultQueue, calls, busy, exited, cancelled,
                   abandoned, dropped, gone>>

\* Mutant: the request is queued although its caller gives up.
SubmitTimeoutQueued(c) ==
    /\ at[c] = "submit" /\ Len(requestQueue) < Capacity
    /\ requestQueue' = Append(requestQueue, Current(c))
    /\ Goto(c, "outside")
    /\ UNCHANGED <<resultQueue, calls, busy, exited, cancelled,
                   abandoned, dropped, gone>>

\* "request timeout"
SubmitTimeout(c) ==
    /\ at[c] = "submit"
    /\ Goto(c, "outside")
    /\ UNCHANGED <<requestQueue, resultQueue, calls, busy, exited,
                   cancelled, abandoned, dropped, gone>>

TakeResult(c) ==
    /\ at[c] = "await" /\ resultQueue # <<>>
    /\ gone' = gone \cup {Head(resultQueue)}
    /\ resultQueue' = Tail(resultQueue)
    /\ Goto(c, "outside")
    /\ UNCHANGED <<requestQueue, calls, busy, exited, cancelled, abandoned, dropped>>

\* "result timeout"
ResultTimeout(c) ==
    /\ at[c] = "await"
    /\ abandoned' = abandoned + 1
    /\ Goto(c, "outside")
    /\ UNCHANGED <<requestQueue, resultQueue, calls, busy, exited,
                   cancelled, dropped, gone>>
-----------------------------------------------------------------------------

\* Mutant: the request is left in the queue.
WorkerPeek(w) ==
    /\ w \notin exited /\ busy[w] = None /\ requestQueue # <<>>
    /\ busy' = [busy EXCEPT ![w] = Head(requestQueue)]
    /\ UNCHANGED <<requestQueue, resultQueue, calls, at, exited, cancelled,
                   abandoned, dropped, gone>>

\* Receive a request and process it.
WorkerReceive(w) ==
    /\ w \notin exited /\ busy[w] = None /\ requestQueue # <<>>
    /\ busy' = [busy EXCEPT ![w] = Head(requestQueue)]
    /\ requestQueue' = Tail(requestQueue)
    /\ UNCHANGED <<resultQueue, calls, at, exited, cancelled,
                   abandoned, dropped, gone>>

\* Mutant: a result channel without a capacity.
WorkerSendUnbounded(w) ==
    /\ busy[w] # None
    /\ resultQueue' = Append(resultQueue, busy[w])
    /\ busy' = [busy EXCEPT ![w] = None]
    /\ UNCHANGED <<requestQueue, calls, at, exited, cancelled,
                   abandoned, dropped, gone>>

WorkerSend(w) ==
    /\ busy[w] # None /\ Len(resultQueue) < Capacity
    /\ resultQueue' = Append(resultQueue, busy[w])
    /\ busy' = [busy EXCEPT ![w] = None]
    /\ UNCHANGED <<requestQueue, calls, at, exited, cancelled,
                   abandoned, dropped, gone>>

\* Mutant: the send of a result does not listen to the context.
WorkerExitIdle(w) ==
    /\ w \notin exited /\ cancelled /\ busy[w] = None
    /\ exited' = exited \cup {w}
    /\ UNCHANGED <<requestQueue, resultQueue, calls, at, busy, cancelled,
                   abandoned, dropped, gone>>

\* ctx.Done in either select; a result in hand is lost.
WorkerExit(w) ==
    /\ w \notin exited /\ cancelled
    /\ exited' = exited \cup {w}
    /\ dropped' = dropped + Cardinality({busy[w]} \ {None})
    /\ gone' = gone \cup ({busy[w]} \ {None})
    /\ busy' = [busy EXCEPT ![w] = None]
    /\ UNCHANGED <<requestQueue, resultQueue, calls, at, cancelled, abandoned>>

Stop ==
    /\ ~cancelled
    /\ cancelled' = TRUE
    /\ UNCHANGED <<requestQueue, resultQueue, calls, at, busy, exited,
                   abandoned, dropped, gone>>

\* The callers have made their calls and the router is stopped.
Done ==
    /\ exited = Workers
    /\ \A c \in Callers : at[c] = "outside"
    /\ SumFunction(calls) = MaxCalls
    /\ UNCHANGED vars

\* Mutant: no timeout on the result.
CallerStepPatient(c) == Submit(c) \/ SubmitTimeout(c) \/ TakeResult(c)

CallerStep(c) ==
    Submit(c) \/ SubmitTimeout(c) \/ TakeResult(c) \/ ResultTimeout(c)

WorkerStep(w) == WorkerReceive(w) \/ WorkerSend(w) \/ WorkerExit(w)

Next ==
    \/ \E c \in Callers : Call(c) \/ CallerStep(c)
    \/ \E w \in Workers : WorkerStep(w)
    \/ Stop \/ Done

Spec == Init /\ [][Next]_vars

\* Timers fire, and a worker that may see the cancelled context sees it in the
\* end; nobody has to call or to stop, and no worker has to process requests.
Fairness ==
    /\ \A c \in Callers : WF_vars(CallerStep(c))
    /\ \A w \in Workers : WF_vars(WorkerExit(w))

FairSpec == Spec /\ Fairness
-----------------------------------------------------------------------------
Elements(s) == {s[i] : i \in 1..Len(s)}
InWork == {busy[w] : w \in Workers} \ {None}

(* A request is in one place: queued, with one worker, answered in the     *)
(* result channel, or gone.  No request is processed twice and no         *)
(* result is delivered to two callers.                                     *)
ProcessedOnce ==
    /\ Cardinality(Elements(requestQueue)) = Len(requestQueue)
    /\ Cardinality(Elements(resultQueue)) = Len(resultQueue)
    /\ \A v, w \in Workers : busy[v] = busy[w] /\ busy[v] # None => v = w
    /\ Elements(requestQueue) \cap (InWork \cup Elements(resultQueue) \cup gone) = {}
    /\ InWork \cap (Elements(resultQueue) \cup gone) = {}
    /\ Elements(resultQueue) \cap gone = {}

Awaiting == {c \in Callers : at[c] = "await"}

(* Every result that is on its way belongs to a caller that still waits or *)
(* makes up for one that gave up: a caller that times out leaves one       *)
(* result too many in the channel, for good, and all later callers are one *)
(* result behind.  In numbers: results under way and lost = callers        *)
(* waiting + callers that gave up.                                         *)
BacklogIsAbandoned ==
    Len(requestQueue) + Cardinality(InWork) + Len(resultQueue) + dropped
        = Cardinality(Awaiting) + abandoned

(* Each request is somewhere once, and results and callers match in        *)
(* number, those of callers that gave up included.                         *)
RequestsAccounted == ProcessedOnce /\ BacklogIsAbandoned

(* A caller that waits for a result is not stuck behind a full channel:    *)
(* RouteRequest always returns, also when the router is stopped under it.  *)
CallsReturn == \A c \in Callers : (at[c] # "outside") ~> (at[c] = "outside")

(* Stop ends the workers even when the result channel is full of results   *)
(* nobody waits for.                                                       *)
StopEndsWorkers == cancelled ~> (exited = Workers)

(* The comment at enhanced_router.go:305 has the caller wait for "the      *)
(* result" of the request it just submitted.                               *)
OwnResult == [][\A c \in Callers : TakeResult(c) => Head(resultQueue) = Current(c)]_vars
=============================================================================
