---------------------------- MODULE ErrorManager ----------------------------
(***************************************************************************)
(* pkg/errors: Handle counts an error, logs it (a fatal one ends the       *)
(* process there, before any handler), tries to recover, hands it to the   *)
(* first handler that can take it, and reports it.  Handlers are kept by   *)
(* priority whenever they are registered.  The circuit breaker handler and *)
(* the metrics reporter are shared by all callers without a lock.          *)
(***************************************************************************)
EXTENDS Integers, Sequences, FiniteSets, FiniteSetsExt, SequencesExt

CONSTANTS
    Callers,        \* goroutines in Handle
    Threshold,      \* of the breaker; 5 in the code
    MaxErrors       \* bound: errors handled

VARIABLES
    handlers,       \* registered handlers, highest priority first
    total,          \* TotalErrors since the last ResetMetrics
    byCategory,     \* ErrorsByCategory
    call,           \* where each caller is in Handle, and with what
    errors,         \* history: errors handled
    failureCount, isOpen,   \* of the breaker
    failures,       \* history: calls of the breaker's Handle that have counted
    signalled,      \* whether the shutdown channel, of capacity 1, holds a signal
    exited          \* the process ended: a fatal error, or concurrent writes of a map

vars == <<handlers, total, byCategory, call, errors, failureCount, isOpen, failures, signalled, exited>>
metricVars  == <<total, byCategory, errors>>
breakerVars == <<failureCount, isOpen, failures>>

Priority == [graceful |-> 1000, breaker |-> 100, logging |-> 0]
Kinds == {"network", "system", "other", "shutdown", "fatal"}
Category(e) == IF e \in {"shutdown", "fatal"} THEN "system" ELSE e
CanHandle(h, e) ==
    CASE h = "graceful" -> e \in {"shutdown", "fatal"}
      [] h = "breaker"  -> Category(e) \in {"network", "system"}
      [] OTHER -> TRUE

Out == [at |-> "out"]
Stages == {"log", "recover", "pick", "graceful", "breaker", "open", "report", "reporting"}

TypeOK ==
    /\ ToSet(handlers) \subseteq DOMAIN Priority
    /\ {total, errors, failureCount, failures} \subseteq 0..MaxErrors
    /\ byCategory \in [{"network", "system", "other"} -> 0..MaxErrors]
    /\ \A c \in Callers : call[c] = Out \/ call[c].at \in Stages \cup {"count"}
    /\ isOpen \in BOOLEAN /\ signalled \in BOOLEAN /\ exited \in BOOLEAN

Init ==
    /\ handlers = <<>> /\ total = 0 /\ byCategory = [c \in {"network", "system", "other"} |-> 0]
    /\ call = [c \in Callers |-> Out] /\ errors = 0
    /\ failureCount = 0 /\ isOpen = FALSE /\ failures = 0
    /\ signalled = FALSE /\ exited = FALSE
-----------------------------------------------------------------------------
Lower(h) == {i \in 1..Len(handlers) : Priority[h] > Priority[handlers[i]]}

\* Mutant: before the first handler of a higher priority, not of a lower one.
RegisterHandlerAscending(h) ==
    /\ h \notin ToSet(handlers)
    /\ LET higher == {i \in 1..Len(handlers) : Priority[h] < Priority[handlers[i]]} IN
       handlers' = InsertAt(handlers, IF higher = {} THEN Len(handlers) + 1 ELSE Min(higher), h)
    /\ UNCHANGED <<metricVars, call, breakerVars, signalled, exited>>

\* Before the first handler of a lower priority, or last.
RegisterHandler(h) ==
    /\ h \notin ToSet(handlers)
    /\ handlers' = InsertAt(handlers, IF Lower(h) = {} THEN Len(handlers) + 1 ELSE Min(Lower(h)), h)
    /\ UNCHANGED <<metricVars, call, breakerVars, signalled, exited>>

Go(c, from, to) ==
    /\ call[c] # Out /\ call[c].at = from
    /\ call' = [call EXCEPT ![c] = IF to = "out" THEN Out ELSE [at |-> to, error |-> @.error]]

\* updateMetrics.
Handle(c, e) ==
    /\ call[c] = Out /\ errors < MaxErrors
    /\ call' = [call EXCEPT ![c] = [at |-> "log", error |-> e]]
    /\ total' = total + 1 /\ byCategory' = [byCategory EXCEPT ![Category(e)] = @ + 1]
    /\ errors' = errors + 1
    /\ UNCHANGED <<handlers, breakerVars, signalled, exited>>

logError(c) ==
    /\ Go(c, "log", "recover") /\ exited' = (call[c].error = "fatal")
    /\ UNCHANGED <<handlers, metricVars, breakerVars, signalled>>

\* Retrying waits and reports failure always, cleaning up has no functions: Handle goes on.
tryRecover(c) ==
    /\ Go(c, "recover", "pick")
    /\ UNCHANGED <<handlers, metricVars, breakerVars, signalled, exited>>

Able(e) == {i \in 1..Len(handlers) : CanHandle(handlers[i], e)}
Stage(h) == CASE h = "graceful" -> "graceful" [] h = "breaker" -> "breaker" [] OTHER -> "report"

\* The handlers are copied, and the first of them that can takes the error.
handleError(c) ==
    /\ call[c] # Out
    /\ Go(c, "pick", IF Able(call[c].error) = {} THEN "report" ELSE Stage(handlers[Min(Able(call[c].error))]))
    /\ UNCHANGED <<handlers, metricVars, breakerVars, signalled, exited>>

SignalShutdown(c) ==
    /\ Go(c, "graceful", "report") /\ signalled' = TRUE
    /\ UNCHANGED <<handlers, metricVars, breakerVars, exited>>

ReceiveSignal ==
    /\ signalled /\ signalled' = FALSE
    /\ UNCHANGED <<handlers, metricVars, call, breakerVars, exited>>

\* failureCount++ is a read and a write, and the count is read once more.
BreakerRead(c) ==
    /\ call[c] # Out /\ call[c].at = "breaker"
    /\ call' = [call EXCEPT ![c] = [at |-> "count", error |-> @.error, read |-> failureCount]]
    /\ UNCHANGED <<handlers, metricVars, breakerVars, signalled, exited>>

BreakerCount(c) ==
    /\ Go(c, "count", "open")
    /\ failureCount' = call[c].read + 1 /\ failures' = failures + 1
    /\ UNCHANGED <<handlers, metricVars, isOpen, signalled, exited>>

BreakerOpen(c) ==
    /\ Go(c, "open", "report") /\ isOpen' = (isOpen \/ failureCount >= Threshold)
    /\ UNCHANGED <<handlers, metricVars, failureCount, failures, signalled, exited>>

\* The reporter writes a map; the runtime may notice two at it, and end the process.
ReportBegins(c) ==
    /\ Go(c, "report", "reporting")
    /\ \/ UNCHANGED exited
       \/ (\E d \in Callers \ {c} : call[d] # Out /\ call[d].at = "reporting") /\ exited' = TRUE
    /\ UNCHANGED <<handlers, metricVars, breakerVars, signalled>>

ReportEnds(c) ==
    /\ Go(c, "reporting", "out")
    /\ UNCHANGED <<handlers, metricVars, breakerVars, signalled, exited>>

ResetMetrics ==
    /\ total' = 0 /\ byCategory' = [c \in DOMAIN byCategory |-> 0]
    /\ UNCHANGED <<handlers, errors, call, breakerVars, signalled, exited>>

Next ==
    /\ ~exited
    /\ \/ \E h \in DOMAIN Priority : RegisterHandler(h)
       \/ \E c \in Callers :
            \/ \E e \in Kinds : Handle(c, e)
            \/ logError(c) \/ tryRecover(c) \/ handleError(c) \/ SignalShutdown(c)
            \/ BreakerRead(c) \/ BreakerCount(c) \/ BreakerOpen(c)
            \/ ReportBegins(c) \/ ReportEnds(c)
       \/ ReceiveSignal \/ ResetMetrics
-----------------------------------------------------------------------------
Best(e) == {g \in ToSet(handlers) : CanHandle(g, e)
                /\ \A h \in ToSet(handlers) : CanHandle(h, e) => Priority[g] >= Priority[h]}

BestPicked(c) ==
    call[c] # Out /\ call[c].at = "pick" /\ call'[c] # call[c] /\ Best(call[c].error) # {}
    => \E g \in Best(call[c].error) : call'[c].at = Stage(g)

BreakerLags ==
    /\ failureCount <= failures
    /\ isOpen => failures >= Threshold
    /\ (\A c \in Callers : call[c] = Out \/ call[c].at # "open") /\ ~isOpen => failureCount < Threshold

(* In whatever order handlers are registered, and while errors are         *)
(* handled, an error goes to the registered handler of the highest         *)
(* priority among those that can take it.  Callers may overwrite each      *)
(* other's count of failures, so that the breaker opens late, but it does  *)
(* not open early, nor stay closed once the count has reached the          *)
(* threshold and no caller is about to test it.                            *)
HandledByFirst == []BreakerLags /\ [][\A c \in Callers : BestPicked(c)]_vars
=============================================================================
