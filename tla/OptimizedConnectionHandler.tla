--------------------- MODULE OptimizedConnectionHandler ---------------------
(***************************************************************************)
(* core/pool/connection_manager.go: an HTTP connection takes a slot of the *)
(* limiter and a response writer from the pool, goes through the           *)
(* middlewares and gives both back.                                        *)
(***************************************************************************)
EXTENDS Naturals, FiniteSets

CONSTANTS
    Connections, Writers,
    MaxConcurrentConns,
    MaxStarts   \* bound: calls of Start

VARIABLES
    stage,      \* what Handle does for each connection
    writer,     \* its response writer, or "none"
    idle,       \* writers in the response pool
    status,     \* of the writer: 0 until its header is sent
    current,    \* connLimiter.current
    open,       \* connections not closed
    active, total, successful, failed,   \* metrics
    running,    \* h.running
    starts,
    shutdown    \* the shutdown channel: "open", "closed", or closed again, a panic

vars == <<stage, writer, idle, status, current, open, active, total, successful, failed,
          running, starts, shutdown>>
metricVars == <<active, total, successful, failed>>
lifeVars   == <<running, starts, shutdown>>

TypeOK ==
    /\ stage \in [Connections ->
            {"new", "acquired", "active", "serving", "stuck", "served", "put", "releasing", "done"}]
    /\ writer \in [Connections -> Writers \cup {"none"}]
    /\ idle \subseteq Writers /\ status \in [Writers -> {0, 200, 404, 500}]
    /\ current \in 0..MaxConcurrentConns
    /\ open \subseteq Connections
    /\ active \in Nat /\ total \in Nat /\ successful \in Nat /\ failed \in Nat
    /\ running \in BOOLEAN /\ starts \in 0..MaxStarts
    /\ shutdown \in {"open", "closed", "panicked"}

Init ==
    /\ stage = [c \in Connections |-> "new"] /\ writer = [c \in Connections |-> "none"]
    /\ idle = {} /\ status = [w \in Writers |-> 0]
    /\ current = 0 /\ open = Connections
    /\ active = 0 /\ total = 0 /\ successful = 0 /\ failed = 0
    /\ running = FALSE /\ starts = 0 /\ shutdown = "open"
-----------------------------------------------------------------------------
\* Handle does not look at running; Stop after a second Start closes shutdown again.
Start ==
    /\ ~running /\ starts < MaxStarts
    /\ running' = TRUE /\ starts' = starts + 1
    /\ UNCHANGED <<stage, writer, idle, status, current, open, metricVars, shutdown>>

Stop ==
    /\ running /\ running' = FALSE
    /\ shutdown' = IF shutdown = "open" THEN "closed" ELSE "panicked"
    /\ UNCHANGED <<stage, writer, idle, status, current, open, metricVars, starts>>

Acquire(c) ==
    /\ stage[c] = "new"
    /\ IF current >= MaxConcurrentConns
       THEN /\ stage' = [stage EXCEPT ![c] = "done"] /\ open' = open \ {c} /\ UNCHANGED current
       ELSE /\ stage' = [stage EXCEPT ![c] = "acquired"] /\ current' = current + 1 /\ UNCHANGED open
    /\ UNCHANGED <<writer, idle, status, metricVars, lifeVars>>

BecomeActive(c) ==
    /\ stage[c] = "acquired" /\ stage' = [stage EXCEPT ![c] = "active"]
    /\ active' = active + 1
    /\ UNCHANGED <<writer, idle, status, current, open, total, successful, failed, lifeVars>>

\* handleError: the total is not incremented.
ParseFails(c) ==
    /\ stage[c] = "active" /\ stage' = [stage EXCEPT ![c] = "put"]
    /\ failed' = failed + 1 /\ open' = open \ {c}
    /\ UNCHANGED <<writer, idle, status, current, active, total, successful, lifeVars>>

\* getResponseWriter: one of the pool, or a new one, reset.
InUse == {writer[c] : c \in Connections}
GetResponseWriter(c) ==
    /\ stage[c] = "active" /\ stage' = [stage EXCEPT ![c] = "serving"]
    /\ \E w \in Writers \ InUse :
        /\ writer' = [writer EXCEPT ![c] = w]
        /\ idle' = idle \ {w} /\ status' = [status EXCEPT ![w] = 0]
    /\ UNCHANGED <<current, open, metricVars, lifeVars>>

Answer(c, code) ==
    /\ stage[c] = "serving" /\ stage' = [stage EXCEPT ![c] = "served"]
    /\ status' = [status EXCEPT ![writer[c]] = code]
    /\ UNCHANGED <<writer, idle, current, open, metricVars, lifeVars>>

\* RadixTree.Search finds nothing, see HTTPRouter: routeRequest answers 404.
RouteRequest(c) == Answer(c, 404)
\* CORSMiddleware answers OPTIONS.
AnswerOptions(c) == Answer(c, 200)
\* RecoveryMiddleware, when no compression is unwound on the way.
Recover(c) == Answer(c, 500)

\* A panic before the header, or a Write without one: Write, here of gzip's Close, holds
\* the mutex that WriteHeader takes.
WriteLocksTwice(c) ==
    /\ stage[c] = "serving" /\ stage' = [stage EXCEPT ![c] = "stuck"]
    /\ UNCHANGED <<writer, idle, status, current, open, metricVars, lifeVars>>

\* recordMetrics, shouldKeepAlive: one that is kept alive stays open, and no one reads it.
Record(c) ==
    /\ stage[c] = "served" /\ stage' = [stage EXCEPT ![c] = "put"]
    /\ total' = total + 1
    /\ IF status[writer[c]] = 200
       THEN successful' = successful + 1 /\ UNCHANGED failed
       ELSE failed' = failed + 1 /\ UNCHANGED successful
    /\ open' \in {open, open \ {c}}
    /\ UNCHANGED <<writer, idle, status, current, active, lifeVars>>

\* Mutant: the writer goes back to the pool while the connection keeps it.
PutResponseWriterEarly(c) ==
    /\ stage[c] = "put" /\ stage' = [stage EXCEPT ![c] = "releasing"]
    /\ idle' = idle \cup ({writer[c]} \ {"none"})
    /\ active' = active - 1
    /\ UNCHANGED <<writer, status, current, open, total, successful, failed, lifeVars>>

\* The deferred calls: putResponseWriter and the active connections, then Release.
PutResponseWriter(c) ==
    /\ stage[c] = "put" /\ stage' = [stage EXCEPT ![c] = "releasing"]
    /\ idle' = idle \cup ({writer[c]} \ {"none"})
    /\ writer' = [writer EXCEPT ![c] = "none"]
    /\ active' = active - 1
    /\ UNCHANGED <<status, current, open, total, successful, failed, lifeVars>>

Release(c) ==
    /\ stage[c] = "releasing" /\ stage' = [stage EXCEPT ![c] = "done"]
    /\ current' = current - 1
    /\ UNCHANGED <<writer, idle, status, open, metricVars, lifeVars>>

Next ==
    /\ shutdown # "panicked"
    /\ \/ Start \/ Stop
       \/ \E c \in Connections :
            \/ Acquire(c) \/ BecomeActive(c) \/ ParseFails(c) \/ GetResponseWriter(c)
            \/ RouteRequest(c) \/ AnswerOptions(c) \/ Recover(c) \/ WriteLocksTwice(c)
            \/ Record(c) \/ PutResponseWriter(c) \/ Release(c)
-----------------------------------------------------------------------------
Inside == {c \in Connections : stage[c] \notin {"new", "done"}}

(* The limiter counts the connections inside Handle, those stuck there for *)
(* ever included, and never more than it admits; no response writer serves *)
(* two connections or lies in the pool while one uses it; and every        *)
(* request recorded is a success or a failure, as is every parse error,    *)
(* which is no request: failures may outnumber requests.                   *)
SlotsAndWriters ==
    /\ current = Cardinality(Inside) /\ current <= MaxConcurrentConns
    /\ \A c \in Connections : writer[c] # "none" =>
        writer[c] \notin idle /\ \A d \in Connections \ {c} : writer[d] # writer[c]
    /\ \A c \in Connections : stage[c] = "stuck" => status[writer[c]] = 0
    /\ successful + failed >= total /\ successful <= total
=============================================================================
