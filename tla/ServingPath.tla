----------------------------- MODULE ServingPath ----------------------------
(***************************************************************************)
(* The path of a connection through the server: the accept loop of         *)
(* core/listener takes it from the socket, wraps it in a BufferedConn,     *)
(* adds it to core/pool's ConnectionPool and submits its detection to the  *)
(* GoroutinePool; core/detector reads the first bytes, names the protocol, *)
(* and hands the connection to a handler or closes it.                     *)
(***************************************************************************)
EXTENDS Naturals, Sequences

CONSTANTS
    Conns,       \* the connections clients open, each once
    Workers,     \* workers of the goroutine pool
    QueueSize,   \* its queue
    Payloads,    \* what clients may send first, of "http", "other", "eof"
    HandlerSets, \* sets of protocol names that may have a handler when the server starts
    None,        \* the accept loop has no connection in hand
    Waiting, Exited

ASSUME PathAssumption ==
    /\ QueueSize \in Nat \ {0}
    /\ Waiting \notin Conns /\ Exited \notin Conns /\ Waiting # Exited
    /\ None \notin Conns
    /\ Payloads \subseteq {"http", "other", "eof"}

VARIABLES
    client,      \* each client: "away", "backlog", "open", or "reset" by the kernel
    sent,        \* first bytes a client sent: "nothing", "http", "other", or "eof"
    handlers,    \* keys of ProtocolDetector.handlers
    loop,        \* next step of acceptLoop
    hand,        \* the connection it has accepted
    listening,   \* the listening socket is open
    stop,        \* progress of Listener.Stop
    connections, \* keys of ConnectionPool.connections
    closed,      \* BufferedConn.closed
    netCloses,   \* calls of Close on the underlying net.Conn
    detect,      \* next step of DetectProtocol for each connection
    outcome,     \* how it ended
    queue, job, temps, finished, rejected, cancelled, shutdown  \* GoroutinePool

poolVars == <<queue, job, temps, finished, rejected, cancelled, shutdown>>
netVars  == <<client, sent, handlers>>
loopVars == <<loop, hand, listening, stop>>
connVars == <<connections, closed, netCloses>>
vars     == <<netVars, loopVars, connVars, detect, outcome, poolVars>>

Pool == INSTANCE GoroutinePool WITH Tasks <- Conns

TypeOK ==
    /\ client \in [Conns -> {"away", "backlog", "open", "reset"}]
    /\ sent \in [Conns -> {"nothing", "http", "other", "eof"}]
    /\ handlers \in HandlerSets
    /\ loop \in {"select", "accept", "add", "submit", "exited"}
    /\ hand \in Conns \cup {None}
    /\ listening \in BOOLEAN
    /\ stop \in {"not called", "cancelled", "closed", "returned"}
    /\ connections \subseteq Conns
    /\ closed \in [Conns -> BOOLEAN]
    /\ netCloses \in [Conns -> Nat]
    /\ detect \in [Conns -> {"start", "read", "lookup", "remove", "close", "return"}]
    /\ outcome \in [Conns -> {"none", "read error", "unsupported", "handled"}]
    /\ Pool!TypeOK

Init ==
    /\ client = [c \in Conns |-> "away"]
    /\ sent = [c \in Conns |-> "nothing"]
    /\ handlers \in HandlerSets
    /\ loop = "select" /\ hand = None
    /\ listening = TRUE /\ stop = "not called"
    /\ connections = {}
    /\ closed = [c \in Conns |-> FALSE]
    /\ netCloses = [c \in Conns |-> 0]
    /\ detect = [c \in Conns |-> "start"]
    /\ outcome = [c \in Conns |-> "none"]
    /\ Pool!Init
-----------------------------------------------------------------------------
(* Clients and the kernel.                                                 *)

Connect(c) ==
    /\ client[c] = "away" /\ listening
    /\ client' = [client EXCEPT ![c] = "backlog"]
    /\ UNCHANGED <<sent, handlers, loopVars, connVars, detect, outcome, poolVars>>

Send(c, bytes) ==
    /\ client[c] \in {"backlog", "open"} /\ sent[c] = "nothing"
    /\ sent' = [sent EXCEPT ![c] = bytes]
    /\ UNCHANGED <<client, handlers, loopVars, connVars, detect, outcome, poolVars>>
-----------------------------------------------------------------------------
(* acceptLoop.                                                             *)

LoopSelect ==
    /\ loop = "select"
    /\ loop' = IF stop # "not called" THEN "exited" ELSE "accept"
    /\ UNCHANGED <<netVars, hand, listening, stop, connVars, detect, outcome, poolVars>>

Accept(c) ==
    /\ loop = "accept" /\ listening /\ client[c] = "backlog"
    /\ client' = [client EXCEPT ![c] = "open"]
    /\ hand' = c
    /\ loop' = "add"
    /\ UNCHANGED <<sent, handlers, listening, stop, connVars, detect, outcome, poolVars>>

\* Mutant: any error ends the loop.
AcceptErrorExits ==
    /\ loop = "accept"
    /\ loop' = "exited"
    /\ UNCHANGED <<netVars, hand, listening, stop, connVars, detect, outcome, poolVars>>

\* Accept fails: always on a closed socket, now and then on an open one.
AcceptError ==
    /\ loop = "accept"
    /\ loop' = IF stop # "not called" THEN "exited" ELSE "select"
    /\ UNCHANGED <<netVars, hand, listening, stop, connVars, detect, outcome, poolVars>>

AddConnection ==
    /\ loop = "add"
    /\ connections' = connections \cup {hand}
    /\ loop' = "submit"
    /\ UNCHANGED <<netVars, hand, listening, stop, closed, netCloses, detect, outcome, poolVars>>

\* Mutant: a connection that finds the pool's queue full is dropped.
SubmitDetectionOrDrop ==
    /\ loop = "submit"
    /\ \/ Len(queue) = QueueSize /\ UNCHANGED poolVars
       \/ Pool!Submit(hand)
    /\ hand' = None
    /\ loop' = "select"
    /\ UNCHANGED <<netVars, listening, stop, connVars, detect, outcome>>

SubmitDetection ==
    /\ loop = "submit"
    /\ Pool!Submit(hand)
    /\ hand' = None
    /\ loop' = "select"
    /\ UNCHANGED <<netVars, listening, stop, connVars, detect, outcome>>
-----------------------------------------------------------------------------
(* Listener.Stop: cancel, close the socket, wait for the loop.             *)

StopCancel ==
    /\ stop = "not called"
    /\ stop' = "cancelled"
    /\ UNCHANGED <<netVars, loop, hand, listening, connVars, detect, outcome, poolVars>>

\* Mutant: the socket stays open.
StopCloseSkipped ==
    /\ stop = "cancelled"
    /\ stop' = "closed"
    /\ UNCHANGED <<netVars, loop, hand, listening, connVars, detect, outcome, poolVars>>

\* The kernel resets what is still in the backlog.
StopClose ==
    /\ stop = "cancelled"
    /\ stop' = "closed"
    /\ listening' = FALSE
    /\ client' = [c \in Conns |-> IF client[c] = "backlog" THEN "reset" ELSE client[c]]
    /\ UNCHANGED <<sent, handlers, loop, hand, connVars, detect, outcome, poolVars>>

StopReturn ==
    /\ stop = "closed" /\ loop = "exited"
    /\ stop' = "returned"
    /\ UNCHANGED <<netVars, loop, hand, listening, connVars, detect, outcome, poolVars>>
-----------------------------------------------------------------------------
(* DetectProtocol(c), run by a pool worker or a goroutine of its own.      *)

At(c, label) == detect[c] = label
Goto(c, label) == detect' = [detect EXCEPT ![c] = label]

\* Mutant: every Close reaches the net.Conn.
CloseConnAgain(c) ==
    /\ closed' = [closed EXCEPT ![c] = TRUE]
    /\ netCloses' = [netCloses EXCEPT ![c] = @ + 1]

\* Close of a BufferedConn reaches the net.Conn the first time only.
CloseConn(c) ==
    /\ closed' = [closed EXCEPT ![c] = TRUE]
    /\ netCloses' = [netCloses EXCEPT ![c] = IF closed[c] THEN @ ELSE @ + 1]

\* ConnectionPool.RemoveConnection closes and deletes a connection it knows.
RemoveConnection(c) ==
    /\ IF c \in connections THEN CloseConn(c) ELSE UNCHANGED <<closed, netCloses>>
    /\ connections' = connections \ {c}

\* Set the deadline, take a buffer.
DetectStart(c) ==
    /\ At(c, "start") /\ Goto(c, "read")
    /\ UNCHANGED <<netVars, loopVars, connVars, outcome, poolVars>>

\* The read ends at the first bytes, whatever they are.
ReadSome(c) ==
    /\ At(c, "read") /\ sent[c] \in {"http", "other"}
    /\ Goto(c, "lookup")
    /\ UNCHANGED <<netVars, loopVars, connVars, outcome, poolVars>>

\* Mutants: the failed connection is not removed; no read deadline.
ReadErrorKeeps(c) ==
    /\ At(c, "read") /\ sent[c] \in {"nothing", "eof"}
    /\ outcome' = [outcome EXCEPT ![c] = "read error"]
    /\ Goto(c, "return")
    /\ UNCHANGED <<netVars, loopVars, connVars, poolVars>>

ReadErrorUndated(c) ==
    /\ At(c, "read") /\ sent[c] = "eof"
    /\ RemoveConnection(c)
    /\ outcome' = [outcome EXCEPT ![c] = "read error"]
    /\ Goto(c, "return")
    /\ UNCHANGED <<netVars, loopVars, poolVars>>

\* End of stream, or the read deadline; RemoveConnection.
ReadError(c) ==
    /\ At(c, "read") /\ sent[c] \in {"nothing", "eof"}
    /\ RemoveConnection(c)
    /\ outcome' = [outcome EXCEPT ![c] = "read error"]
    /\ Goto(c, "return")
    /\ UNCHANGED <<netVars, loopVars, poolVars>>

(***************************************************************************)
(* The bytes the three detection layers look at.  bufferPool.Get has reset *)
(* the buffer, so buffer.Bytes() is empty, Read copies nothing into it and *)
(* SetWPos(0) leaves it empty.  No layer names a protocol from no bytes:   *)
(* the first needs four, and the map of the context-aware one is written   *)
(* only after a protocol was named.                                        *)
(***************************************************************************)
Window == 0
Seen(c) == IF Window = 0 THEN "nothing" ELSE sent[c]
Protocol(bytes) == IF bytes = "http" THEN "http" ELSE "unknown"

\* Mutant: the connection is removed when its handler takes over.
DispatchAndRemove(c) ==
    /\ At(c, "lookup") /\ Protocol(Seen(c)) \in handlers
    /\ RemoveConnection(c)
    /\ outcome' = [outcome EXCEPT ![c] = "handled"]
    /\ Goto(c, "return")
    /\ UNCHANGED <<netVars, loopVars, poolVars>>

Dispatch(c) ==
    /\ At(c, "lookup") /\ Protocol(Seen(c)) \in handlers
    /\ outcome' = [outcome EXCEPT ![c] = "handled"]
    /\ Goto(c, "return")   \* the HTTP handler leaves the connection open
    /\ UNCHANGED <<netVars, loopVars, connVars, poolVars>>

Unsupported(c) ==
    /\ At(c, "lookup") /\ Protocol(Seen(c)) \notin handlers
    /\ RemoveConnection(c)
    /\ outcome' = [outcome EXCEPT ![c] = "unsupported"]
    /\ Goto(c, "close")
    /\ UNCHANGED <<netVars, loopVars, poolVars>>

CloseAgain(c) ==
    /\ At(c, "close")
    /\ CloseConn(c)
    /\ Goto(c, "return")
    /\ UNCHANGED <<netVars, loopVars, connections, outcome, poolVars>>

DetectStep(c) ==
    /\ c \in Pool!Running
    /\ \/ DetectStart(c) \/ ReadSome(c) \/ ReadError(c)
       \/ Dispatch(c) \/ Unsupported(c) \/ CloseAgain(c)
-----------------------------------------------------------------------------
(* The goroutine pool goes on under all this; a task ends when             *)
(* DetectProtocol returns.                                                 *)
others == <<netVars, loopVars, connVars, detect, outcome>>

WorkerTakes(w) == Pool!Take(w) /\ UNCHANGED others

WorkerFinishes(w) ==
    /\ job[w] \in Conns /\ detect[job[w]] = "return"
    /\ Pool!Finish(w)
    /\ UNCHANGED others

TempFinishes(c) ==
    /\ detect[c] = "return" /\ Pool!FinishTemp(c)
    /\ UNCHANGED others

\* Nothing moves any more: the listener is stopped, all detections are over.
Done ==
    /\ stop = "returned" /\ Pool!Running = {} /\ queue = <<>>
    /\ \A c \in Conns : client[c] # "open" \/ c \in finished
    /\ UNCHANGED vars

LoopStep == LoopSelect \/ AcceptError \/ AddConnection \/ SubmitDetection
            \/ \E c \in Conns : Accept(c)

Next ==
    \/ \E c \in Conns : Connect(c) \/ \E b \in Payloads : Send(c, b)
    \/ LoopStep
    \/ StopCancel \/ StopClose \/ StopReturn
    \/ \E c \in Conns : DetectStep(c) \/ TempFinishes(c)
    \/ \E w \in Workers : WorkerTakes(w) \/ WorkerFinishes(w)
    \/ Done

Spec == Init /\ [][Next]_vars

(***************************************************************************)
(* Goroutines are scheduled and the read deadline expires (ReadError is    *)
(* fair although the client is silent).  Accept returns when a connection  *)
(* is there or the socket is closed; its transient errors owe nothing, and *)
(* strong fairness of Accept says that they do not go on for ever.         *)
(* Clients and the operator owe nothing, but a Stop that began goes on.    *)
(***************************************************************************)
FairSpec ==
    /\ Spec
    /\ WF_vars(LoopSelect \/ AddConnection \/ SubmitDetection \/ (AcceptError /\ ~listening))
    /\ WF_vars(StopClose \/ StopReturn)
    /\ SF_vars(\E c \in Conns : Accept(c))
    /\ \A c \in Conns : WF_vars(DetectStep(c) \/ TempFinishes(c))
    /\ \A w \in Workers : WF_vars(WorkerTakes(w) \/ WorkerFinishes(w))
-----------------------------------------------------------------------------
(* The net.Conn is closed at most once, although an unsupported connection *)
(* is closed by RemoveConnection and again by DetectProtocol, and a        *)
(* connection in the pool is an open one.                                  *)
ClosedOnce == \A c \in Conns : netCloses[c] <= 1 /\ (c \in connections => ~closed[c])

(* A detection that ended without a handler leaves nothing behind, neither *)
(* in the pool's map nor an open socket, however fast it was: it cannot    *)
(* overtake the accept loop's AddConnection.                               *)
NothingLeftBehind ==
    \A c \in Conns : outcome[c] \in {"read error", "unsupported"}
                     => c \notin connections /\ netCloses[c] = 1

(* From AddConnection to the end of its detection a connection is in the   *)
(* pool, in the queue or in a goroutine, or in the accept loop's hand: no  *)
(* accepted connection is forgotten.                                       *)
NoneForgotten ==
    \A c \in connections :
        \/ hand = c
        \/ c \in Pool!Queued \cup Pool!Running
        \/ outcome[c] = "handled"

(* A connection belongs to its handler from the dispatch on: nothing on    *)
(* the detection path closes it or takes it out of the pool any more.      *)
HandlerOwnsConnection ==
    \A c \in Conns : outcome[c] = "handled" => c \in connections /\ netCloses[c] = 0

(* From accept to hand-over or close a connection is in somebody's hands,  *)
(* and whoever has it last closes it, once.                                *)
ConnectionsAccounted ==
    ClosedOnce /\ NothingLeftBehind /\ NoneForgotten /\ HandlerOwnsConnection

(* Every accepted connection is closed in the end or reaches a handler,    *)
(* also if its client stays silent, and also if the listener stops         *)
(* meanwhile.                                                              *)
AcceptedIsReleased ==
    \A c \in Conns : (client[c] = "open") ~> (netCloses[c] = 1 \/ outcome[c] = "handled")

(* Silent clients that occupy all workers and fill the queue do not keep   *)
(* the accept loop from the next client.                                   *)
ClientsAreAccepted == \A c \in Conns : (client[c] = "backlog") ~> (client[c] # "backlog")

(* Listener.Stop returns.                                                  *)
StopReturns == (stop # "not called") ~> (stop = "returned")

(* Clients get in, what was let in is released, and Stop ends it.          *)
PathSettles == ClientsAreAccepted /\ AcceptedIsReleased /\ StopReturns

(* README.md:20 promises that the protocol of a connection is recognised   *)
(* automatically: a client that opens with an HTTP request is not turned   *)
(* away as unsupported while a handler for HTTP is registered.             *)
HttpIsRecognised ==
    \A c \in Conns : sent[c] = "http" /\ "http" \in handlers => outcome[c] # "unsupported"
=============================================================================
