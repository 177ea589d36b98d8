---------------------------- MODULE ControlPlane ----------------------------
(***************************************************************************)
(* core/control/control_plane.go: Start and Stop of the control plane over *)
(* what it starts and stops, the listener, the router and its own monitor. *)
(* A call holds cp.mu from beginning to end, so calls do not overlap; the  *)
(* goroutines they start go on meanwhile.  The contexts of listener and    *)
(* router are made once, by their constructors; the plane's own is made    *)
(* anew by every Start.                                                    *)
(***************************************************************************)
EXTENDS Naturals

CONSTANT MaxStarts   \* bound: calls of Start

VARIABLES
    state,          \* cp.state; "new" is the empty string it is at first
    call,           \* the step of the call that holds cp.mu, or "none"
    starts,         \* calls of Start so far
    monitorDone,    \* cp.ctx is done
    monitors,       \* monitorLoop goroutines
    listenerDone,   \* the listener's context is done
    socket,         \* its socket: "none", "open", "closed"
    acceptLoops,    \* acceptLoop goroutines
    routerDone,     \* the router's context is done
    routerWorkers   \* sets of workers that router.Start has started, alive

vars == <<state, call, starts, monitorDone, monitors, listenerDone, socket,
          acceptLoops, routerDone, routerWorkers>>
planeVars    == <<state, call, starts>>
monitorVars  == <<monitorDone, monitors>>
listenerVars == <<listenerDone, socket, acceptLoops>>
routerVars   == <<routerDone, routerWorkers>>

TypeOK ==
    /\ state \in {"new", "starting", "running", "stopping", "stopped"}
    /\ call \in {"none", "listen", "monitor", "close", "wait", "router", "join"}
    /\ starts \in 0..MaxStarts
    /\ monitorDone \in BOOLEAN /\ monitors \in 0..MaxStarts
    /\ listenerDone \in BOOLEAN /\ acceptLoops \in 0..MaxStarts
    /\ socket \in {"none", "open", "closed"}
    /\ routerDone \in BOOLEAN /\ routerWorkers \in 0..MaxStarts

Init ==
    /\ state = "new" /\ call = "none" /\ starts = 0
    /\ monitorDone = FALSE /\ monitors = 0
    /\ listenerDone = FALSE /\ socket = "none" /\ acceptLoops = 0
    /\ routerDone = FALSE /\ routerWorkers = 0

At(from, to) == call = from /\ call' = to
-----------------------------------------------------------------------------
\* Mutant: a running plane may be started again.
StartAgain ==
    /\ At("none", "listen") /\ starts < MaxStarts
    /\ starts' = starts + 1
    /\ state' = "starting" /\ monitorDone' = FALSE
    /\ routerWorkers' = routerWorkers + 1
    /\ UNCHANGED <<monitors, listenerVars, routerDone>>

\* A new context, then the router; router.Start does not fail.
Start ==
    /\ At("none", "listen") /\ state # "running" /\ starts < MaxStarts
    /\ starts' = starts + 1
    /\ state' = "starting" /\ monitorDone' = FALSE
    /\ routerWorkers' = routerWorkers + 1
    /\ UNCHANGED <<monitors, listenerVars, routerDone>>

\* The address is in use: Start returns and leaves the rest as it is.
ListenFails ==
    /\ At("listen", "none")
    /\ UNCHANGED <<state, starts, monitorVars, listenerVars, routerVars>>

Listen ==
    /\ At("listen", "monitor")
    /\ socket' = "open" /\ acceptLoops' = acceptLoops + 1
    /\ UNCHANGED <<state, starts, monitorVars, listenerDone, routerVars>>

StartMonitor ==
    /\ At("monitor", "none")
    /\ monitors' = monitors + 1
    /\ state' = "running"
    /\ UNCHANGED <<starts, monitorDone, listenerVars, routerVars>>
-----------------------------------------------------------------------------
Stop ==
    /\ At("none", "close") /\ state = "running"
    /\ state' = "stopping"
    /\ monitorDone' = TRUE
    /\ UNCHANGED <<starts, monitors, listenerVars, routerVars>>

\* Mutant: the socket is closed, the context is not cancelled.
CloseListenerUncancelled ==
    /\ At("close", "wait")
    /\ socket' = "closed"
    /\ UNCHANGED <<state, starts, monitorVars, listenerDone, acceptLoops, routerVars>>

\* Listener.Stop: cancel and close, then wait for the accept loop.
CloseListener ==
    /\ At("close", "wait")
    /\ listenerDone' = TRUE /\ socket' = "closed"
    /\ UNCHANGED <<state, starts, monitorVars, acceptLoops, routerVars>>

WaitForListener ==
    /\ At("wait", "router") /\ acceptLoops = 0
    /\ UNCHANGED <<state, starts, monitorVars, listenerVars, routerVars>>

\* OptimizedRouter.Stop does not wait for its workers.
StopRouter ==
    /\ At("router", "join")
    /\ routerDone' = TRUE
    /\ UNCHANGED <<state, starts, monitorVars, listenerVars, routerWorkers>>

StopReturn ==
    /\ At("join", "none") /\ monitors = 0
    /\ state' = "stopped"
    /\ UNCHANGED <<starts, monitorVars, listenerVars, routerVars>>
-----------------------------------------------------------------------------
(* Goroutines return when their context is done.  An accept loop sits in   *)
(* Accept until the socket is closed, unless it finds the context done     *)
(* before it gets there.                                                   *)

AcceptLoopEnds ==
    /\ acceptLoops > 0 /\ listenerDone
    /\ acceptLoops' = acceptLoops - 1
    /\ UNCHANGED <<planeVars, monitorVars, listenerDone, socket, routerVars>>

MonitorEnds ==
    /\ monitors > 0 /\ monitorDone
    /\ monitors' = monitors - 1
    /\ UNCHANGED <<planeVars, monitorDone, listenerVars, routerVars>>

RouterWorkersEnd ==
    /\ routerWorkers > 0 /\ routerDone
    /\ routerWorkers' = routerWorkers - 1
    /\ UNCHANGED <<planeVars, monitorVars, listenerVars, routerDone>>

CallStep == \/ ListenFails \/ Listen \/ StartMonitor
            \/ CloseListener \/ WaitForListener \/ StopRouter \/ StopReturn

\* Started as often as the bound allows, and stopped or left alone.
Done == call = "none" /\ UNCHANGED vars

Next == Start \/ Stop \/ CallStep
        \/ AcceptLoopEnds \/ MonitorEnds \/ RouterWorkersEnd \/ Done

Spec == Init /\ [][Next]_vars

\* A call under way goes on, and goroutines return when their context is done.
Fairness ==
    /\ WF_vars(CallStep) /\ WF_vars(AcceptLoopEnds)
    /\ WF_vars(MonitorEnds) /\ WF_vars(RouterWorkersEnd)

FairSpec == Spec /\ Fairness
-----------------------------------------------------------------------------
(* cp.state says what goes on.  Until the first Stop, "running" means one  *)
(* accept loop on an open socket, one monitor, and router workers, also    *)
(* after a Start that failed half-way; after a Stop and another Start it   *)
(* does not, since the new accept loop finds the old context done and      *)
(* returns.  "stopped" means that no accept loop, no monitor and no open   *)
(* socket is left, in the first life and in later ones, and at no time are *)
(* there two of them.                                                      *)
StateIsTrue ==
    /\ state = "running" /\ ~listenerDone /\ call = "none" =>
        /\ acceptLoops = 1 /\ socket = "open"
        /\ monitors = 1 /\ ~monitorDone
        /\ routerWorkers > 0 /\ ~routerDone
    /\ acceptLoops <= 1 /\ monitors <= 1
    /\ state = "stopped" => acceptLoops = 0 /\ monitors = 0 /\ socket = "closed"

(* Stop returns, and the router's workers end although it does not wait    *)
(* for them.                                                               *)
PlaneStops ==
    /\ (state = "stopping") ~> (state # "stopping")
    /\ routerDone ~> (routerWorkers = 0)
=============================================================================
