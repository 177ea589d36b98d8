-------------------------- MODULE MCRouterAndPlane --------------------------
(***************************************************************************)
(* The router's request queue, and the control plane that starts and stops *)
(* the router.  The plane does not touch the queue, so a behaviour is one  *)
(* of the queue or one of the plane; the initial state chooses which.      *)
(* Nothing that fairness is about is enabled in the initial state of       *)
(* either, so the fairness of one says nothing while the other moves.      *)
(***************************************************************************)
EXTENDS RouterQueue

CONSTANT MaxStarts

ASSUME StartsAssumption == MaxStarts \in Nat

VARIABLES which, state, call, starts, monitorDone, monitors, listenerDone, socket,
          acceptLoops, routerDone, routerWorkers

Plane == INSTANCE ControlPlane
planeVars == <<state, call, starts, monitorDone, monitors, listenerDone, socket,
               acceptLoops, routerDone, routerWorkers>>

BothInit == which \in {"router", "plane"} /\ Init /\ Plane!Init

BothNext ==
    \/ which = "router" /\ Next /\ UNCHANGED <<which, planeVars>>
    \/ which = "plane" /\ Plane!Next /\ UNCHANGED <<which, vars>>

BothSpec == BothInit /\ [][BothNext]_<<which, vars, planeVars>>
            /\ Fairness /\ Plane!Fairness

(* The variables of both have their types.                                 *)
TypesOK == IF which = "router" THEN TypeOK ELSE Plane!TypeOK

(* The plane's state says what goes on in listener, router and monitor.    *)
StateIsTrue == which = "plane" => Plane!StateIsTrue

(* Calls of the router return and its workers end; the plane's Stop        *)
(* returns.                                                                *)
EverythingStops == CallsReturn /\ StopEndsWorkers /\ Plane!PlaneStops
=============================================================================
