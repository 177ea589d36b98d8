------------------------- MODULE PerformanceMonitor -------------------------
(***************************************************************************)
(* core/performance/performance_monitor.go: a monitor checks thresholds    *)
(* and sends tuning actions through a bounded channel to a tuner.  Start   *)
(* may be called again and launches a second pair of loops; Stop closes a  *)
(* channel and must be called once.                                        *)
(***************************************************************************)
EXTENDS Integers, Sequences, FiniteSets

CONSTANTS
    Capacity,       \* of tuningChan; 100 in the code
    MaxStarts,      \* bound: calls of Start
    MaxActions      \* bound: actions decided

VARIABLES
    enabled, starts, stopped,
    toSend,         \* per monitor, the actions it has still to send
    monitors,       \* monitors that run
    tuningChan,
    tuner,          \* per tuner, the action in hand, or Idle, or Ended
    tuningActions,  \* the history
    procs,          \* GOMAXPROCS, above what it was, in steps of 10
    kindOf          \* the kind of each action decided

vars == <<enabled, starts, stopped, toSend, monitors, tuningChan, tuner, tuningActions, procs, kindOf>>

Loops == 1..MaxStarts
Kinds == <<"cpu", "memory", "cache", "gc">>
\* The kinds of the thresholds exceeded, in the order of the checks.
Exceeded ==
    LET orders == UNION {[1..n -> 1..4] : n \in 1..4}
    IN {[i \in DOMAIN o |-> Kinds[o[i]]] :
            o \in {o \in orders : \A i, j \in DOMAIN o : i < j => o[i] < o[j]}}
Idle == [at |-> "idle"]
Ended == [at |-> "ended"]
Doing == [at : {"execute", "optimize"}, action : 1..MaxActions]
Setting == [at : {"set"}, action : 1..MaxActions, read : 0..MaxActions]

TypeOK ==
    /\ enabled \in BOOLEAN /\ starts \in 0..MaxStarts /\ stopped \in BOOLEAN
    /\ monitors \subseteq 1..starts
    /\ Len(tuningChan) <= Capacity
    /\ tuner \in [Loops -> {Idle, Ended} \cup Doing \cup Setting]
    /\ procs \in 0..MaxActions /\ Len(kindOf) <= MaxActions

Init ==
    /\ enabled = TRUE /\ starts = 0 /\ stopped = FALSE
    /\ toSend = [l \in Loops |-> <<>>] /\ monitors = {}
    /\ tuningChan = <<>> /\ tuner = [l \in Loops |-> Ended]
    /\ tuningActions = <<>> /\ procs = 0 /\ kindOf = <<>>
-----------------------------------------------------------------------------
Start ==
    /\ enabled /\ starts < MaxStarts
    /\ starts' = starts + 1 /\ monitors' = monitors \cup {starts + 1}
    /\ tuner' = [tuner EXCEPT ![starts + 1] = Idle]
    /\ UNCHANGED <<enabled, stopped, toSend, tuningChan, tuningActions, procs, kindOf>>

\* The loops go on after a Disable.
Enable(on) ==
    /\ enabled # on /\ enabled' = on
    /\ UNCHANGED <<starts, stopped, toSend, monitors, tuningChan, tuner, tuningActions, procs, kindOf>>

Stop ==
    /\ ~stopped /\ stopped' = TRUE
    /\ UNCHANGED <<enabled, starts, toSend, monitors, tuningChan, tuner, tuningActions, procs, kindOf>>

\* Every five seconds: each threshold exceeded gives one action.
CheckThresholds(m, exceeded) ==
    /\ m \in monitors /\ toSend[m] = <<>>
    /\ Len(kindOf) + Len(exceeded) <= MaxActions
    /\ kindOf' = kindOf \o exceeded
    /\ toSend' = [toSend EXCEPT ![m] = [i \in 1..Len(exceeded) |-> Len(kindOf) + i]]
    /\ UNCHANGED <<enabled, starts, stopped, monitors, tuningChan, tuner, tuningActions, procs>>

\* Mutant: an action that finds the channel full is dropped.
SendActionOrDrop(m) ==
    /\ toSend[m] # <<>>
    /\ tuningChan' = IF Len(tuningChan) < Capacity THEN Append(tuningChan, Head(toSend[m])) ELSE tuningChan
    /\ toSend' = [toSend EXCEPT ![m] = Tail(@)]
    /\ UNCHANGED <<enabled, starts, stopped, monitors, tuner, tuningActions, procs, kindOf>>

\* The send waits for room, whether or not the monitor is stopped meanwhile.
SendAction(m) ==
    /\ toSend[m] # <<>> /\ Len(tuningChan) < Capacity
    /\ tuningChan' = Append(tuningChan, Head(toSend[m]))
    /\ toSend' = [toSend EXCEPT ![m] = Tail(@)]
    /\ UNCHANGED <<enabled, starts, stopped, monitors, tuner, tuningActions, procs, kindOf>>

MonitorExits(m) ==
    /\ stopped /\ m \in monitors /\ toSend[m] = <<>>
    /\ monitors' = monitors \ {m}
    /\ UNCHANGED <<enabled, starts, stopped, toSend, tuningChan, tuner, tuningActions, procs, kindOf>>
-----------------------------------------------------------------------------
ReceiveAction(t) ==
    /\ tuner[t] = Idle /\ tuningChan # <<>>
    /\ tuner' = [tuner EXCEPT ![t] = [at |-> "execute", action |-> Head(tuningChan)]]
    /\ tuningChan' = Tail(tuningChan)
    /\ UNCHANGED <<enabled, starts, stopped, toSend, monitors, tuningActions, procs, kindOf>>

\* executeTuningAction; only optimizeGC does anything that is seen here.
RecordAction(t) ==
    /\ tuner[t].at = "execute"
    /\ tuningActions' = Append(tuningActions, tuner[t].action)
    /\ tuner' = [tuner EXCEPT ![t] = IF kindOf[@.action] = "gc" THEN [at |-> "optimize", action |-> @.action] ELSE Idle]
    /\ UNCHANGED <<enabled, starts, stopped, toSend, monitors, tuningChan, procs, kindOf>>

\* optimizeGC reads the number of processors in one call and sets it in another.
ReadProcs(t) ==
    /\ tuner[t].at = "optimize"
    /\ tuner' = [tuner EXCEPT ![t] = [at |-> "set", action |-> @.action, read |-> procs]]
    /\ UNCHANGED <<enabled, starts, stopped, toSend, monitors, tuningChan, tuningActions, procs, kindOf>>

SetProcs(t) ==
    /\ tuner[t].at = "set"
    /\ procs' = tuner[t].read + 1 /\ tuner' = [tuner EXCEPT ![t] = Idle]
    /\ UNCHANGED <<enabled, starts, stopped, toSend, monitors, tuningChan, tuningActions, kindOf>>

\* Actions in the channel stay there.
TunerExits(t) ==
    /\ stopped /\ tuner[t] = Idle
    /\ tuner' = [tuner EXCEPT ![t] = Ended]
    /\ UNCHANGED <<enabled, starts, stopped, toSend, monitors, tuningChan, tuningActions, procs, kindOf>>

Next ==
    \/ Start \/ Stop \/ Enable(TRUE) \/ Enable(FALSE)
    \/ \E l \in Loops :
        \/ \E exceeded \in Exceeded : CheckThresholds(l, exceeded)
        \/ SendAction(l) \/ MonitorExits(l)
        \/ ReceiveAction(l) \/ RecordAction(l) \/ ReadProcs(l) \/ SetProcs(l) \/ TunerExits(l)
-----------------------------------------------------------------------------
Done(k) == Cardinality({i \in 1..Len(tuningActions) : kindOf[tuningActions[i]] = k})
Setters == {t \in Loops : tuner[t].at \in {"optimize", "set"}}
Hand(t) == IF tuner[t].at = "execute" THEN <<tuner[t].action>> ELSE <<>>
In(s) == {s[i] : i \in 1..Len(s)}
Held(l) == Hand(l) \o toSend[l]

(* No action decided is lost or executed twice, in whatever order loops    *)
(* run and end: it is executed, in a tuner's hand, in the channel or still *)
(* to be sent, and with one pair of loops the four make up the order in    *)
(* which the actions were decided.  One pair raises GOMAXPROCS once for    *)
(* each gc action; with two, raises get lost but none is made up.   *)
ActionsInOrder ==
    /\ In(tuningActions) \cup In(tuningChan) \cup UNION {In(Held(l)) : l \in Loops}
        = 1..Len(kindOf)
    /\ Len(tuningActions) + Len(tuningChan)
         + Cardinality(UNION {{l} \X (1..Len(Held(l))) : l \in Loops}) = Len(kindOf)
    /\ starts = 1 => tuningActions \o Hand(1) \o tuningChan \o toSend[1] = [i \in 1..Len(kindOf) |-> i]
    /\ procs <= Done("gc")
    /\ starts = 1 => procs = Done("gc") - Cardinality(Setters)
=============================================================================
