--------------------------- MODULE SecurityManager --------------------------
(***************************************************************************)
(* core/security/security_manager.go: publications of security events, the *)
(* loop that hands them to the handlers, and Close.  The two loops join    *)
(* the wait group themselves, once they run.                               *)
(***************************************************************************)
EXTENDS Naturals, Sequences

CONSTANTS
    Publishers,       \* goroutines calling PublishEvent, directly or from UpdateSecurityLevel
    EventBufferSize,
    MaxEventHandlers,
    MaxThreshold,     \* bound: UpdateSecurityLevel(Low) is not called above it
    MaxPublishes      \* bound: publications

VARIABLES
    events,      \* the event channel: who published
    eventsOpen,  \* it is not closed
    handlers,    \* len(eventHandlers)
    threshold,   \* config.DOSThreshold
    mutex,       \* the publisher that holds sm.mutex, or "free"
    publisher,   \* what each publisher does
    publishes,
    loop,        \* the two goroutines
    registered,  \* sm.wg
    running,     \* handler goroutines started so far
    done,        \* the context is cancelled
    closer,      \* progress of Close
    timedOut,    \* Close gave up waiting
    late         \* loops that joined the wait group after Close stopped waiting

vars == <<events, eventsOpen, handlers, threshold, mutex, publisher, publishes,
          loop, registered, running, done, closer, timedOut, late>>
pubVars  == <<publisher, publishes, mutex, threshold>>
loopVars == <<loop, registered, running, late>>
closeVars == <<eventsOpen, done, closer, timedOut>>

Loops == {"events", "metrics"}

TypeOK ==
    /\ events \in Seq(Publishers) /\ Len(events) <= EventBufferSize
    /\ eventsOpen \in BOOLEAN /\ done \in BOOLEAN /\ timedOut \in BOOLEAN
    /\ handlers \in 0..MaxEventHandlers
    /\ threshold \in 0..MaxThreshold
    /\ mutex \in Publishers \cup {"free"}
    /\ publisher \in [Publishers -> {"idle", "sending", "panicked"}]
    /\ publishes \in 0..MaxPublishes
    /\ loop \in [Loops -> {"created", "running", "handling", "exited"}]
    /\ registered \subseteq Loops /\ late \subseteq Loops
    /\ running \in 0..(MaxPublishes * MaxEventHandlers)
    /\ closer \in {"open", "flagged", "disabled", "waiting", "waited", "closed"}

Init ==
    /\ events = <<>> /\ eventsOpen = TRUE
    /\ handlers = 0 /\ threshold = MaxThreshold \div 2
    /\ mutex = "free"
    /\ publisher = [p \in Publishers |-> "idle"] /\ publishes = 0
    /\ loop = [l \in Loops |-> "created"] /\ registered = {}
    /\ running = 0 /\ done = FALSE
    /\ closer = "open" /\ timedOut = FALSE /\ late = {}
-----------------------------------------------------------------------------
AddEventHandler ==
    /\ mutex = "free" /\ handlers < MaxEventHandlers
    /\ handlers' = handlers + 1
    /\ UNCHANGED <<events, pubVars, loopVars, closeVars>>

RemoveEventHandler ==
    /\ mutex = "free" /\ handlers > 0
    /\ handlers' = handlers - 1
    /\ UNCHANGED <<events, pubVars, loopVars, closeVars>>

\* The first statement of PublishEvent looks at the flag that Close sets first.
Publish(p) ==
    /\ publisher[p] = "idle" /\ publishes < MaxPublishes
    /\ publishes' = publishes + 1
    /\ publisher' = [publisher EXCEPT ![p] = IF closer = "open" THEN "sending" ELSE "idle"]

PublishEvent(p) ==
    /\ Publish(p)
    /\ UNCHANGED <<events, handlers, mutex, threshold, loopVars, closeVars>>

\* UpdateSecurityLevel publishes with sm.mutex held.  Every level scales the last threshold.
Scaled == {threshold \div 4, threshold \div 2, threshold}
          \cup {t \in {threshold * 2} : t <= MaxThreshold}
UpdateSecurityLevel(p) ==
    /\ mutex = "free" /\ Publish(p)
    /\ threshold' \in Scaled
    /\ mutex' = IF publisher'[p] = "sending" THEN p ELSE "free"
    /\ UNCHANGED <<events, handlers, loopVars, closeVars>>

\* ApplySecurityPolicy sets the threshold and publishes with sm.mutex held.
ApplySecurityPolicy(p) ==
    /\ mutex = "free" /\ Publish(p)
    /\ threshold' \in {threshold, MaxThreshold \div 2}
    /\ mutex' = IF publisher'[p] = "sending" THEN p ELSE "free"
    /\ UNCHANGED <<events, handlers, loopVars, closeVars>>

EndPublish(p, how) ==
    /\ publisher[p] = "sending"
    /\ publisher' = [publisher EXCEPT ![p] = how]
    /\ mutex' = IF mutex = p THEN "free" ELSE mutex
    /\ UNCHANGED <<handlers, publishes, threshold, loopVars, closeVars>>

\* The select of PublishEvent: send, context, default.
Send(p) ==
    /\ eventsOpen /\ Len(events) < EventBufferSize
    /\ events' = Append(events, p)
    /\ EndPublish(p, "idle")

SendCancelled(p) == done /\ EndPublish(p, "idle") /\ UNCHANGED events

SendFull(p) ==
    /\ eventsOpen /\ Len(events) = EventBufferSize /\ ~done
    /\ EndPublish(p, "idle") /\ UNCHANGED events

\* A send on the closed channel may be chosen as well, and panics.
SendClosed(p) == ~eventsOpen /\ EndPublish(p, "panicked") /\ UNCHANGED events
-----------------------------------------------------------------------------
\* Mutant: a loop does not join the wait group.
LoopBeginsUncounted(l) ==
    /\ loop[l] = "created"
    /\ loop' = [loop EXCEPT ![l] = "running"]
    /\ late' = late \cup (IF closer \in {"waited", "closed"} THEN {l} ELSE {})
    /\ UNCHANGED <<events, handlers, pubVars, registered, running, closeVars>>

LoopBegins(l) ==
    /\ loop[l] = "created"
    /\ loop' = [loop EXCEPT ![l] = "running"]
    /\ registered' = registered \cup {l}
    /\ late' = late \cup (IF closer \in {"waited", "closed"} THEN {l} ELSE {})
    /\ UNCHANGED <<events, handlers, pubVars, running, closeVars>>

TakeEvent ==
    /\ loop["events"] = "running" /\ events # <<>>
    /\ events' = Tail(events)
    /\ loop' = [loop EXCEPT !["events"] = "handling"]
    /\ UNCHANGED <<handlers, pubVars, registered, running, late, closeVars>>

\* The handlers are copied under sm.mutex and run in goroutines of their own.
HandleEvent ==
    /\ loop["events"] = "handling" /\ mutex = "free"
    /\ running' = running + handlers
    /\ loop' = [loop EXCEPT !["events"] = "running"]
    /\ UNCHANGED <<events, handlers, pubVars, registered, late, closeVars>>

LoopExits(l) ==
    /\ loop[l] = "running"
    /\ done \/ (l = "events" /\ ~eventsOpen /\ events = <<>>)
    /\ loop' = [loop EXCEPT ![l] = "exited"]
    /\ registered' = registered \ {l}
    /\ UNCHANGED <<events, handlers, pubVars, running, late, closeVars>>
-----------------------------------------------------------------------------
CloseFlag ==
    /\ closer = "open" /\ closer' = "flagged"
    /\ UNCHANGED <<events, handlers, pubVars, loopVars, eventsOpen, done, timedOut>>

CloseDisable ==
    /\ closer = "flagged" /\ mutex = "free" /\ closer' = "disabled"
    /\ UNCHANGED <<events, handlers, pubVars, loopVars, eventsOpen, done, timedOut>>

CloseCancel ==
    /\ closer = "disabled" /\ closer' = "waiting" /\ done' = TRUE
    /\ UNCHANGED <<events, handlers, pubVars, loopVars, eventsOpen, timedOut>>

CloseWait ==
    /\ closer = "waiting" /\ registered = {} /\ closer' = "waited"
    /\ UNCHANGED <<events, handlers, pubVars, loopVars, eventsOpen, done, timedOut>>

\* After five seconds.
CloseTimeout ==
    /\ closer = "waiting" /\ closer' = "waited" /\ timedOut' = TRUE
    /\ UNCHANGED <<events, handlers, pubVars, loopVars, eventsOpen, done>>

CloseChannel ==
    /\ closer = "waited" /\ closer' = "closed" /\ eventsOpen' = FALSE
    /\ UNCHANGED <<events, handlers, pubVars, loopVars, done, timedOut>>

Next ==
    \/ AddEventHandler \/ RemoveEventHandler
    \/ \E p \in Publishers :
        \/ PublishEvent(p) \/ UpdateSecurityLevel(p) \/ ApplySecurityPolicy(p)
        \/ Send(p) \/ SendCancelled(p) \/ SendFull(p) \/ SendClosed(p)
    \/ \E l \in Loops : LoopBegins(l) \/ LoopExits(l)
    \/ TakeEvent \/ HandleEvent
    \/ CloseFlag \/ CloseDisable \/ CloseCancel \/ CloseWait \/ CloseTimeout \/ CloseChannel
-----------------------------------------------------------------------------
(* Once Close has closed the channel, no loop handles events any more, but *)
(* for one that joined the wait group too late to be waited for, or that   *)
(* Close stopped waiting for after five seconds.                           *)
QuietAfterClose ==
    ~eventsOpen /\ ~timedOut =>
        \A l \in Loops : loop[l] \in {"running", "handling"} => l \in late
=============================================================================
