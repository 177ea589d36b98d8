----------------------------- MODULE MessageBus -----------------------------
(***************************************************************************)
(* core/bus/enhanced_message_bus.go, EnhancedMessageBus: connections,      *)
(* their subscriptions, the index of subscriptions by topic, and Publish   *)
(* and Broadcast, which take a snapshot of their targets under the lock    *)
(* and then deliver to each of them in a goroutine of its own, with        *)
(* retries, while connections and subscriptions come and go.               *)
(***************************************************************************)
EXTENDS Naturals, FiniteSets

CONSTANTS
    Clients,         \* connections; each registers once
    SubIds,          \* ids of subscriptions, made from connection, topic and time
    Topics,
    Publishers,      \* goroutines calling Publish or Broadcast
    MaxClients,      \* config.MaxConnections
    RetryAttempts,   \* config.RetryAttempts
    MaxPublishes     \* bound: calls of Publish

VARIABLES
    known,           \* keys of bus.connections
    gone,            \* connections that were closed
    inactive,        \* connections whose IsActive is false
    subscriptions,   \* bus.subscriptions: sub id -> [conn, topic]
    topicSubs,       \* bus.topicSubs: how often each id is listed under each topic
    job,             \* what each publisher is doing: "idle", "publish", "broadcast"
    targets,         \* targets[p]: the connections or subscriptions p delivers to
    stage,           \* stage[p]: how far the goroutine of each target is
    tries,           \* tries[p]: Send calls made for each target
    received,        \* received[p]: how often each target got p's message
    published, delivered, failed,  \* bus.metrics
    closing          \* progress of Close: "no", "cancelled", "closed"

registry == <<known, gone, subscriptions, topicSubs>>
work     == <<job, targets, stage, tries, received>>
metrics  == <<published, delivered, failed>>
vars     == <<registry, inactive, work, metrics, closing>>

Targets == Clients \cup SubIds
Subs == DOMAIN subscriptions

TypeOK ==
    /\ known \subseteq Clients /\ gone \subseteq Clients /\ inactive \subseteq Clients
    /\ Subs \subseteq SubIds
    /\ \A s \in Subs : subscriptions[s] \in [conn : Clients, topic : Topics]
    /\ topicSubs \in [Topics -> [SubIds -> Nat]]
    /\ job \in [Publishers -> {"idle", "publish", "broadcast"}]
    /\ \A p \in Publishers : targets[p] \in [DOMAIN targets[p] -> Clients]
                             /\ DOMAIN targets[p] \subseteq Targets
    /\ stage \in [Publishers -> [Targets -> {"none", "lookup", "send", "ok", "filtered", "error"}]]
    /\ tries \in [Publishers -> [Targets -> 0..(RetryAttempts + 1)]]
    /\ received \in [Publishers -> [Targets -> 0..(RetryAttempts + 1)]]
    /\ published \in 0..MaxPublishes /\ delivered \in Nat /\ failed \in Nat
    /\ closing \in {"no", "cancelled", "closed"}

Nothing == [x \in {} |-> x]
Zero == [t \in Targets |-> 0]

Init ==
    /\ known = {} /\ gone = {} /\ inactive = {}
    /\ subscriptions = Nothing
    /\ topicSubs = [t \in Topics |-> [s \in SubIds |-> 0]]
    /\ job = [p \in Publishers |-> "idle"]
    /\ targets = [p \in Publishers |-> Nothing]
    /\ stage = [p \in Publishers |-> [t \in Targets |-> "none"]]
    /\ tries = [p \in Publishers |-> Zero]
    /\ received = [p \in Publishers |-> Zero]
    /\ published = 0 /\ delivered = 0 /\ failed = 0
    /\ closing = "no"
-----------------------------------------------------------------------------
RegisterConnection(c) ==
    /\ c \notin known \cup gone /\ Cardinality(known) < MaxClients
    /\ known' = known \cup {c}
    /\ UNCHANGED <<gone, inactive, subscriptions, topicSubs, work, metrics, closing>>

SubsOf(cs) == {s \in Subs : subscriptions[s].conn \in cs}
Without(f, S) == [x \in DOMAIN f \ S |-> f[x]]
\* removeSubscriptionFromTopic, for each id of ids: one place under its topic.
Unlisted(ids) ==
    [t \in Topics |-> [s \in SubIds |->
        IF s \in ids /\ subscriptions[s].topic = t /\ topicSubs[t][s] > 0
        THEN topicSubs[t][s] - 1 ELSE topicSubs[t][s]]]

\* Mutant: the index by topic is forgotten.
ForgetUnlisted(cs) ==
    /\ known' = known \ cs
    /\ gone' = gone \cup (cs \cap known)
    /\ subscriptions' = Without(subscriptions, SubsOf(cs))
    /\ UNCHANGED topicSubs

\* Close the connections cs, drop them and their subscriptions.
Forget(cs) ==
    /\ known' = known \ cs
    /\ gone' = gone \cup (cs \cap known)
    /\ subscriptions' = Without(subscriptions, SubsOf(cs))
    /\ topicSubs' = Unlisted(SubsOf(cs))

UnregisterConnection(c) ==
    /\ c \in known /\ Forget({c})
    /\ UNCHANGED <<inactive, work, metrics, closing>>

\* cleanupLoop: connections that are no longer active.
Cleanup ==
    /\ closing # "closed" /\ known \cap inactive # {}
    /\ Forget(known \cap inactive)
    /\ UNCHANGED <<inactive, work, metrics, closing>>

\* An id is new: no publisher is delivering to it either.
Subscribe(s, c, t) ==
    /\ s \notin Subs /\ c \in known
    /\ \A p \in Publishers : job[p] # "idle" => s \notin DOMAIN targets[p]
    /\ subscriptions' = [x \in Subs \cup {s} |->
                            IF x = s THEN [conn |-> c, topic |-> t] ELSE subscriptions[x]]
    /\ topicSubs' = [topicSubs EXCEPT ![t][s] = @ + 1]
    /\ UNCHANGED <<known, gone, inactive, work, metrics, closing>>

Unsubscribe(s) ==
    /\ s \in Subs
    /\ subscriptions' = Without(subscriptions, {s})
    /\ topicSubs' = Unlisted({s})
    /\ UNCHANGED <<known, gone, inactive, work, metrics, closing>>
-----------------------------------------------------------------------------
(* Publish and Broadcast.                                                  *)

Launch(p, kind, conns, first) ==
    /\ job[p] = "idle"
    /\ job' = [job EXCEPT ![p] = kind]
    /\ targets' = [targets EXCEPT ![p] = conns]
    /\ stage' = [stage EXCEPT ![p] = [t \in Targets |-> IF t \in DOMAIN conns THEN first ELSE "none"]]
    /\ tries' = [tries EXCEPT ![p] = Zero]
    /\ received' = [received EXCEPT ![p] = Zero]
    /\ UNCHANGED <<registry, inactive, delivered, failed, closing>>

\* routeMessage: the subscriptions listed under the topic.
Publish(p, topic) ==
    /\ published < MaxPublishes
    /\ Launch(p, "publish",
              [s \in {s \in Subs : topicSubs[topic][s] > 0} |-> subscriptions[s].conn], "lookup")
    /\ published' = published + 1

\* excluded has the one connection left out, if any.
Broadcast(p, excluded) ==
    /\ Launch(p, "broadcast", [c \in known \ (inactive \cup excluded) |-> c], "send")
    /\ published' = published   \* Broadcast keeps no count

Steps(p, t, from, to) == stage[p][t] = from /\ stage' = [stage EXCEPT ![p][t] = to]

\* Mutant: a connection that is gone is passed over in silence.
LookupLenient(p, t) ==
    /\ Steps(p, t, "lookup", IF targets[p][t] \in known \ inactive THEN "send" ELSE "ok")
    /\ UNCHANGED <<registry, inactive, job, targets, tries, received, metrics, closing>>

\* handleSubscription looks the connection up again.
Lookup(p, t) ==
    /\ Steps(p, t, "lookup", IF targets[p][t] \in known \ inactive THEN "send" ELSE "error")
    /\ UNCHANGED <<registry, inactive, job, targets, tries, received, metrics, closing>>

\* The subscription's filter declines the message, or its handler fails.
Decline(p, t) ==
    /\ Steps(p, t, "lookup", "filtered") \/ Steps(p, t, "lookup", "error")
    /\ UNCHANGED <<registry, inactive, job, targets, tries, received, metrics, closing>>

Try(p, t) == /\ stage[p][t] = "send"
             /\ tries' = [tries EXCEPT ![p][t] = @ + 1]

SendSucceeds(p, t) ==
    /\ Try(p, t) /\ targets[p][t] \notin gone
    /\ Steps(p, t, "send", "ok")
    /\ received' = [received EXCEPT ![p][t] = @ + 1]
    /\ UNCHANGED <<registry, inactive, job, targets, metrics, closing>>

\* Send reports an error, though the message may have arrived; sendWithRetry
\* tries again unless that was the last attempt.
SendFails(p, t) ==
    /\ Try(p, t)
    /\ stage' = [stage EXCEPT ![p][t] = IF tries[p][t] = RetryAttempts THEN "error" ELSE "send"]
    /\ \E arrived \in {0} \cup (IF targets[p][t] \in gone THEN {} ELSE {1}) :
        received' = [received EXCEPT ![p][t] = @ + arrived]
    /\ UNCHANGED <<registry, inactive, job, targets, metrics, closing>>

\* The context of the caller ends while sendWithRetry backs off.
BackoffCancelled(p, t) ==
    /\ tries[p][t] > 0
    /\ Steps(p, t, "send", "error")
    /\ UNCHANGED <<registry, inactive, job, targets, tries, received, metrics, closing>>

Over(p) == \A t \in DOMAIN targets[p] : stage[p][t] \in {"ok", "filtered", "error"}
AllOk(p) == \A t \in DOMAIN targets[p] : stage[p][t] # "error"

\* All errors are collected before the call returns.
Return(p) ==
    /\ job[p] # "idle" /\ Over(p)
    /\ job' = [job EXCEPT ![p] = "idle"]
    /\ IF job[p] = "broadcast" THEN UNCHANGED <<delivered, failed>>
       ELSE IF AllOk(p) THEN delivered' = delivered + 1 /\ UNCHANGED failed
            ELSE failed' = failed + 1 /\ UNCHANGED delivered
    /\ UNCHANGED <<registry, inactive, targets, stage, tries, received, published, closing>>

DeliveryStep(p, t) == \/ Lookup(p, t) \/ Decline(p, t) \/ SendSucceeds(p, t)
                      \/ SendFails(p, t) \/ BackoffCancelled(p, t)
-----------------------------------------------------------------------------
\* Close: cancel and wait for the loops, then close every connection.
CloseCancel ==
    /\ closing = "no" /\ closing' = "cancelled"
    /\ UNCHANGED <<registry, inactive, work, metrics>>

CloseConnections ==
    /\ closing = "cancelled" /\ closing' = "closed"
    /\ gone' = gone \cup known
    /\ UNCHANGED <<known, subscriptions, topicSubs, inactive, work, metrics>>

\* A client falls silent.
GoInactive(c) ==
    /\ c \in known \ inactive
    /\ inactive' = inactive \cup {c}
    /\ UNCHANGED <<registry, work, metrics, closing>>

Next ==
    \/ \E c \in Clients :
        \/ RegisterConnection(c) \/ UnregisterConnection(c) \/ GoInactive(c)
        \/ \E s \in SubIds, t \in Topics : Subscribe(s, c, t)
    \/ \E s \in SubIds : Unsubscribe(s)
    \/ \E p \in Publishers :
        \/ \E t \in Topics : Publish(p, t)
        \/ \E excluded \in {{}} \cup {{c} : c \in Clients} : Broadcast(p, excluded)
        \/ Return(p)
        \/ \E t \in Targets : DeliveryStep(p, t)
    \/ Cleanup \/ CloseCancel \/ CloseConnections

Spec == Init /\ [][Next]_vars
-----------------------------------------------------------------------------
(* The index by topic lists each subscription once, under its topic, and   *)
(* lists nothing else; every subscription belongs to a registered          *)
(* connection, also after the clean-up of inactive ones.                   *)
IndexAgrees ==
    /\ \A t \in Topics, s \in SubIds :
        topicSubs[t][s] = IF s \in Subs /\ subscriptions[s].topic = t THEN 1 ELSE 0
    /\ \A s \in Subs : subscriptions[s].conn \in known

(* A Publish that returns without an error has reached every subscription  *)
(* it found that wants the message, although connections are closed under  *)
(* it: at least once, and no more often than there were attempts.  Every   *)
(* publication that returned is counted as delivered or as failed.         *)
AtLeastOnce ==
    /\ \A p \in Publishers : \A t \in DOMAIN targets[p] :
        /\ stage[p][t] = "ok" => received[p][t] >= 1
        /\ received[p][t] <= tries[p][t]
    /\ published = delivered + failed + Cardinality({p \in Publishers : job[p] = "publish"})
=============================================================================
