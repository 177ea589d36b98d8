---------------------------- MODULE PolicyEngine ----------------------------
(***************************************************************************)
(* core/governance/policy_engine.go: policies are added, updated and       *)
(* removed under the engine's lock; a listener hears of it from a          *)
(* goroutine per change, which reads the policy only then.                 *)
(***************************************************************************)
EXTENDS Naturals, FiniteSets

CONSTANTS
    Policies,    \* policy IDs, of one type
    MaxPolicies, \* bound: Policy objects made
    MaxVersion   \* bound: Version of a policy

VARIABLES
    policies,    \* pe.policies: a partial function from IDs to objects
    made,        \* objects made so far
    active,      \* objects that are active
    version,     \* of each object
    registered,  \* the listener is registered
    notices,     \* goroutines that are to call it: the ID and the object
    heard,       \* what the listener last heard of each ID
    unsure       \* IDs with changes the listener missed, or may hear out of order

vars == <<policies, made, active, version, registered, notices, heard, unsure>>

Objects == 1..MaxPolicies

TypeOK ==
    /\ DOMAIN policies \subseteq Policies /\ \A p \in DOMAIN policies : policies[p] \in 1..made
    /\ made \in 0..MaxPolicies /\ active \subseteq 1..made
    /\ version \in [Objects -> 0..MaxVersion]
    /\ registered \in BOOLEAN
    /\ notices \in [Policies -> [Objects -> 0..(MaxVersion + 1)]]
    /\ heard \in [Policies -> BOOLEAN] /\ unsure \subseteq Policies

Init ==
    /\ policies = <<>> /\ made = 0 /\ active = {} /\ version = [o \in Objects |-> 0]
    /\ registered = FALSE
    /\ notices = [p \in Policies |-> [o \in Objects |-> 0]]
    /\ heard = [p \in Policies |-> FALSE] /\ unsure = {}
-----------------------------------------------------------------------------
UnderWay(p) == \E o \in Objects : notices[p][o] > 0

\* notifyListeners starts a goroutine with the listeners of now.
Notify(p, o) ==
    /\ notices' = IF registered THEN [notices EXCEPT ![p][o] = @ + 1] ELSE notices
    /\ unsure' = IF registered /\ ~UnderWay(p) THEN unsure \ {p} ELSE unsure \cup {p}

Quiet == UNCHANGED <<notices, unsure>>

AddNewPolicy(p, a) ==
    /\ p \notin DOMAIN policies /\ made < MaxPolicies
    /\ LET o == made + 1 IN
        /\ made' = o
        /\ policies' = [q \in DOMAIN policies \cup {p} |-> IF q = p THEN o ELSE policies[q]]
        /\ version' = [version EXCEPT ![o] = 1]
        /\ active' = IF a THEN active \cup {o} ELSE active
        /\ IF a THEN Notify(p, o) ELSE Quiet
    /\ UNCHANGED <<registered, heard>>

\* Mutant: an update does not look whether the policy changes its state.
UpdatePolicyQuietly(p, a) ==
    /\ p \in DOMAIN policies
    /\ LET o == policies[p] IN
        /\ version[o] < MaxVersion /\ version' = [version EXCEPT ![o] = @ + 1]
        /\ active' = IF a THEN active \cup {o} ELSE active \ {o}
        /\ Quiet
    /\ UNCHANGED <<policies, made, registered, heard>>

\* The contents compared are the new one and itself: only a change of Active is told.
UpdatePolicy(p, a) ==
    /\ p \in DOMAIN policies
    /\ LET o == policies[p] IN
        /\ version[o] < MaxVersion /\ version' = [version EXCEPT ![o] = @ + 1]
        /\ active' = IF a THEN active \cup {o} ELSE active \ {o}
        /\ IF a # (o \in active) THEN Notify(p, o) ELSE Quiet
    /\ UNCHANGED <<policies, made, registered, heard>>

RemovePolicy(p) ==
    /\ p \in DOMAIN policies
    /\ active' = active \ {policies[p]}
    /\ Notify(p, policies[p])
    /\ policies' = [q \in DOMAIN policies \ {p} |-> policies[q]]
    /\ UNCHANGED <<made, version, registered, heard>>

RegisterListener ==
    /\ ~registered /\ registered' = TRUE
    /\ UNCHANGED <<policies, made, active, version, notices, heard, unsure>>

\* The goroutine runs: the policy is as it is by now.
OnPolicyChanged(p, o) ==
    /\ notices[p][o] > 0 /\ notices' = [notices EXCEPT ![p][o] = @ - 1]
    /\ heard' = [heard EXCEPT ![p] = o \in active]
    /\ UNCHANGED <<policies, made, active, version, registered, unsure>>

Next ==
    \/ \E p \in Policies :
        \/ \E a \in BOOLEAN : AddNewPolicy(p, a) \/ UpdatePolicy(p, a)
        \/ RemovePolicy(p)
        \/ \E o \in Objects : OnPolicyChanged(p, o)
    \/ RegisterListener
-----------------------------------------------------------------------------
IsActive(p) == p \in DOMAIN policies /\ policies[p] \in active

(* When nothing is left to be told, the listener knows whether a policy is *)
(* active, unless the last change came before it was registered or while   *)
(* it was still to be told of an earlier one, and the two were told in the *)
(* wrong order.                                                            *)
ListenerKnows ==
    \A p \in Policies : ~UnderWay(p) /\ p \notin unsure => heard[p] = IsActive(p)
=============================================================================
