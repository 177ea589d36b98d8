----------------------------- MODULE DOSProtector ---------------------------
(***************************************************************************)
(* core/security/dos_protection.go: requests counted per fingerprint and   *)
(* time window, addresses blocked for a while.  CheckFingerprint looks at  *)
(* the block, removes one that has run out, and counts, each under a lock  *)
(* of its own.                                                             *)
(***************************************************************************)
EXTENDS Naturals, FiniteSets

CONSTANTS
    Checkers,       \* goroutines calling CheckFingerprint
    Fingerprints,   \* of one address, by user agent and protocol
    Threshold,
    MaxChecks       \* bound: requests counted in one window

VARIABLES
    enabled,
    counts,     \* Fingerprint.Count, 0 for a fingerprint not in the map
    age,        \* of the fingerprint's window: within windowSize, equal to it, or beyond
    blocked,    \* the address in blockedIPs: no entry, in force, or past blockDuration
    checker,    \* where each goroutine is
    admitted    \* requests of the window that were let in

vars == <<enabled, counts, age, blocked, checker, admitted>>

Ages == {"within", "equal", "beyond"}

TypeOK ==
    /\ enabled \in BOOLEAN
    /\ counts \in [Fingerprints -> 0..MaxChecks]
    /\ age \in [Fingerprints -> Ages]
    /\ blocked \in {"no", "yes", "expired"}
    /\ checker \in [Checkers -> {"outside", "unblock", "count"}]
    /\ admitted \in [Fingerprints -> 0..MaxChecks]

Init ==
    /\ enabled = TRUE
    /\ counts = [f \in Fingerprints |-> 0]
    /\ age = [f \in Fingerprints |-> "beyond"]
    /\ blocked = "no"
    /\ checker = [g \in Checkers |-> "outside"]
    /\ admitted = [f \in Fingerprints |-> 0]

Move(g, from, to) == checker[g] = from /\ checker' = [checker EXCEPT ![g] = to]
-----------------------------------------------------------------------------
\* A request from a blocked address is refused at once and changes nothing.
Begin(g) ==
    /\ enabled /\ blocked # "yes"
    /\ Move(g, "outside", IF blocked = "expired" THEN "unblock" ELSE "count")
    /\ UNCHANGED <<enabled, counts, age, blocked, admitted>>

\* Without another look: a block put there meanwhile goes as well.
Unblock(g) ==
    /\ Move(g, "unblock", "count")
    /\ blocked' = "no"
    /\ UNCHANGED <<enabled, counts, age, admitted>>

\* A new fingerprint, or a window that is over.
CountFirst(g, f) ==
    /\ Move(g, "count", "outside")
    /\ counts[f] = 0 \/ age[f] # "within"
    /\ counts' = [counts EXCEPT ![f] = 1]
    /\ age' = [age EXCEPT ![f] = "within"]
    /\ admitted' = [admitted EXCEPT ![f] = IF age[f] = "within" THEN @ + 1 ELSE 1]
    /\ UNCHANGED <<enabled, blocked>>

CountAllowed(g, f) ==
    /\ Move(g, "count", "outside")
    /\ counts[f] > 0 /\ age[f] = "within" /\ counts[f] + 1 <= Threshold
    /\ counts' = [counts EXCEPT ![f] = @ + 1]
    /\ admitted' = [admitted EXCEPT ![f] = @ + 1]
    /\ UNCHANGED <<enabled, age, blocked>>

CountRefused(g, f) ==
    /\ Move(g, "count", "outside")
    /\ counts[f] > 0 /\ age[f] = "within" /\ counts[f] + 1 > Threshold
    /\ counts[f] < MaxChecks
    /\ counts' = [counts EXCEPT ![f] = @ + 1]
    /\ blocked' = "yes"
    /\ UNCHANGED <<enabled, age, admitted>>
-----------------------------------------------------------------------------
WindowAges(f) ==
    /\ \/ age[f] = "within" /\ age' = [age EXCEPT ![f] = "equal"]
       \/ age[f] # "beyond" /\ age' = [age EXCEPT ![f] = "beyond"]
    /\ UNCHANGED <<enabled, counts, blocked, checker, admitted>>

BlockAges ==
    /\ blocked = "yes" /\ blocked' = "expired"
    /\ UNCHANGED <<enabled, counts, age, checker, admitted>>

\* Mutant: the clean-up empties the map.
CleanupAll ==
    /\ counts' = [f \in Fingerprints |-> 0]
    /\ blocked' = IF blocked = "expired" THEN "no" ELSE blocked
    /\ UNCHANGED <<enabled, age, checker, admitted>>

cleanupExpiredFingerprints ==
    /\ counts' = [f \in Fingerprints |-> IF age[f] = "beyond" THEN 0 ELSE counts[f]]
    /\ blocked' = IF blocked = "expired" THEN "no" ELSE blocked
    /\ UNCHANGED <<enabled, age, checker, admitted>>

Switch ==
    /\ enabled' = ~enabled
    /\ UNCHANGED <<counts, age, blocked, checker, admitted>>

Next ==
    \/ \E g \in Checkers :
        \/ Begin(g) \/ Unblock(g)
        \/ \E f \in Fingerprints : CountFirst(g, f) \/ CountAllowed(g, f) \/ CountRefused(g, f)
    \/ \E f \in Fingerprints : WindowAges(f)
    \/ BlockAges \/ cleanupExpiredFingerprints \/ Switch
-----------------------------------------------------------------------------
(* In one window a fingerprint gets at most Threshold requests in, and one *)
(* if the threshold is 0, whatever clean-up and concurrent checks do, and  *)
(* although a block may be lost.                                           *)
AdmittedWithinThreshold ==
    \A f \in Fingerprints :
        age[f] = "within" => admitted[f] <= (IF Threshold = 0 THEN 1 ELSE Threshold)
=============================================================================
