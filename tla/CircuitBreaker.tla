--------------------------- MODULE CircuitBreaker ---------------------------
(***************************************************************************)
(* core/reliability/reliability_manager.go, type CircuitBreaker.  Callers  *)
(* share one breaker; every section between a lock and its unlock is one   *)
(* step.  AllowRequest on an open breaker has three sections: it gives up  *)
(* the read lock to take the write lock, and the write lock to take the    *)
(* read lock again, and others run in the two gaps.                        *)
(***************************************************************************)
EXTENDS Naturals

CONSTANTS
    Callers,             \* goroutines that use the breaker
    RateThreshold,       \* connectionFailureThreshold, in units of 1/Scale
    Scale,
    ProtocolThreshold,   \* protocolFailureThreshold
    ServiceThreshold,    \* serviceFailureThreshold
    MaxCount             \* bound: calls of a Record method since the last reset

ASSUME BreakerAssumption ==
    /\ RateThreshold \in Nat /\ Scale \in Nat \ {0}
    /\ ProtocolThreshold \in Nat /\ ServiceThreshold \in Nat
    /\ MaxCount \in Nat

VARIABLES
    state,                \* c.state
    connectionFailures, totalConnections, protocolFailures, serviceFailures,
    successes,            \* RecordSuccess calls since the last reset (history)
    elapsed,              \* time.Since(c.lastFailureTime) > c.resetTimeout
    pc,                   \* where each caller is in AllowRequest
    answer                \* what AllowRequest last returned to each caller

counters == <<connectionFailures, totalConnections, protocolFailures, serviceFailures,
              successes>>
vars == <<state, counters, elapsed, pc, answer>>

TypeOK ==
    /\ state \in {"closed", "open", "half-open"}
    /\ connectionFailures \in 0..MaxCount /\ totalConnections \in 0..MaxCount
    /\ protocolFailures \in 0..MaxCount /\ serviceFailures \in 0..MaxCount
    /\ successes \in 0..MaxCount
    /\ elapsed \in BOOLEAN
    /\ pc \in [Callers -> {"idle", "upgrade", "reread"}]
    /\ answer \in [Callers -> {"none", "allowed", "denied"}]

Init ==
    /\ state = "closed"
    /\ connectionFailures = 0 /\ totalConnections = 0
    /\ protocolFailures = 0 /\ serviceFailures = 0
    /\ successes = 0
    /\ elapsed = TRUE     \* lastFailureTime is the zero time
    /\ pc = [c \in Callers |-> "idle"]
    /\ answer = [c \in Callers |-> "none"]

\* The test of checkThresholds.  0/0 is NaN and exceeds nothing.
Exceeded(failures, total, protocol, service) ==
    \/ failures * Scale > RateThreshold * total
    \/ protocol > ProtocolThreshold
    \/ service > ServiceThreshold

OverThreshold ==
    Exceeded(connectionFailures, totalConnections, protocolFailures, serviceFailures)
-----------------------------------------------------------------------------

\* The tail of the three Record...Failure methods, after their increments.
FailureRecorded ==
    /\ elapsed' = FALSE
    /\ state' = IF state # "open" /\ OverThreshold' THEN "open" ELSE state
    /\ UNCHANGED <<pc, answer>>

RecordConnectionFailure ==
    /\ totalConnections < MaxCount /\ connectionFailures < MaxCount
    /\ connectionFailures' = connectionFailures + 1
    /\ totalConnections' = totalConnections + 1
    /\ UNCHANGED <<protocolFailures, serviceFailures, successes>>
    /\ FailureRecorded

RecordProtocolFailure ==
    /\ protocolFailures < MaxCount
    /\ protocolFailures' = protocolFailures + 1
    /\ UNCHANGED <<connectionFailures, totalConnections, serviceFailures, successes>>
    /\ FailureRecorded

RecordServiceFailure ==
    /\ serviceFailures < MaxCount
    /\ serviceFailures' = serviceFailures + 1
    /\ UNCHANGED <<connectionFailures, totalConnections, protocolFailures, successes>>
    /\ FailureRecorded

\* Mutants: counters taken back one by one; one counter not reset.
RecordSuccessDecrements ==
    /\ state = "half-open"
    /\ state' = "closed"
    /\ serviceFailures' = serviceFailures - 1
    /\ protocolFailures' = protocolFailures - 1
    /\ UNCHANGED <<connectionFailures, totalConnections, successes, elapsed, pc, answer>>

RecordSuccessKeepsService ==
    /\ state = "half-open"
    /\ state' = "closed"
    /\ connectionFailures' = 0 /\ totalConnections' = 0 /\ protocolFailures' = 0
    /\ successes' = 0
    /\ UNCHANGED <<serviceFailures, elapsed, pc, answer>>

\* A success closes a half-open breaker and clears its counters.
RecordSuccess ==
    /\ state = "half-open"
    /\ state' = "closed"
    /\ connectionFailures' = 0 /\ totalConnections' = 0
    /\ protocolFailures' = 0 /\ serviceFailures' = 0
    /\ successes' = 0
    /\ UNCHANGED <<elapsed, pc, answer>>

\* In any other state it is not counted, not even in totalConnections.
RecordSuccessIgnored ==
    /\ state # "half-open" /\ successes < MaxCount
    /\ successes' = successes + 1
    /\ UNCHANGED <<state, connectionFailures, totalConnections, protocolFailures,
                   serviceFailures, elapsed, pc, answer>>

\* resetTimeout passes since the last failure.
Elapse ==
    /\ ~elapsed
    /\ elapsed' = TRUE
    /\ UNCHANGED <<state, counters, pc, answer>>
-----------------------------------------------------------------------------
Answer(c, granted) ==
    answer' = [answer EXCEPT ![c] = IF granted THEN "allowed" ELSE "denied"]

\* First section, under the read lock.
AllowAtOnce(c) ==
    /\ pc[c] = "idle" /\ (state # "open" \/ ~elapsed)
    /\ Answer(c, state # "open")
    /\ UNCHANGED <<state, counters, elapsed, pc>>

AllowUpgrade(c) ==
    /\ pc[c] = "idle" /\ state = "open" /\ elapsed
    /\ pc' = [pc EXCEPT ![c] = "upgrade"]
    /\ UNCHANGED <<state, counters, elapsed, answer>>

\* Mutants: no second test under the write lock; no assignment.
AllowHalfOpenUnchecked(c) ==
    /\ pc[c] = "upgrade"
    /\ state' = "half-open"
    /\ pc' = [pc EXCEPT ![c] = "reread"]
    /\ UNCHANGED <<counters, elapsed, answer>>

AllowHalfOpenForgotten(c) ==
    /\ pc[c] = "upgrade"
    /\ pc' = [pc EXCEPT ![c] = "reread"]
    /\ UNCHANGED <<state, counters, elapsed, answer>>

\* Second section, under the write lock: the test is made again.
AllowHalfOpen(c) ==
    /\ pc[c] = "upgrade"
    /\ state' = IF state = "open" /\ elapsed THEN "half-open" ELSE state
    /\ pc' = [pc EXCEPT ![c] = "reread"]
    /\ UNCHANGED <<counters, elapsed, answer>>

\* Mutant: the state is not read again.
AllowRereadGrants(c) ==
    /\ pc[c] = "reread"
    /\ Answer(c, TRUE)
    /\ pc' = [pc EXCEPT ![c] = "idle"]
    /\ UNCHANGED <<state, counters, elapsed>>

\* Third section, under the read lock: answer with the state as it is now.
AllowReread(c) ==
    /\ pc[c] = "reread"
    /\ Answer(c, state = "half-open")
    /\ pc' = [pc EXCEPT ![c] = "idle"]
    /\ UNCHANGED <<state, counters, elapsed>>

AllowRequest(c) ==
    AllowAtOnce(c) \/ AllowUpgrade(c) \/ AllowHalfOpen(c) \/ AllowReread(c)

Next ==
    \/ RecordConnectionFailure \/ RecordProtocolFailure \/ RecordServiceFailure
    \/ RecordSuccess \/ RecordSuccessIgnored \/ Elapse
    \/ \E c \in Callers : AllowRequest(c)

Spec == Init /\ [][Next]_vars

(***************************************************************************)
(* Time passes and callers keep asking.  Failures recorded while the       *)
(* breaker is open come from requests admitted before it opened; MaxCount  *)
(* makes them finitely many, as they are in the program.                   *)
(***************************************************************************)
Fairness == WF_vars(Elapse) /\ \A c \in Callers : WF_vars(AllowRequest(c))
FairSpec == Spec /\ Fairness
-----------------------------------------------------------------------------
(* The breaker is closed exactly when no threshold is exceeded: half-open  *)
(* keeps the counters that opened it, so one more failure reopens it       *)
(* whatever its kind, and only a success in half-open clears them.         *)
ClosedIffWithinThresholds == (state = "closed") <=> ~OverThreshold

FailureStep ==
    \/ connectionFailures' > connectionFailures
    \/ protocolFailures' > protocolFailures
    \/ serviceFailures' > serviceFailures

(* The state machine of a breaker: an open breaker half-opens only after   *)
(* the reset timeout has run from the LAST failure, even when a failure    *)
(* slips into the gap between AllowRequest's two locks, and it never       *)
(* closes without passing through half-open, where one failure of any kind *)
(* reopens it, also of a kind that was below its own threshold.            *)
LegalTransitions ==
    [][/\ \/ state' = state
          \/ state = "closed" /\ state' = "open"
          \/ state = "open" /\ state' = "half-open" /\ elapsed
          \/ state = "half-open" /\ state' \in {"open", "closed"}
       /\ state = "half-open" /\ FailureStep => state' = "open"]_vars

(* No request is let through while the breaker is open at the moment the   *)
(* answer is given, although another caller may have reopened it after     *)
(* this one half-opened it.                                                *)
NotAllowedWhileOpen ==
    [][\A c \in Callers :
        answer[c] # "allowed" /\ answer'[c] = "allowed" => state # "open"]_vars

(* The comment at reliability_manager.go:170 says that checkThresholds      *)
(* computes the failure rate: a connection failure opens the breaker only  *)
(* if the failures exceed the threshold's share of all outcomes recorded.  *)
OpensAtFailureRate ==
    [][state = "closed" /\ state' = "open" /\ connectionFailures' > connectionFailures
       => connectionFailures' * Scale
              > RateThreshold * (connectionFailures' + successes)]_vars

(* An open breaker does not stay open for ever once failures stop.         *)
OpenIsLeft == (state = "open") ~> (state # "open")
=============================================================================
