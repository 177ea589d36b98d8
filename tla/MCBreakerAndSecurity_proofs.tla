---------------------- MODULE MCBreakerAndSecurity_proofs ----------------------
(***************************************************************************)
(* Proofs about CircuitBreaker for any callers, thresholds and bound.      *)
(* About what decides what is let through: the security manager and the    *)
(* permissions, the connection checks and the DoS protector, for any       *)
(* publishers, connections, users and limits.  And about what governs:     *)
(* configurations, protocols, policies and errors, for any keys, names,    *)
(* versions, policies and callers.                                         *)
(***************************************************************************)
EXTENDS MCBreakerAndSecurity, TLAPS, SequenceTheorems, FiniteSetTheorems, WellFoundedInduction

(* The strengthening: totalConnections counts failures only, so it equals  *)
(* connectionFailures.  Without this a failure of another kind recorded by *)
(* an open breaker could bring the connection rate below its threshold.    *)
IInv == TypeOK /\ ClosedIffWithinThresholds /\ connectionFailures = totalConnections

(* Comparing a * m with b * m is comparing a with b.                       *)
LEMMA CancelFactor ==
    ASSUME NEW a \in Nat, NEW b \in Nat, NEW m \in Nat
    PROVE  m * a > b * m <=> m > 0 /\ a > b
<1>1. CASE m = 0
  BY <1>1
<1>2. CASE m > 0 /\ a > b
  <2>1. PICK d \in Nat : a = b + d /\ d > 0
    <3>1. a - b \in Nat /\ a = b + (a - b) /\ a - b > 0
      BY <1>2
    <3> QED BY <3>1
  <2>2. m * a = m * b + m * d
    BY <2>1
  <2>3. m * d > 0 /\ m * b = b * m /\ m * b \in Nat /\ m * d \in Nat
    BY <1>2, <2>1
  <2> QED BY <1>2, <2>2, <2>3
<1>3. CASE a <= b
  <2>1. PICK d \in Nat : b = a + d
    <3>1. b - a \in Nat /\ b = a + (b - a)
      BY <1>3
    <3> QED BY <3>1
  <2>2. b * m = m * a + m * d /\ m * a \in Nat /\ m * d \in Nat
    BY <2>1
  <2> QED BY <1>3, <2>2
<1> QED BY <1>1, <1>2, <1>3

(* More failures never bring the counters back within the thresholds.      *)
LEMMA ExceededGrows ==
    ASSUME NEW k \in Nat, NEW p \in Nat, NEW s \in Nat,
           NEW k2 \in Nat, NEW p2 \in Nat, NEW s2 \in Nat,
           k <= k2, p <= p2, s <= s2, Exceeded(k, k, p, s)
    PROVE  Exceeded(k2, k2, p2, s2)
<1> USE BreakerAssumption DEF BreakerAssumption
<1>1. CASE k * Scale > RateThreshold * k
  <2>1. k > 0 /\ Scale > RateThreshold
    BY <1>1, CancelFactor
  <2>2. k2 > 0
    BY <2>1
  <2>3. k2 * Scale > RateThreshold * k2
    BY <2>1, <2>2, CancelFactor
  <2> QED BY <2>3 DEF Exceeded
<1>2. CASE p > ProtocolThreshold
  BY <1>2 DEF Exceeded
<1>3. CASE s > ServiceThreshold
  BY <1>3 DEF Exceeded
<1> QED BY <1>1, <1>2, <1>3 DEF Exceeded

LEMMA ZeroWithin == ~Exceeded(0, 0, 0, 0)
BY BreakerAssumption DEF BreakerAssumption, Exceeded
-----------------------------------------------------------------------------
LEMMA InductiveInit == Init => IInv
<1> SUFFICES ASSUME Init PROVE IInv
  OBVIOUS
<1>1. TypeOK
  BY BreakerAssumption DEF Init, TypeOK, BreakerAssumption
<1>2. ~OverThreshold
  BY ZeroWithin DEF Init, OverThreshold
<1> QED BY <1>1, <1>2 DEF Init, IInv, ClosedIffWithinThresholds

LEMMA FailureStepOK ==
    ASSUME IInv, FailureRecorded,
           connectionFailures' \in 0..MaxCount, totalConnections' = connectionFailures',
           protocolFailures' \in 0..MaxCount, serviceFailures' \in 0..MaxCount,
           successes' = successes,
           connectionFailures' >= connectionFailures,
           protocolFailures' >= protocolFailures, serviceFailures' >= serviceFailures
    PROVE  IInv'
<1>1. OverThreshold => OverThreshold'
  <2>1. /\ connectionFailures \in Nat /\ connectionFailures' \in Nat
        /\ protocolFailures \in Nat /\ protocolFailures' \in Nat
        /\ serviceFailures \in Nat /\ serviceFailures' \in Nat
    BY DEF IInv, TypeOK
  <2> QED BY <2>1, ExceededGrows DEF IInv, OverThreshold
<1>2. state' = IF state # "open" /\ OverThreshold' THEN "open" ELSE state
  BY DEF FailureRecorded
<1>3. ClosedIffWithinThresholds'
  BY <1>1, <1>2 DEF IInv, TypeOK, ClosedIffWithinThresholds
<1>4. TypeOK'
  BY <1>2 DEF IInv, TypeOK, FailureRecorded
<1> QED BY <1>3, <1>4 DEF IInv

LEMMA InductiveStep == IInv /\ [Next]_vars => IInv'
<1> SUFFICES ASSUME IInv, [Next]_vars PROVE IInv'
  OBVIOUS
<1>0. MaxCount \in Nat
  BY BreakerAssumption DEF BreakerAssumption
<1>1. CASE RecordConnectionFailure
  BY <1>0, <1>1, FailureStepOK DEF RecordConnectionFailure, IInv, TypeOK
<1>2. CASE RecordProtocolFailure
  BY <1>0, <1>2, FailureStepOK DEF RecordProtocolFailure, IInv, TypeOK
<1>3. CASE RecordServiceFailure
  BY <1>0, <1>3, FailureStepOK DEF RecordServiceFailure, IInv, TypeOK
<1>4. CASE RecordSuccess
  <2>1. TypeOK'
    BY <1>0, <1>4 DEF RecordSuccess, IInv, TypeOK
  <2>2. ~OverThreshold'
    BY <1>4, ZeroWithin DEF RecordSuccess, OverThreshold
  <2> QED BY <1>4, <2>1, <2>2 DEF RecordSuccess, IInv, ClosedIffWithinThresholds
<1>5. CASE RecordSuccessIgnored
  BY <1>0, <1>5
  DEF RecordSuccessIgnored, IInv, TypeOK, ClosedIffWithinThresholds, OverThreshold
<1>6. CASE Elapse \/ UNCHANGED vars
  BY <1>6
  DEF Elapse, vars, counters, IInv, TypeOK, ClosedIffWithinThresholds, OverThreshold
<1>7. ASSUME NEW c \in Callers, AllowRequest(c) PROVE IInv'
  <2>1. UNCHANGED counters /\ OverThreshold' = OverThreshold
    BY <1>7 DEF AllowRequest, AllowAtOnce, AllowUpgrade, AllowHalfOpen, AllowReread,
                counters, OverThreshold
  <2>2. TypeOK'
    BY <1>7 DEF AllowRequest, AllowAtOnce, AllowUpgrade, AllowHalfOpen, AllowReread,
                Answer, counters, IInv, TypeOK
  <2>3. (state' = "closed") = (state = "closed")
    BY <1>7 DEF AllowRequest, AllowAtOnce, AllowUpgrade, AllowHalfOpen, AllowReread
  <2> QED BY <2>1, <2>2, <2>3 DEF IInv, ClosedIffWithinThresholds, counters
<1> QED BY <1>1, <1>2, <1>3, <1>4, <1>5, <1>6, <1>7 DEF Next

LEMMA Inductive == Spec => []IInv
BY InductiveInit, InductiveStep, PTL DEF Spec

(* The variables keep their types.                                         *)
THEOREM TypeCorrect == Spec => []TypeOK
BY Inductive, PTL DEF IInv

(* A breaker is closed exactly while its counters are within the           *)
(* thresholds, for all thresholds and however the callers interleave.      *)
THEOREM ClosedIff == Spec => []ClosedIffWithinThresholds
BY Inductive, PTL DEF IInv
-----------------------------------------------------------------------------
(* Open, half-open, closed: the breaker takes no other transitions, and    *)
(* leaves open only when the reset timeout has run from the last failure;  *)
(* a failure of any kind reopens a half-open breaker, because the counters *)
(* that opened it are still over a threshold and can only have grown.      *)
THEOREM TransitionsLegal == Spec => LegalTransitions
<1>1. IInv /\ [Next]_vars =>
        [\/ state' = state
         \/ state = "closed" /\ state' = "open"
         \/ state = "open" /\ state' = "half-open" /\ elapsed
         \/ state = "half-open" /\ state' \in {"open", "closed"}]_vars
  BY DEF IInv, TypeOK, Next, RecordConnectionFailure, RecordProtocolFailure,
         RecordServiceFailure, FailureRecorded, RecordSuccess, RecordSuccessIgnored,
         Elapse, AllowRequest, AllowAtOnce, AllowUpgrade, AllowHalfOpen, AllowReread
<1>2. IInv /\ IInv' /\ [Next]_vars =>
        [state = "half-open" /\ FailureStep => state' = "open"]_vars
  <2> SUFFICES ASSUME IInv, IInv', Next, state = "half-open", FailureStep
               PROVE  state' = "open"
    BY DEF FailureStep, vars, counters, IInv, TypeOK
  <2>1. CASE RecordConnectionFailure \/ RecordProtocolFailure \/ RecordServiceFailure
    <3>1. state' = IF state # "open" /\ OverThreshold' THEN "open" ELSE state
      BY <2>1 DEF RecordConnectionFailure, RecordProtocolFailure, RecordServiceFailure,
                  FailureRecorded
    <3>2. state' # "closed"
      BY <3>1
    <3>3. OverThreshold'
      BY <3>2 DEF IInv, ClosedIffWithinThresholds
    <3> QED BY <3>1, <3>3
  <2>2. CASE RecordSuccess
    BY <2>2 DEF RecordSuccess, FailureStep, IInv, TypeOK
  <2>3. ASSUME \/ RecordSuccessIgnored \/ Elapse
               \/ \E c \in Callers : AllowRequest(c)
        PROVE  FALSE
    <3>1. /\ connectionFailures' = connectionFailures
          /\ protocolFailures' = protocolFailures
          /\ serviceFailures' = serviceFailures
      BY <2>3 DEF RecordSuccessIgnored, Elapse, counters, AllowRequest, AllowAtOnce,
                  AllowUpgrade, AllowHalfOpen, AllowReread
    <3> QED BY <3>1 DEF FailureStep, IInv, TypeOK
  <2> QED BY <2>1, <2>2, <2>3 DEF Next
<1>3. IInv /\ IInv' /\ [Next]_vars =>
        [/\ \/ state' = state
            \/ state = "closed" /\ state' = "open"
            \/ state = "open" /\ state' = "half-open" /\ elapsed
            \/ state = "half-open" /\ state' \in {"open", "closed"}
         /\ state = "half-open" /\ FailureStep => state' = "open"]_vars
  BY <1>1, <1>2
<1> QED BY <1>3, Inductive, PTL DEF Spec, LegalTransitions

(* No caller is let through at a moment when the breaker is open.          *)
THEOREM NotAllowedWhileOpenHolds == Spec => NotAllowedWhileOpen
<1>1. IInv /\ [Next]_vars =>
        [\A c \in Callers :
            answer[c] # "allowed" /\ answer'[c] = "allowed" => state # "open"]_vars
  <2> SUFFICES ASSUME IInv, Next, NEW c \in Callers,
                      answer[c] # "allowed", answer'[c] = "allowed"
               PROVE  state # "open"
    BY DEF vars
  <2>1. CASE UNCHANGED answer
    BY <2>1
  <2>2. ASSUME NEW d \in Callers, AllowAtOnce(d) \/ AllowReread(d)
        PROVE  state # "open"
    <3>1. answer \in [Callers -> {"none", "allowed", "denied"}]
      BY DEF IInv, TypeOK
    <3>2. c = d
      BY <2>2, <3>1 DEF AllowAtOnce, AllowReread, Answer
    <3> QED BY <2>2, <3>1, <3>2 DEF AllowAtOnce, AllowReread, Answer
  <2> QED
    BY <2>1, <2>2
    DEF Next, RecordConnectionFailure, RecordProtocolFailure, RecordServiceFailure,
        FailureRecorded, RecordSuccess, RecordSuccessIgnored, Elapse,
        AllowRequest, AllowUpgrade, AllowHalfOpen
<1> QED BY <1>1, Inductive, PTL DEF Spec, NotAllowedWhileOpen
-----------------------------------------------------------------------------
(* The security manager.  Each publication that was begun is being sent,   *)
(* in the channel, in the hands of the loop, or settled; only settled ones *)
(* have started handlers.                                                  *)
Sending(f) == {p \in Publishers : f[p] = "sending"}
InTheLoop(f) == IF f["events"] = "handling" THEN 1 ELSE 0
Unsettled == Cardinality(Sending(publisher)) + Len(securityEvents) + InTheLoop(loop)

SecurityTypes ==
    /\ securityEvents \in Seq(Publishers) /\ Len(securityEvents) <= EventBufferSize
    /\ securityEventsOpen \in BOOLEAN /\ securityDone \in BOOLEAN /\ timedOut \in BOOLEAN
    /\ securityHandlers \in 0..MaxEventHandlers
    /\ threshold \in 0..MaxThreshold
    /\ mutex \in Publishers \cup {"free"}
    /\ publisher \in [Publishers -> {"idle", "sending", "panicked"}]
    /\ publishes \in 0..MaxPublishes
    /\ loop \in [Security!Loops -> {"created", "running", "handling", "exited"}]
    /\ securityLate \subseteq Security!Loops
    /\ closer \in {"open", "flagged", "disabled", "waiting", "waited", "closed"}

HandlersCounted ==
    /\ securityRunning \in Nat
    /\ Unsettled <= publishes
    /\ securityRunning <= (publishes - Unsettled) * MaxEventHandlers

(* The wait group holds the loops that run, so that a Close that has       *)
(* waited to the end leaves none, but for those that begin later.          *)
Alive(f) == {l \in Security!Loops : f[l] \in {"running", "handling"}}
LoopsAwaited ==
    /\ securityRegistered = Alive(loop)
    /\ closer \in {"waited", "closed"} /\ ~timedOut => Alive(loop) \subseteq securityLate
    /\ ~securityEventsOpen => closer = "closed"

SecurityInv == SecurityTypes /\ HandlersCounted /\ LoopsAwaited

LEMMA Times ==
    ASSUME NEW a \in Nat, NEW b \in Nat, NEW m \in Nat, a <= b
    PROVE  a * m <= b * m /\ (a + 1) * m = a * m + m /\ a * m \in Nat
<1>1. PICK d \in Nat : b = a + d
  <2>1. b - a \in Nat /\ b = a + (b - a)
    OBVIOUS
  <2> QED BY <2>1
<1>2. b * m = a * m + d * m /\ d * m \in Nat /\ a * m \in Nat
  BY <1>1
<1>3. (a + 1) * m = a * m + m
  OBVIOUS
<1> QED BY <1>2, <1>3

LEMMA SendingIsFinite ==
    \A f : IsFiniteSet(Sending(f)) /\ Cardinality(Sending(f)) \in Nat
<1>1. \A f : IsFiniteSet(Sending(f))
  BY FS_Subset, SecurityAssumption DEF Sending, SecurityAssumption
<1> QED BY <1>1, FS_CardinalityType

LEMMA UnsettledIsNat ==
    ASSUME SecurityTypes
    PROVE  /\ Unsettled \in Nat /\ Len(securityEvents) \in Nat
           /\ InTheLoop(loop) \in 0..1 /\ Cardinality(Sending(publisher)) \in Nat
<1>1. Len(securityEvents) \in Nat
  BY LenProperties DEF SecurityTypes
<1> QED BY <1>1, SendingIsFinite DEF Unsettled, InTheLoop

(* A publisher that begins or ends to send.                                *)
LEMMA SendingMoves ==
    ASSUME publisher \in [Publishers -> {"idle", "sending", "panicked"}],
           NEW p \in Publishers, NEW to \in {"idle", "sending", "panicked"},
           publisher' = [publisher EXCEPT ![p] = to]
    PROVE  Cardinality(Sending(publisher'))
            = Cardinality(Sending(publisher)) - (IF publisher[p] = "sending" THEN 1 ELSE 0)
                                              + (IF to = "sending" THEN 1 ELSE 0)
<1> DEFINE S == Sending(publisher)
           T == Sending(publisher')
<1>1. \A q \in Publishers : publisher'[q] = IF q = p THEN to ELSE publisher[q]
  OBVIOUS
<1>2. IsFiniteSet(S) /\ Cardinality(S) \in Nat
  BY SendingIsFinite
<1>3. CASE publisher[p] = "sending" /\ to # "sending"
  <2>0. T = S \ {p}
    BY <1>1, <1>3 DEF Sending
  <2>1. p \in S
    BY <1>3 DEF Sending
  <2>2. Cardinality(S \ {p}) = Cardinality(S) - 1
    BY <1>2, <2>1, FS_RemoveElement
  <2>3. Cardinality(T) = Cardinality(S \ {p})
    BY <2>0, Zenon
  <2> QED BY <1>2, <1>3, <2>2, <2>3
<1>4. CASE publisher[p] # "sending" /\ to = "sending"
  <2>0. T = S \cup {p}
    BY <1>1, <1>4 DEF Sending
  <2>1. p \notin S
    BY <1>4 DEF Sending
  <2>2. Cardinality(S \cup {p}) = Cardinality(S) + 1
    BY <1>2, <2>1, FS_AddElement
  <2>3. Cardinality(T) = Cardinality(S \cup {p})
    BY <2>0, Zenon
  <2> QED BY <1>2, <1>4, <2>2, <2>3
<1>5. CASE publisher[p] = "sending" <=> to = "sending"
  <2>1. T = S
    BY <1>1, <1>5 DEF Sending
  <2> QED BY <1>2, <1>5, <2>1
<1> QED BY <1>3, <1>4, <1>5

LEMMA BoundGrows ==
    ASSUME NEW p \in Nat, NEW u \in Nat, NEW q \in Nat, NEW v \in Nat, NEW m \in Nat,
           NEW r \in Nat, NEW h \in 0..m, NEW s,
           u <= p, v <= q, r <= (p - u) * m,
           \/ p - u <= q - v /\ s = r
           \/ p - u + 1 = q - v /\ s = r + h
    PROVE  s \in Nat /\ s <= (q - v) * m
<1>1. PICK a \in Nat : a = p - u
  OBVIOUS
<1>2. PICK b \in Nat : b = q - v
  OBVIOUS
<1>3. a <= b /\ (s = r \/ (a + 1 = b /\ s = r + h))
  <2>1. CASE p - u <= q - v /\ s = r
    BY <1>1, <1>2, <2>1
  <2>2. CASE p - u + 1 = q - v /\ s = r + h
    <3>1. a + 1 = b
      BY <1>1, <1>2, <2>2
    <3> QED BY <2>2, <3>1
  <2> QED BY <2>1, <2>2
<1>4. r <= a * m
  BY <1>1
<1>5. /\ a * m <= b * m /\ a * m \in Nat
      /\ (a + 1) * m = a * m + m
  BY <1>3, Times
<1>6. b * m \in Nat
  BY Times
<1>7. s <= b * m
  <2>1. CASE s = r
    BY <2>1, <1>4, <1>5, <1>6
  <2>2. CASE a + 1 = b /\ s = r + h
    BY <2>2, <1>4, <1>5, <1>6
  <2> QED BY <1>3, <2>1, <2>2
<1> QED BY <1>2, <1>3, <1>7

(* What is settled only grows, and by one when handlers are started.       *)
LEMMA HandlersCountedStays ==
    ASSUME SecurityTypes, HandlersCounted, SecurityTypes',
           NEW v, v = Unsettled',
           v <= publishes',
           \/ publishes - Unsettled <= publishes' - v /\ securityRunning' = securityRunning
           \/ /\ publishes - Unsettled + 1 = publishes' - v
              /\ securityRunning' = securityRunning + securityHandlers
    PROVE  HandlersCounted'
<1>1. publishes \in Nat /\ publishes' \in Nat
  BY SecurityAssumption DEF SecurityTypes, SecurityAssumption
<1>2. Unsettled \in Nat /\ v \in Nat
  <2>1. Len(securityEvents) \in Nat /\ Len(securityEvents') \in Nat
    BY LenProperties DEF SecurityTypes
  <2>2. Cardinality(Sending(publisher)) \in Nat /\ Cardinality(Sending(publisher')) \in Nat
    BY SendingIsFinite
  <2> QED BY <2>1, <2>2 DEF Unsettled, InTheLoop
<1>3. MaxEventHandlers \in Nat /\ securityHandlers \in 0..MaxEventHandlers
  BY SecurityAssumption DEF SecurityTypes, SecurityAssumption
<1>4. /\ Unsettled <= publishes /\ securityRunning \in Nat
      /\ securityRunning <= (publishes - Unsettled) * MaxEventHandlers
  BY DEF HandlersCounted
<1>5. securityRunning' \in Nat /\ securityRunning' <= (publishes' - v) * MaxEventHandlers
  BY <1>1, <1>2, <1>3, <1>4, BoundGrows
<1> QED BY <1>5 DEF HandlersCounted

LEMMA SecurityInit == Security!Init => SecurityInv
<1> SUFFICES ASSUME Security!Init PROVE SecurityInv
  OBVIOUS
<1> USE DEF Security!Init
<1>1. threshold \in 0..MaxThreshold
  BY SecurityAssumption DEF SecurityAssumption
<1>0. securityEvents \in Seq(Publishers) /\ Len(securityEvents) = 0 /\ loop["events"] = "created"
  BY DEF Security!Loops
<1>2. SecurityTypes
  <2>1. securityEvents \in Seq(Publishers) /\ Len(securityEvents) <= EventBufferSize
    BY <1>0, SecurityAssumption DEF SecurityAssumption
  <2>2. securityHandlers \in 0..MaxEventHandlers /\ publishes \in 0..MaxPublishes
    BY SecurityAssumption DEF SecurityAssumption
  <2>3. /\ publisher \in [Publishers -> {"idle", "sending", "panicked"}]
        /\ loop \in [Security!Loops -> {"created", "running", "handling", "exited"}]
        /\ securityLate \subseteq Security!Loops
    OBVIOUS
  <2> QED BY <1>1, <2>1, <2>2, <2>3 DEF SecurityTypes
<1>3. Sending(publisher) = {}
  BY DEF Sending
<1>4. Unsettled = 0
  <2>1. Cardinality(Sending(publisher)) = 0
    BY <1>3, FS_EmptySet, Zenon
  <2> QED BY <1>0, <2>1 DEF Unsettled, InTheLoop
<1>5. HandlersCounted
  <2>1. MaxEventHandlers \in Nat /\ 0 * MaxEventHandlers = 0
    BY SecurityAssumption DEF SecurityAssumption
  <2> QED BY <1>4, <2>1 DEF HandlersCounted
<1>6. LoopsAwaited
  BY DEF LoopsAwaited, Alive
<1> QED BY <1>2, <1>5, <1>6 DEF SecurityInv

(* The steps of Close and of the handlers' list settle nothing.            *)
LEMMA NothingSettled ==
    ASSUME SecurityInv, SecurityTypes', UNCHANGED <<publisher, publishes, securityRunning>>,
           Len(securityEvents') + InTheLoop(loop') = Len(securityEvents) + InTheLoop(loop)
    PROVE  HandlersCounted'
<1> DEFINE v == Unsettled'
<1>1. /\ Len(securityEvents) \in Nat /\ InTheLoop(loop) \in 0..1
      /\ Cardinality(Sending(publisher)) \in Nat
  BY UnsettledIsNat DEF SecurityInv
<1>2. Len(securityEvents') \in Nat /\ InTheLoop(loop') \in 0..1
  BY LenProperties DEF SecurityTypes, InTheLoop
<1>3. v = Unsettled
  BY <1>1, <1>2 DEF Unsettled
<1>4. publishes \in Nat /\ Unsettled \in Nat /\ Unsettled <= publishes
  BY UnsettledIsNat, SecurityAssumption
  DEF SecurityInv, SecurityTypes, HandlersCounted, SecurityAssumption
<1> HIDE DEF v
<1>5. v <= publishes' /\ publishes - Unsettled <= publishes' - v
  BY <1>3, <1>4
<1>6. v = Unsettled'
  BY DEF v
<1> QED BY <1>5, <1>6, HandlersCountedStays DEF SecurityInv

LEMMA SecurityTypesStep == SecurityTypes /\ Security!Next => SecurityTypes'
<1> SUFFICES ASSUME SecurityTypes, Security!Next PROVE SecurityTypes'
  OBVIOUS
<1> USE DEF SecurityTypes, Security!pubVars, Security!loopVars, Security!closeVars
<1>1. /\ MaxThreshold \in Nat /\ EventBufferSize \in Nat /\ MaxPublishes \in Nat
      /\ MaxEventHandlers \in Nat /\ Len(securityEvents) \in Nat
  BY SecurityAssumption, LenProperties DEF SecurityAssumption
<1>2. CASE Security!AddEventHandler \/ Security!RemoveEventHandler
  BY <1>1, <1>2 DEF Security!AddEventHandler, Security!RemoveEventHandler
<1>3. ASSUME NEW p \in Publishers, Security!Publish(p),
             UNCHANGED <<securityEvents, securityHandlers, Security!loopVars, Security!closeVars>>,
             threshold' \in 0..MaxThreshold, mutex' \in Publishers \cup {"free"}
      PROVE  SecurityTypes'
  BY <1>1, <1>3 DEF Security!Publish
<1>4. ASSUME NEW p \in Publishers, Security!PublishEvent(p) PROVE SecurityTypes'
  BY <1>3, <1>4 DEF Security!PublishEvent
<1>5. ASSUME NEW p \in Publishers, Security!UpdateSecurityLevel(p) PROVE SecurityTypes'
  <2>1. threshold' \in 0..MaxThreshold
    BY <1>1, <1>5 DEF Security!UpdateSecurityLevel, Security!Scaled
  <2> QED BY <1>3, <1>5, <2>1 DEF Security!UpdateSecurityLevel
<1>6. ASSUME NEW p \in Publishers, Security!ApplySecurityPolicy(p) PROVE SecurityTypes'
  <2>1. threshold' \in 0..MaxThreshold
    BY <1>1, <1>6 DEF Security!ApplySecurityPolicy
  <2> QED BY <1>3, <1>6, <2>1 DEF Security!ApplySecurityPolicy
<1>7. ASSUME NEW p \in Publishers, NEW how \in {"idle", "panicked"}, Security!EndPublish(p, how),
             securityEvents' \in Seq(Publishers), Len(securityEvents') <= EventBufferSize
      PROVE  SecurityTypes'
  BY <1>7 DEF Security!EndPublish
<1>8. ASSUME NEW p \in Publishers, Security!Send(p) PROVE SecurityTypes'
  <2>1. securityEvents' \in Seq(Publishers) /\ Len(securityEvents') = Len(securityEvents) + 1
    BY <1>8, AppendProperties DEF Security!Send
  <2>2. Len(securityEvents') <= EventBufferSize
    BY <1>1, <1>8, <2>1 DEF Security!Send
  <2> QED BY <1>7, <1>8, <2>1, <2>2 DEF Security!Send
<1>9. ASSUME NEW p \in Publishers,
             Security!SendCancelled(p) \/ Security!SendFull(p) \/ Security!SendClosed(p)
      PROVE  SecurityTypes'
  BY <1>7, <1>9 DEF Security!SendCancelled, Security!SendFull, Security!SendClosed
<1>10. ASSUME NEW l \in Security!Loops, Security!LoopBegins(l) \/ Security!LoopExits(l)
       PROVE  SecurityTypes'
  BY <1>10 DEF Security!LoopBegins, Security!LoopExits
<1>11. CASE Security!TakeEvent
  <2>1. securityEvents' \in Seq(Publishers) /\ Len(securityEvents') = Len(securityEvents) - 1
    BY <1>11, HeadTailProperties DEF Security!TakeEvent
  <2>2. Len(securityEvents') <= EventBufferSize
    BY <1>1, <2>1
  <2> QED BY <1>11, <2>1, <2>2 DEF Security!TakeEvent
<1>12. CASE Security!HandleEvent
  BY <1>12 DEF Security!HandleEvent
<1>13. CASE \/ Security!CloseFlag \/ Security!CloseDisable \/ Security!CloseCancel
            \/ Security!CloseWait \/ Security!CloseTimeout \/ Security!CloseChannel
  BY <1>13 DEF Security!CloseFlag, Security!CloseDisable, Security!CloseCancel,
         Security!CloseWait, Security!CloseTimeout, Security!CloseChannel
<1> QED BY <1>2, <1>4, <1>5, <1>6, <1>8, <1>9, <1>10, <1>11, <1>12, <1>13 DEF Security!Next

(* A publication that begins, goes on to the channel or is given up.       *)
LEMMA PublicationSettles ==
    ASSUME SecurityInv, SecurityTypes', UNCHANGED <<loop, securityRunning>>,
           NEW p \in Publishers, NEW to \in {"idle", "sending", "panicked"},
           publisher' = [publisher EXCEPT ![p] = to],
           \/ /\ publisher[p] = "idle" /\ publishes' = publishes + 1
              /\ securityEvents' = securityEvents
           \/ /\ publisher[p] = "sending" /\ to # "sending" /\ publishes' = publishes
              /\ Len(securityEvents') \in {Len(securityEvents), Len(securityEvents) + 1}
    PROVE  HandlersCounted'
<1> DEFINE m == Cardinality(Sending(publisher))
           n == Cardinality(Sending(publisher'))
           v == Unsettled'
<1>1. /\ Len(securityEvents) \in Nat /\ InTheLoop(loop) \in 0..1 /\ m \in Nat
  BY UnsettledIsNat DEF SecurityInv
<1>2. Len(securityEvents') \in Nat /\ n \in Nat
  BY LenProperties, SendingIsFinite DEF SecurityTypes
<1>3. n = m - (IF publisher[p] = "sending" THEN 1 ELSE 0) + (IF to = "sending" THEN 1 ELSE 0)
  BY SendingMoves DEF SecurityInv, SecurityTypes
<1>4. /\ v = n + Len(securityEvents') + InTheLoop(loop)
      /\ Unsettled = m + Len(securityEvents) + InTheLoop(loop)
  BY DEF Unsettled
<1>5. publishes \in Nat /\ Unsettled <= publishes
  BY SecurityAssumption DEF SecurityInv, SecurityTypes, HandlersCounted, SecurityAssumption
<1> HIDE DEF m, n, v
<1>6. v <= publishes' /\ publishes - Unsettled <= publishes' - v
  <2>1. CASE publisher[p] = "idle" /\ publishes' = publishes + 1 /\ securityEvents' = securityEvents
    <3>1. n <= m + 1 /\ Len(securityEvents') = Len(securityEvents)
      BY <1>1, <1>3, <2>1
    <3> QED BY <1>1, <1>2, <1>4, <1>5, <2>1, <3>1
  <2>2. CASE /\ publisher[p] = "sending" /\ to # "sending" /\ publishes' = publishes
             /\ Len(securityEvents') \in {Len(securityEvents), Len(securityEvents) + 1}
    <3>1. n = m - 1
      BY <1>1, <1>3, <2>2
    <3> QED BY <1>1, <1>2, <1>4, <1>5, <2>2, <3>1
  <2> QED BY <2>1, <2>2
<1>7. v = Unsettled'
  BY DEF v
<1> QED BY <1>6, <1>7, HandlersCountedStays DEF SecurityInv

LEMMA HandlersCountedStep ==
    SecurityInv /\ SecurityTypes' /\ Security!Next => HandlersCounted'
<1> SUFFICES ASSUME SecurityInv, SecurityTypes', Security!Next PROVE HandlersCounted'
  OBVIOUS
<1> USE DEF Security!pubVars, Security!loopVars, Security!closeVars
<1>1. CASE \/ Security!AddEventHandler \/ Security!RemoveEventHandler
           \/ Security!CloseFlag \/ Security!CloseDisable \/ Security!CloseCancel
           \/ Security!CloseWait \/ Security!CloseTimeout \/ Security!CloseChannel
  <2>1. UNCHANGED <<publisher, publishes, securityRunning, securityEvents, loop>>
    BY <1>1 DEF Security!AddEventHandler, Security!RemoveEventHandler, Security!CloseFlag,
           Security!CloseDisable, Security!CloseCancel, Security!CloseWait,
           Security!CloseTimeout, Security!CloseChannel
  <2> QED BY <2>1, NothingSettled
<1>2. ASSUME NEW p \in Publishers,
             \/ Security!PublishEvent(p) \/ Security!UpdateSecurityLevel(p)
             \/ Security!ApplySecurityPolicy(p)
      PROVE  HandlersCounted'
  <2>1. Security!Publish(p) /\ UNCHANGED <<securityEvents, loop, securityRunning>>
    BY <1>2 DEF Security!PublishEvent, Security!UpdateSecurityLevel, Security!ApplySecurityPolicy
  <2>2. PICK to \in {"idle", "sending", "panicked"} : publisher' = [publisher EXCEPT ![p] = to]
    BY <2>1 DEF Security!Publish
  <2>3. publisher[p] = "idle" /\ publishes' = publishes + 1
    BY <2>1 DEF Security!Publish
  <2> QED BY <2>1, <2>2, <2>3, PublicationSettles
<1>3. ASSUME NEW p \in Publishers,
             \/ Security!Send(p) \/ Security!SendCancelled(p)
             \/ Security!SendFull(p) \/ Security!SendClosed(p)
      PROVE  HandlersCounted'
  <2>1. PICK to \in {"idle", "panicked"} : Security!EndPublish(p, to)
    BY <1>3 DEF Security!Send, Security!SendCancelled, Security!SendFull, Security!SendClosed
  <2>2. Len(securityEvents') \in {Len(securityEvents), Len(securityEvents) + 1}
    <3>1. CASE Security!Send(p)
      BY <3>1, AppendProperties DEF Security!Send, SecurityInv, SecurityTypes
    <3>2. CASE Security!SendCancelled(p) \/ Security!SendFull(p) \/ Security!SendClosed(p)
      BY <3>2 DEF Security!SendCancelled, Security!SendFull, Security!SendClosed
    <3> QED BY <1>3, <3>1, <3>2
  <2>3. /\ publisher' = [publisher EXCEPT ![p] = to] /\ publisher[p] = "sending"
        /\ UNCHANGED <<loop, securityRunning, publishes>>
    BY <2>1 DEF Security!EndPublish
  <2> QED BY <2>2, <2>3, PublicationSettles
<1>4. ASSUME NEW l \in Security!Loops, Security!LoopBegins(l) \/ Security!LoopExits(l)
      PROVE  HandlersCounted'
  <2>1. /\ UNCHANGED <<publisher, publishes, securityRunning, securityEvents>>
        /\ InTheLoop(loop') = InTheLoop(loop)
    BY <1>4 DEF Security!LoopBegins, Security!LoopExits, InTheLoop, SecurityInv, SecurityTypes,
           Security!Loops
  <2> QED BY <2>1, NothingSettled
<1>5. CASE Security!TakeEvent
  <2>1. InTheLoop(loop) = 0 /\ InTheLoop(loop') = 1
    BY <1>5 DEF Security!TakeEvent, InTheLoop, SecurityInv, SecurityTypes, Security!Loops
  <2>2. Len(securityEvents') = Len(securityEvents) - 1 /\ Len(securityEvents) \in Nat
    BY <1>5, HeadTailProperties, LenProperties DEF Security!TakeEvent, SecurityInv, SecurityTypes
  <2>3. UNCHANGED <<publisher, publishes, securityRunning>>
    BY <1>5 DEF Security!TakeEvent
  <2> QED BY <2>1, <2>2, <2>3, NothingSettled
<1>6. CASE Security!HandleEvent
  <2> DEFINE v == Unsettled'
  <2>1. InTheLoop(loop) = 1 /\ InTheLoop(loop') = 0
    BY <1>6 DEF Security!HandleEvent, InTheLoop, SecurityInv, SecurityTypes, Security!Loops
  <2>2. /\ UNCHANGED <<publisher, publishes, securityEvents>>
        /\ securityRunning' = securityRunning + securityHandlers
    BY <1>6 DEF Security!HandleEvent
  <2>3. v = Unsettled - 1
    BY <2>1, <2>2, UnsettledIsNat DEF Unsettled, SecurityInv
  <2>4. publishes \in Nat /\ Unsettled \in Nat /\ Unsettled <= publishes
    BY UnsettledIsNat, SecurityAssumption
    DEF SecurityInv, SecurityTypes, HandlersCounted, SecurityAssumption
  <2> HIDE DEF v
  <2>5. v <= publishes' /\ publishes - Unsettled + 1 = publishes' - v
    BY <2>2, <2>3, <2>4
  <2>6. v = Unsettled'
    BY DEF v
  <2> QED BY <2>2, <2>5, <2>6, HandlersCountedStays DEF SecurityInv
<1> QED BY <1>1, <1>2, <1>3, <1>4, <1>5, <1>6 DEF Security!Next

LEMMA LoopsAwaitedStep == SecurityInv /\ Security!Next => LoopsAwaited'
<1> SUFFICES ASSUME SecurityInv, Security!Next PROVE LoopsAwaited'
  OBVIOUS
<1> USE DEF SecurityInv, SecurityTypes, LoopsAwaited, Alive,
            Security!pubVars, Security!loopVars, Security!closeVars
<1>1. ASSUME UNCHANGED <<Security!loopVars, Security!closeVars>>
      PROVE  LoopsAwaited'
  BY <1>1
<1>2. ASSUME \/ Security!AddEventHandler \/ Security!RemoveEventHandler
             \/ \E p \in Publishers :
                \/ Security!PublishEvent(p) \/ Security!UpdateSecurityLevel(p)
                \/ Security!ApplySecurityPolicy(p) \/ Security!Send(p)
                \/ Security!SendCancelled(p) \/ Security!SendFull(p) \/ Security!SendClosed(p)
      PROVE  LoopsAwaited'
  <2>1. UNCHANGED <<Security!loopVars, Security!closeVars>>
    BY <1>2 DEF Security!AddEventHandler, Security!RemoveEventHandler, Security!PublishEvent,
           Security!UpdateSecurityLevel, Security!ApplySecurityPolicy, Security!Send,
           Security!SendCancelled, Security!SendFull, Security!SendClosed, Security!EndPublish
  <2> QED BY <1>1, <2>1
<1>3. ASSUME NEW l \in Security!Loops, Security!LoopBegins(l) PROVE LoopsAwaited'
  <2>1. /\ loop' = [loop EXCEPT ![l] = "running"] /\ securityRegistered' = securityRegistered \cup {l}
        /\ UNCHANGED <<securityEventsOpen, closer, timedOut>>
    BY <1>3 DEF Security!LoopBegins
  <2>2. Alive(loop') = Alive(loop) \cup {l}
    BY <2>1
  <2>3. securityLate' = securityLate \cup (IF closer \in {"waited", "closed"} THEN {l} ELSE {})
    BY <1>3 DEF Security!LoopBegins
  <2>4. securityRegistered' = Alive(loop')
    BY <2>1, <2>2
  <2> HIDE DEF Alive
  <2> QED BY <2>1, <2>2, <2>3, <2>4
<1>4. ASSUME NEW l \in Security!Loops, Security!LoopExits(l) PROVE LoopsAwaited'
  <2>1. /\ loop' = [loop EXCEPT ![l] = "exited"] /\ securityRegistered' = securityRegistered \ {l}
        /\ UNCHANGED <<securityEventsOpen, closer, timedOut, securityLate>>
    BY <1>4 DEF Security!LoopExits
  <2>2. Alive(loop') = Alive(loop) \ {l}
    BY <2>1
  <2>3. securityRegistered' = Alive(loop')
    BY <2>1, <2>2
  <2> HIDE DEF Alive
  <2> QED BY <2>1, <2>2, <2>3
<1>5. CASE Security!TakeEvent \/ Security!HandleEvent
  <2>1. PICK to \in {"running", "handling"} : loop' = [loop EXCEPT !["events"] = to]
    BY <1>5 DEF Security!TakeEvent, Security!HandleEvent
  <2>2. /\ loop["events"] \in {"running", "handling"} /\ "events" \in Security!Loops
        /\ UNCHANGED <<securityEventsOpen, closer, timedOut, securityLate, securityRegistered>>
    BY <1>5 DEF Security!TakeEvent, Security!HandleEvent, Security!Loops
  <2>3. Alive(loop') = Alive(loop)
    BY <2>1, <2>2
  <2>4. securityRegistered' = Alive(loop')
    BY <2>2, <2>3
  <2> HIDE DEF Alive
  <2> QED BY <2>2, <2>3, <2>4
<1>6. CASE Security!CloseWait
  <2>1. Alive(loop) = {}
    BY <1>6 DEF Security!CloseWait
  <2> QED BY <1>6, <2>1 DEF Security!CloseWait
<1>7. CASE Security!CloseFlag \/ Security!CloseDisable \/ Security!CloseCancel
           \/ Security!CloseTimeout \/ Security!CloseChannel
  BY <1>7 DEF Security!CloseFlag, Security!CloseDisable, Security!CloseCancel,
         Security!CloseTimeout, Security!CloseChannel
<1> QED BY <1>2, <1>3, <1>4, <1>5, <1>6, <1>7 DEF Security!Next

LEMMA SecurityStep == SecurityInv /\ [Security!Next]_(Security!vars) => SecurityInv'
<1>1. ASSUME SecurityInv, Security!Next PROVE SecurityInv'
  BY <1>1, SecurityTypesStep, HandlersCountedStep, LoopsAwaitedStep DEF SecurityInv
<1>2. ASSUME SecurityInv, UNCHANGED Security!vars PROVE SecurityInv'
  BY <1>2 DEF SecurityInv, SecurityTypes, HandlersCounted, LoopsAwaited, Unsettled, Security!vars
<1> QED BY <1>1, <1>2

LEMMA SecurityShows == SecurityInv => Security!TypeOK /\ Security!QuietAfterClose
<1> SUFFICES ASSUME SecurityInv PROVE Security!TypeOK /\ Security!QuietAfterClose
  OBVIOUS
<1>1. securityRunning \in 0..(MaxPublishes * MaxEventHandlers)
  <2>1. /\ Unsettled \in Nat /\ publishes \in Nat /\ MaxPublishes \in Nat /\ MaxEventHandlers \in Nat
        /\ Unsettled <= publishes /\ publishes <= MaxPublishes
    BY UnsettledIsNat, SecurityAssumption
    DEF SecurityInv, SecurityTypes, HandlersCounted, SecurityAssumption
  <2>2. PICK a \in Nat : a = publishes - Unsettled
    BY <2>1
  <2>3. a * MaxEventHandlers <= MaxPublishes * MaxEventHandlers /\ a * MaxEventHandlers \in Nat
    BY <2>1, <2>2, Times
  <2>4. MaxPublishes * MaxEventHandlers \in Nat
    BY <2>1, Times
  <2>5. securityRunning \in Nat /\ securityRunning <= a * MaxEventHandlers
    BY <2>2 DEF SecurityInv, HandlersCounted
  <2> QED BY <2>3, <2>4, <2>5
<1>2. Security!TypeOK
  BY <1>1 DEF SecurityInv, SecurityTypes, LoopsAwaited, Alive, Security!TypeOK
<1>3. Security!QuietAfterClose
  BY DEF SecurityInv, LoopsAwaited, Alive, Security!QuietAfterClose
<1> QED BY <1>2, <1>3
-----------------------------------------------------------------------------
(* Permissions.  A check that is about to take the lock has seen what is   *)
(* true now, and whether checks were disabled.                             *)
CheckStates ==
    [at : {"locking", "answered"}, asked : Auth!Asked, answer : BOOLEAN,
     switched : BOOLEAN, true : SUBSET BOOLEAN]

RightNow(asked) == Auth!Rightful(users, roles, authEnabled, asked)

AuthTypes ==
    /\ users \in [Users -> (SUBSET Roles) \cup {Auth!NoUser}]
    /\ roles \in [Roles -> (SUBSET Permissions) \cup {Auth!NoRole}]
    /\ authEnabled \in BOOLEAN
    /\ DOMAIN authCheck = Askers
    /\ \A p \in Askers : authCheck[p] = Auth!Idle \/ authCheck[p] \in CheckStates

LookingOn(p) ==
    /\ authCheck[p].at = "locking" =>
        /\ RightNow(authCheck[p].asked) \in authCheck[p].true
        /\ ~authEnabled => authCheck[p].switched
    /\ authCheck[p].at = "answered" =>
        authCheck[p].answer \in authCheck[p].true \/ authCheck[p].switched

AuthInv == AuthTypes /\ \A p \in Askers : LookingOn(p)

LEMMA AuthInit == Auth!Init => AuthInv
<1> SUFFICES ASSUME Auth!Init PROVE AuthInv
  OBVIOUS
<1>1. roles \in [Roles -> (SUBSET Permissions) \cup {Auth!NoRole}]
  BY SecurityAssumption DEF Auth!Init, SecurityAssumption
<1>2. AuthTypes
  BY <1>1 DEF Auth!Init, AuthTypes
<1>3. ASSUME NEW p \in Askers PROVE LookingOn(p)
  BY DEF Auth!Init, Auth!Idle, LookingOn
<1> QED BY <1>2, <1>3 DEF AuthInv

(* What is granted while checks are enabled is what ought to be: roles     *)
(* that were removed give nothing, an administrator has every permission.  *)
LEMMA GrantedIsRightful ==
    ASSUME AuthTypes, NEW asked \in Auth!Asked
    PROVE  Auth!Granted(users, roles, asked) <=> Auth!Rightful(users, roles, TRUE, asked)
<1> DEFINE user == users[asked.user]
           held == IF user = Auth!NoUser THEN {} ELSE {r \in user : roles[r] # Auth!NoRole}
           perms == UNION {IF r = "admin" THEN Permissions ELSE roles[r] : r \in held}
           some == \E r \in held : r = "admin" \/ asked.permission \in roles[r]
<1>1. asked.permission \in Permissions
  BY DEF Auth!Asked
<1>2. asked.permission \in perms <=> some
  <2>1. asked.permission \in perms
          <=> \E r \in held : asked.permission \in IF r = "admin" THEN Permissions ELSE roles[r]
    OBVIOUS
  <2> QED BY <1>1, <2>1
<1>3. CASE user = Auth!NoUser
  <2>1. ~some
    BY <1>3
  <2> QED BY <1>2, <1>3, <2>1 DEF Auth!Granted, Auth!Rightful
<1>4. CASE user # Auth!NoUser
  <2>1. some <=> \E r \in user : roles[r] # Auth!NoRole /\ (r = "admin" \/ asked.permission \in roles[r])
    BY <1>4
  <2>2. Auth!Granted(users, roles, asked) <=> some \/ DefaultPolicy = "allow"
    BY <1>4, <2>1 DEF Auth!Granted
  <2>3. Auth!Rightful(users, roles, TRUE, asked) <=> DefaultPolicy = "allow" \/ asked.permission \in perms
    BY DEF Auth!Rightful
  <2> QED BY <1>2, <2>2, <2>3
<1> QED BY <1>3, <1>4

LEMMA RightIsBoolean == \A asked : RightNow(asked) \in BOOLEAN
BY DEF RightNow, Auth!Rightful

(* Checks under way see every change.                                      *)
LEMMA WitnessedKeeps ==
    ASSUME AuthInv, NEW us, NEW rs, NEW on, Auth!Witnessed(us, rs, on),
           us = users', us \in [Users -> (SUBSET Roles) \cup {Auth!NoUser}],
           rs = roles', rs \in [Roles -> (SUBSET Permissions) \cup {Auth!NoRole}],
           on = authEnabled', on \in BOOLEAN
    PROVE  AuthInv'
<1>1. DOMAIN authCheck' = Askers
  BY DEF Auth!Witnessed
<1>2. ASSUME NEW p \in Askers, authCheck[p].at # "locking"
      PROVE  /\ authCheck'[p] = authCheck[p]
             /\ LookingOn(p)'
  <2>1. authCheck'[p] = authCheck[p]
    BY <1>2 DEF Auth!Witnessed
  <2>2. authCheck'[p].at # "locking"
    BY <1>2, <2>1
  <2>3. authCheck'[p].at = "answered" =>
            authCheck'[p].answer \in authCheck'[p].true \/ authCheck'[p].switched
    BY <2>1 DEF AuthInv, LookingOn
  <2> QED BY <2>1, <2>2, <2>3 DEF LookingOn
<1>3. ASSUME NEW p \in Askers, authCheck[p].at = "locking"
      PROVE  authCheck'[p] \in CheckStates /\ LookingOn(p)'
  <2> DEFINE old == authCheck[p]
             new == authCheck'[p]
             now == Auth!Rightful(us, rs, on, old.asked)
             true == old.true \cup {now}
             switched == old.switched \/ ~on
  <2>1. old \in CheckStates
    BY <1>3 DEF AuthInv, AuthTypes, Auth!Idle
  <2>2. new = [old EXCEPT !.true = true, !.switched = switched]
    BY <1>3 DEF Auth!Witnessed
  <2>3. true \in SUBSET BOOLEAN
    <3>1. now \in BOOLEAN
      BY DEF Auth!Rightful
    <3>2. old.true \subseteq BOOLEAN
      BY <2>1 DEF CheckStates
    <3> HIDE DEF now
    <3> QED BY <3>1, <3>2
  <2>4. now \in true
    OBVIOUS
  <2>5. switched \in BOOLEAN /\ (~on => switched)
    OBVIOUS
  <2>6. now = Auth!Rightful(users', roles', authEnabled', old.asked)
    OBVIOUS
  <2> HIDE DEF now, true, switched
  <2>7. new \in CheckStates
    BY <2>1, <2>2, <2>3, <2>5 DEF CheckStates
  <2>8. /\ new.at = "locking" /\ new.asked = old.asked
        /\ new.true = true /\ new.switched = switched
    BY <1>3, <2>1, <2>2 DEF CheckStates
  <2>9. Auth!Rightful(users', roles', authEnabled', new.asked) \in new.true
    BY <2>4, <2>6, <2>8
  <2>10. ~authEnabled' => new.switched
    BY <2>5, <2>8
  <2> QED BY <2>7, <2>8, <2>9, <2>10 DEF LookingOn, RightNow
<1>4. AuthTypes'
  BY <1>1, <1>2, <1>3 DEF AuthInv, AuthTypes
<1> QED BY <1>2, <1>3, <1>4 DEF AuthInv

LEMMA AuthStep == AuthInv /\ [Auth!Next]_(Auth!vars) => AuthInv'
<1> SUFFICES ASSUME AuthInv, [Auth!Next]_(Auth!vars) PROVE AuthInv'
  OBVIOUS
<1>1. AuthTypes
  BY DEF AuthInv
<1>2. ASSUME NEW u \in Users, NEW rs \in (SUBSET Roles) \cup {Auth!NoUser}, Auth!SetUser(u, rs)
      PROVE  AuthInv'
  <2>1. /\ Auth!Witnessed(users', roles, authEnabled)
        /\ users' = [users EXCEPT ![u] = rs] /\ UNCHANGED <<roles, authEnabled>>
    BY <1>2 DEF Auth!SetUser
  <2> QED BY <1>1, <2>1, WitnessedKeeps DEF AuthTypes
<1>3. ASSUME NEW r \in Roles, NEW ps \in (SUBSET Permissions) \cup {Auth!NoRole}, Auth!SetRole(r, ps)
      PROVE  AuthInv'
  <2>1. /\ Auth!Witnessed(users, roles', authEnabled)
        /\ roles' = [roles EXCEPT ![r] = ps] /\ UNCHANGED <<users, authEnabled>>
    BY <1>3 DEF Auth!SetRole
  <2> QED BY <1>1, <2>1, WitnessedKeeps DEF AuthTypes
<1>4. CASE Auth!Switch
  <2>1. /\ Auth!Witnessed(users, roles, authEnabled')
        /\ authEnabled' \in BOOLEAN /\ UNCHANGED <<users, roles>>
    BY <1>4 DEF Auth!Switch
  <2> QED BY <1>1, <2>1, WitnessedKeeps DEF AuthTypes
(* A check that moves sees no change of users, roles or enabled. *)
<1>5. ASSUME NEW p \in Askers, UNCHANGED <<users, roles, authEnabled>>,
             DOMAIN authCheck' = Askers,
             \A q \in Askers : q # p => authCheck'[q] = authCheck[q],
             authCheck'[p] = Auth!Idle \/ authCheck'[p] \in CheckStates,
             LookingOn(p)'
      PROVE  AuthInv'
  <2>1. AuthTypes'
    BY <1>1, <1>5 DEF AuthTypes
  <2>2. ASSUME NEW q \in Askers, q # p PROVE LookingOn(q)'
    <3>1. LookingOn(q) /\ authCheck'[q] = authCheck[q] /\ authEnabled' = authEnabled
      BY <1>5, <2>2 DEF AuthInv
    <3>2. RightNow(authCheck[q].asked)' = RightNow(authCheck[q].asked)
      BY <1>5, <3>1 DEF RightNow
    <3> QED BY <3>1, <3>2 DEF LookingOn
  <2> QED BY <1>5, <2>1, <2>2 DEF AuthInv
<1>6. ASSUME NEW p \in Askers, NEW asked \in Auth!Asked, Auth!BeginCheck(p, asked) PROVE AuthInv'
  <2> DEFINE now == Auth!Rightful(users, roles, authEnabled, asked)
             new == [at |-> IF authEnabled THEN "locking" ELSE "answered", asked |-> asked,
                     answer |-> ~authEnabled, switched |-> ~authEnabled, true |-> {now}]
  <2>1. now \in BOOLEAN
    BY DEF Auth!Rightful
  <2>2. authCheck' = [authCheck EXCEPT ![p] = new] /\ UNCHANGED <<users, roles, authEnabled>>
    BY <1>6 DEF Auth!BeginCheck
  <2>3. new \in CheckStates
    BY <2>1 DEF CheckStates
  <2>4. /\ DOMAIN authCheck' = Askers /\ authCheck'[p] = new
        /\ \A q \in Askers : q # p => authCheck'[q] = authCheck[q]
    BY <1>1, <2>2 DEF AuthTypes
  <2>5. now = RightNow(asked)'
    BY <2>2 DEF RightNow
  <2> HIDE DEF now
  <2>6. LookingOn(p)'
    BY <2>2, <2>4, <2>5 DEF LookingOn
  <2> QED BY <1>5, <2>2, <2>3, <2>4, <2>6
<1>7. ASSUME NEW p \in Askers, Auth!CheckPermission(p) PROVE AuthInv'
  <2> DEFINE old == authCheck[p]
             granted == Auth!Granted(users, roles, old.asked)
             new == [old EXCEPT !.at = "answered", !.answer = granted]
  <2>1. old \in CheckStates /\ old.at = "locking"
    BY <1>1, <1>7 DEF AuthTypes, Auth!Idle, Auth!CheckPermission
  <2>2. authCheck' = [authCheck EXCEPT ![p] = new] /\ UNCHANGED <<users, roles, authEnabled>>
    BY <1>7 DEF Auth!CheckPermission
  <2>3. granted \in BOOLEAN
    BY DEF Auth!Granted
  <2>4. old.asked \in Auth!Asked
    BY <2>1 DEF CheckStates
  <2>5. authEnabled => (granted = RightNow(old.asked))
    BY <1>1, <2>3, <2>4, GrantedIsRightful, RightIsBoolean DEF RightNow, AuthTypes
  <2> HIDE DEF granted
  <2>6. new \in CheckStates
    BY <2>1, <2>3 DEF CheckStates
  <2>7. RightNow(old.asked) \in old.true /\ (~authEnabled => old.switched)
    BY <2>1 DEF AuthInv, LookingOn
  <2>8. granted \in old.true \/ old.switched
    BY <1>1, <2>5, <2>7 DEF AuthTypes
  <2>9. new.at = "answered" /\ new.answer = granted /\ new.true = old.true /\ new.switched = old.switched
    BY <2>1 DEF CheckStates
  <2>10. /\ DOMAIN authCheck' = Askers /\ authCheck'[p] = new
         /\ \A q \in Askers : q # p => authCheck'[q] = authCheck[q]
    BY <1>1, <2>2 DEF AuthTypes
  <2> HIDE DEF new
  <2>11. LookingOn(p)'
    BY <2>8, <2>9, <2>10 DEF LookingOn
  <2> QED BY <1>5, <2>2, <2>6, <2>10, <2>11
<1>8. ASSUME NEW p \in Askers, Auth!Answered(p) PROVE AuthInv'
  <2>1. authCheck' = [authCheck EXCEPT ![p] = Auth!Idle] /\ UNCHANGED <<users, roles, authEnabled>>
    BY <1>8 DEF Auth!Answered
  <2>2. /\ DOMAIN authCheck' = Askers /\ authCheck'[p] = Auth!Idle
        /\ \A q \in Askers : q # p => authCheck'[q] = authCheck[q]
    BY <1>1, <2>1 DEF AuthTypes
  <2>3. LookingOn(p)'
    BY <2>2 DEF LookingOn, Auth!Idle
  <2> QED BY <1>5, <2>1, <2>2, <2>3
<1>9. CASE UNCHANGED Auth!vars
  <2>1. UNCHANGED <<users, roles, authEnabled, authCheck>>
    BY <1>9 DEF Auth!vars
  <2> QED BY <2>1 DEF AuthInv, AuthTypes, LookingOn, RightNow
<1> QED BY <1>2, <1>3, <1>4, <1>6, <1>7, <1>8, <1>9 DEF Auth!Next

LEMMA AuthShows == AuthInv => Auth!TypeOK /\ Auth!AnswersWereRight
<1> SUFFICES ASSUME AuthInv PROVE Auth!TypeOK /\ Auth!AnswersWereRight
  OBVIOUS
<1>1. Auth!TypeOK
  BY DEF AuthInv, AuthTypes, CheckStates, Auth!TypeOK
<1>2. Auth!AnswersWereRight
  BY DEF AuthInv, LookingOn, Auth!AnswersWereRight
<1> QED BY <1>1, <1>2
-----------------------------------------------------------------------------
(* The connection checks.  Admitted are tracked connections of an address  *)
(* that were let in; to let one in, all tracked ones of the address are    *)
(* counted.                                                                *)
AddressOf == [c \in Peers |-> c % Hosts]
Admitted(a) == {c \in Checks!ConnectionsByIP(a) : checksCheck[c] = "allowed"}

ChecksInv == Checks!TypeOK /\ Checks!AdmittedWithinLimit

LEMMA ChecksCounted == \A S : Checks!Cardinality(S) = Cardinality(S)
BY DEF Checks!Cardinality, Cardinality, Checks!IsFiniteSet, IsFiniteSet

LEMMA ThreatsFound ==
    ASSUME NEW d \in [matches : SUBSET Patterns, size : Sizes]
    PROVE  Checks!BySignature(d) \cup Checks!ByBehavior(d) \cup Checks!BySize(d) \subseteq Checks!Threats
<1>1. Checks!BySignature(d) \subseteq Checks!Threats
  BY SecurityAssumption DEF Checks!BySignature, Checks!Threats, Checks!Severities, SecurityAssumption
<1>2. \A n : Checks!SeverityByScore(n) \in Checks!Severities
  BY DEF Checks!SeverityByScore, Checks!Severities
<1>3. Checks!ByBehavior(d) \subseteq Checks!Threats
  BY <1>2 DEF Checks!ByBehavior, Checks!Threats
<1>4. Checks!BySize(d) \subseteq Checks!Threats
  BY DEF Checks!BySize, Checks!Threats, Checks!Severities
<1> QED BY <1>1, <1>3, <1>4

(* A threat is told about if the channel has room.                         *)
LEMMA ThreatPublished ==
    ASSUME checksEvents \in Seq(Checks!Threats), Len(checksEvents) <= EventBufferSize,
           NEW t \in Checks!Threats, Checks!Publish(t)
    PROVE  checksEvents' \in Seq(Checks!Threats) /\ Len(checksEvents') <= EventBufferSize
<1>1. CASE Len(checksEvents) < EventBufferSize
  <2>1. checksEvents' = Append(checksEvents, t)
    BY <1>1 DEF Checks!Publish
  <2>2. checksEvents' \in Seq(Checks!Threats) /\ Len(checksEvents') = Len(checksEvents) + 1
    BY <2>1, AppendProperties
  <2>3. Len(checksEvents) \in Nat /\ EventBufferSize \in Nat
    BY LenProperties, SecurityAssumption DEF SecurityAssumption
  <2> QED BY <1>1, <2>2, <2>3
<1>2. CASE ~(Len(checksEvents) < EventBufferSize)
  BY <1>2 DEF Checks!Publish
<1> QED BY <1>1, <1>2

LEMMA ChecksInit == Checks!Init => ChecksInv
<1> SUFFICES ASSUME Checks!Init PROVE ChecksInv
  OBVIOUS
<1> USE DEF Checks!Init
<1>1. Checks!TypeOK
  <2>1. checksEvents \in Seq(Checks!Threats) /\ Len(checksEvents) <= EventBufferSize
    BY SecurityAssumption DEF SecurityAssumption
  <2> QED BY <2>1 DEF Checks!TypeOK
<1>2. \A a : Admitted(a) = {}
  BY DEF Admitted, Checks!ConnectionsByIP
<1>3. \A a : Cardinality(Admitted(a)) = 0
  BY <1>2, FS_EmptySet
<1>4. Checks!AdmittedWithinLimit
  BY <1>3, ChecksCounted, SecurityAssumption DEF Checks!AdmittedWithinLimit, Admitted, SecurityAssumption
<1> QED BY <1>1, <1>4 DEF ChecksInv

LEMMA ChecksTypes ==
    ASSUME Checks!TypeOK, Checks!Next
    PROVE  Checks!TypeOK'
<1> USE DEF Checks!TypeOK, Checks!Step
<1>1. ASSUME NEW c \in Peers,
             \/ Checks!FindsBlocked(c) \/ Checks!FindsNone(c) \/ Checks!FindsExpired(c)
             \/ Checks!RemoveExpired(c) \/ Checks!CountAllowed(c) \/ Checks!GoesIdle(c)
      PROVE  Checks!TypeOK'
  BY <1>1 DEF Checks!FindsBlocked, Checks!FindsNone, Checks!FindsExpired, Checks!RemoveExpired,
         Checks!CountAllowed, Checks!GoesIdle
<1>2. ASSUME NEW c \in Peers, Checks!TrackConnection(c) \/ Checks!UpdateConnection(c)
      PROVE  Checks!TypeOK'
  BY <1>2 DEF Checks!TrackConnection, Checks!UpdateConnection
<1>3. ASSUME NEW c \in Peers, Checks!CountRefused(c) PROVE Checks!TypeOK'
  <2>1. [kind |-> "ddos", severity |-> "high"] \in Checks!Threats
    BY DEF Checks!Threats, Checks!Severities
  <2>2. checksEvents' \in Seq(Checks!Threats) /\ Len(checksEvents') <= EventBufferSize
    BY <1>3, <2>1, ThreatPublished DEF Checks!CountRefused
  <2> QED BY <1>3, <2>2 DEF Checks!CountRefused
<1>4. ASSUME NEW c \in Peers, NEW d \in [matches : SUBSET Patterns, size : Sizes],
             Checks!DetectThreats(c, d)
      PROVE  Checks!TypeOK'
  <2> DEFINE found == Checks!BySignature(d) \cup Checks!ByBehavior(d) \cup Checks!BySize(d)
  <2>1. found \subseteq Checks!Threats
    BY ThreatsFound
  <2>2. threats' = [threats EXCEPT ![c] = found]
    BY <1>4 DEF Checks!DetectThreats
  <2> HIDE DEF found
  <2>3. threats' \in [Peers -> SUBSET Checks!Threats]
    BY <2>1, <2>2
  <2> QED BY <1>4, <2>3 DEF Checks!DetectThreats
<1>5. ASSUME NEW c \in Peers, NEW t \in threats[c], Checks!RespondToThreat(c, t)
      PROVE  Checks!TypeOK'
  <2>1. t \in Checks!Threats
    OBVIOUS
  <2>2. checksEvents' \in Seq(Checks!Threats) /\ Len(checksEvents') <= EventBufferSize
    BY <1>5, <2>1, ThreatPublished DEF Checks!RespondToThreat
  <2>3. Checks!Response(t) \in {"blocked", "rate_limited", "logged"}
    BY DEF Checks!Response
  <2>4. responses' \in [Peers -> SUBSET {"blocked", "rate_limited", "logged"}]
    BY <1>5, <2>3 DEF Checks!RespondToThreat
  <2>5. blacklist' \in [Checks!Addresses -> {"none", "blocked", "expired"}]
    BY <1>5 DEF Checks!RespondToThreat
  <2>6. threats' \in [Peers -> SUBSET Checks!Threats]
    BY <1>5 DEF Checks!RespondToThreat
  <2> QED BY <1>5, <2>2, <2>4, <2>5, <2>6 DEF Checks!RespondToThreat
<1>6. ASSUME NEW a \in Checks!Addresses, Checks!Expire(a) \/ Checks!UnblockIP(a)
      PROVE  Checks!TypeOK'
  BY <1>6 DEF Checks!Expire, Checks!UnblockIP
<1>7. CASE Checks!CleanupConnections \/ Checks!Stop
  BY <1>7 DEF Checks!CleanupConnections, Checks!Stop
<1>8. CASE Checks!ProcessEvent
  <2>1. /\ checksEvents' \in Seq(Checks!Threats) /\ Len(checksEvents') = Len(checksEvents) - 1
        /\ Len(checksEvents) \in Nat /\ Head(checksEvents) \in Checks!Threats
    BY <1>8, HeadTailProperties, LenProperties DEF Checks!ProcessEvent
  <2>2. Head(checksEvents).severity \in Checks!Severities
    BY <2>1 DEF Checks!Threats
  <2>3. Len(checksEvents') <= EventBufferSize
    BY <2>1, SecurityAssumption DEF SecurityAssumption
  <2> QED BY <1>8, <2>1, <2>2, <2>3 DEF Checks!ProcessEvent
<1> QED BY <1>1, <1>2, <1>3, <1>4, <1>5, <1>6, <1>7, <1>8 DEF Checks!Next

(* Whoever is let in finds the limit kept by all that are tracked, himself *)
(* among them; every other step leaves no more admitted than before.       *)
LEMMA AdmittedStep == ChecksInv /\ Checks!Next => Checks!AdmittedWithinLimit'
<1> SUFFICES ASSUME ChecksInv, Checks!Next, NEW a \in Checks!Addresses
             PROVE  Cardinality(Admitted(a)') <= MaxConnectionsPerIP
  BY ChecksCounted DEF Checks!AdmittedWithinLimit, Admitted
<1> USE DEF ChecksInv, Checks!TypeOK, Checks!Step
<1>1. IsFiniteSet(Peers) /\ MaxConnectionsPerIP \in Nat
  BY SecurityAssumption DEF SecurityAssumption
<1>2. Cardinality(Admitted(a)) <= MaxConnectionsPerIP
  BY ChecksCounted DEF Checks!AdmittedWithinLimit, Admitted
<1>3. ASSUME NEW S, S \subseteq Peers, Cardinality(S) <= MaxConnectionsPerIP, Admitted(a)' \subseteq S
      PROVE  Cardinality(Admitted(a)') <= MaxConnectionsPerIP
  <2>1. IsFiniteSet(S) /\ IsFiniteSet(Admitted(a)') /\ Cardinality(Admitted(a)') <= Cardinality(S)
    BY <1>1, <1>3, FS_Subset
  <2> QED BY <1>1, <1>3, <2>1, FS_CardinalityType
<1>4. Admitted(a) \subseteq Peers /\ Checks!ConnectionsByIP(a) \subseteq Peers
  BY DEF Admitted, Checks!ConnectionsByIP
<1>5. ASSUME tracked' \subseteq tracked, \A c \in Peers : checksCheck'[c] = "allowed" => checksCheck[c] = "allowed"
      PROVE  Cardinality(Admitted(a)') <= MaxConnectionsPerIP
  <2>1. Admitted(a)' \subseteq Admitted(a)
    BY <1>5 DEF Admitted, Checks!ConnectionsByIP
  <2> QED BY <1>2, <1>3, <1>4, <2>1
<1>6. ASSUME NEW c \in Peers,
             \/ Checks!FindsBlocked(c) \/ Checks!FindsNone(c) \/ Checks!FindsExpired(c)
             \/ Checks!RemoveExpired(c) \/ Checks!CountRefused(c) \/ Checks!GoesIdle(c)
             \/ Checks!UpdateConnection(c)
             \/ \E d \in [matches : SUBSET Patterns, size : Sizes] : Checks!DetectThreats(c, d)
             \/ \E t \in threats[c] : Checks!RespondToThreat(c, t)
      PROVE  Cardinality(Admitted(a)') <= MaxConnectionsPerIP
  BY <1>5, <1>6 DEF Checks!FindsBlocked, Checks!FindsNone, Checks!FindsExpired,
         Checks!RemoveExpired, Checks!CountRefused, Checks!GoesIdle, Checks!UpdateConnection,
         Checks!DetectThreats, Checks!RespondToThreat
<1>7. ASSUME NEW c \in Peers, Checks!TrackConnection(c)
      PROVE  Cardinality(Admitted(a)') <= MaxConnectionsPerIP
  <2>1. /\ checksCheck[c] = "track" /\ checksCheck' = [checksCheck EXCEPT ![c] = "count"]
        /\ tracked' = tracked \cup {c}
    BY <1>7 DEF Checks!TrackConnection
  <2>2. Admitted(a)' \subseteq Admitted(a)
    BY <2>1 DEF Admitted, Checks!ConnectionsByIP
  <2> QED BY <1>2, <1>3, <1>4, <2>2
<1>8. ASSUME NEW c \in Peers, Checks!CountAllowed(c)
      PROVE  Cardinality(Admitted(a)') <= MaxConnectionsPerIP
  <2>1. /\ checksCheck' = [checksCheck EXCEPT ![c] = "allowed"] /\ tracked' = tracked
    BY <1>8 DEF Checks!CountAllowed
  <2>2. CASE AddressOf[c] = a
    <3>1. Cardinality(Checks!ConnectionsByIP(a)) <= MaxConnectionsPerIP
      BY <1>8, <2>2, ChecksCounted DEF Checks!CountAllowed, AddressOf
    <3>2. Admitted(a)' \subseteq Checks!ConnectionsByIP(a)
      BY <2>1 DEF Admitted, Checks!ConnectionsByIP
    <3> QED BY <1>3, <1>4, <3>1, <3>2
  <2>3. CASE AddressOf[c] # a
    <3>1. Admitted(a)' \subseteq Admitted(a)
      BY <2>1, <2>3 DEF Admitted, Checks!ConnectionsByIP, AddressOf
    <3> QED BY <1>2, <1>3, <1>4, <3>1
  <2> QED BY <2>2, <2>3
<1>9. CASE \/ \E b \in Checks!Addresses : Checks!Expire(b) \/ Checks!UnblockIP(b)
           \/ Checks!CleanupConnections \/ Checks!ProcessEvent \/ Checks!Stop
  BY <1>5, <1>9 DEF Checks!Expire, Checks!UnblockIP, Checks!CleanupConnections,
         Checks!ProcessEvent, Checks!Stop
<1> QED BY <1>6, <1>7, <1>8, <1>9 DEF Checks!Next

LEMMA ChecksStep == ChecksInv /\ [Checks!Next]_(Checks!vars) => ChecksInv'
<1>1. ASSUME ChecksInv, Checks!Next PROVE ChecksInv'
  BY <1>1, ChecksTypes, AdmittedStep DEF ChecksInv
<1>2. ASSUME ChecksInv, UNCHANGED Checks!vars PROVE ChecksInv'
  BY <1>2 DEF ChecksInv, Checks!TypeOK, Checks!AdmittedWithinLimit, Checks!ConnectionsByIP, Checks!vars
<1> QED BY <1>1, <1>2

(* Of the steps only UnblockIP lifts a block that is in force.             *)
LEMMA BlockKept ==
    ASSUME ChecksInv, [Checks!Next]_(Checks!vars), NEW a \in Checks!Addresses
    PROVE  Checks!BlockLasts(a)
<1> SUFFICES ASSUME blacklist[a] = "blocked", blacklist'[a] = "none" PROVE Checks!UnblockIP(a)
  BY DEF Checks!BlockLasts
<1> USE DEF ChecksInv, Checks!TypeOK
<1>1. Checks!Next
  BY DEF Checks!vars
<1>2. blacklist' # blacklist
  OBVIOUS
<1>3. ASSUME NEW c \in Peers, Checks!RemoveExpired(c) PROVE FALSE
  <2>1. blacklist' = [blacklist EXCEPT ![AddressOf[c]] = IF @ = "expired" THEN "none" ELSE @]
    BY <1>3 DEF Checks!RemoveExpired, AddressOf
  <2> QED BY <2>1
<1>4. ASSUME NEW c \in Peers, NEW t \in threats[c], Checks!RespondToThreat(c, t) PROVE FALSE
  <2>1. CASE Checks!Response(t) = "blocked"
    <3>1. blacklist' = [blacklist EXCEPT ![AddressOf[c]] = "blocked"]
      BY <1>4, <2>1 DEF Checks!RespondToThreat, AddressOf
    <3> QED BY <3>1
  <2>2. CASE Checks!Response(t) # "blocked"
    BY <1>2, <1>4, <2>2 DEF Checks!RespondToThreat
  <2> QED BY <2>1, <2>2
<1>5. ASSUME NEW b \in Checks!Addresses, Checks!Expire(b) PROVE FALSE
  BY <1>5 DEF Checks!Expire
<1>6. ASSUME NEW b \in Checks!Addresses, Checks!UnblockIP(b) PROVE b = a
  BY <1>6 DEF Checks!UnblockIP
<1>7. ASSUME NEW c \in Peers,
             \/ Checks!FindsBlocked(c) \/ Checks!FindsNone(c) \/ Checks!FindsExpired(c)
             \/ Checks!TrackConnection(c) \/ Checks!CountAllowed(c) \/ Checks!CountRefused(c)
             \/ Checks!GoesIdle(c) \/ Checks!UpdateConnection(c)
             \/ \E d \in [matches : SUBSET Patterns, size : Sizes] : Checks!DetectThreats(c, d)
      PROVE  FALSE
  BY <1>2, <1>7 DEF Checks!FindsBlocked, Checks!FindsNone, Checks!FindsExpired,
         Checks!TrackConnection, Checks!CountAllowed, Checks!CountRefused, Checks!GoesIdle,
         Checks!UpdateConnection, Checks!DetectThreats
<1>8. CASE Checks!CleanupConnections \/ Checks!ProcessEvent \/ Checks!Stop
  BY <1>2, <1>8 DEF Checks!CleanupConnections, Checks!ProcessEvent, Checks!Stop
<1> QED BY <1>1, <1>3, <1>4, <1>5, <1>6, <1>7, <1>8 DEF Checks!Next
-----------------------------------------------------------------------------
(* The DoS protector.  Within a window the requests let in were all        *)
(* counted, so that the count, which is compared with the threshold,       *)
(* bounds them.                                                            *)
Limit == IF Threshold = 0 THEN 1 ELSE Threshold
WindowCounted ==
    \A f \in Fingerprints :
        age[f] = "within" => counts[f] > 0 /\ admitted[f] <= counts[f] /\ admitted[f] <= Limit

DOSInv == DOS!TypeOK /\ WindowCounted

LEMMA DOSInit == DOS!Init => DOSInv
BY SecurityAssumption DEF DOS!Init, DOSInv, DOS!TypeOK, WindowCounted, DOS!Ages, SecurityAssumption

LEMMA DOSStep == DOSInv /\ [DOS!Next]_(DOS!vars) => DOSInv'
<1> SUFFICES ASSUME DOSInv, [DOS!Next]_(DOS!vars) PROVE DOSInv'
  OBVIOUS
<1> USE DEF DOSInv, DOS!TypeOK, WindowCounted, DOS!Ages, DOS!Move, Limit
<1>1. Threshold \in Nat /\ MaxChecks \in Nat /\ MaxChecks > 0 /\ Threshold <= MaxChecks
  BY SecurityAssumption DEF SecurityAssumption
<1>2. ASSUME NEW g \in Checkers, DOS!Begin(g) \/ DOS!Unblock(g) PROVE DOSInv'
  BY <1>2 DEF DOS!Begin, DOS!Unblock
<1>3. ASSUME NEW g \in Checkers, NEW f \in Fingerprints, DOS!CountFirst(g, f) PROVE DOSInv'
  <2>1. age[f] # "within"
    BY <1>3 DEF DOS!CountFirst
  <2>2. /\ counts' = [counts EXCEPT ![f] = 1] /\ admitted' = [admitted EXCEPT ![f] = 1]
        /\ age' = [age EXCEPT ![f] = "within"]
    BY <1>3, <2>1 DEF DOS!CountFirst
  <2>3. WindowCounted'
    BY <1>1, <2>2
  <2>4. DOS!TypeOK'
    BY <1>1, <1>3, <2>2 DEF DOS!CountFirst
  <2> QED BY <2>3, <2>4
<1>4. ASSUME NEW g \in Checkers, NEW f \in Fingerprints, DOS!CountAllowed(g, f) PROVE DOSInv'
  <2>1. /\ counts' = [counts EXCEPT ![f] = @ + 1] /\ admitted' = [admitted EXCEPT ![f] = @ + 1]
        /\ age' = age /\ age[f] = "within" /\ counts[f] + 1 <= Threshold
    BY <1>4 DEF DOS!CountAllowed
  <2>2. counts[f] \in Nat /\ admitted[f] \in Nat /\ admitted[f] <= counts[f]
    BY <1>1, <2>1
  <2>3. WindowCounted'
    BY <1>1, <2>1, <2>2
  <2>4. DOS!TypeOK'
    BY <1>1, <1>4, <2>1, <2>2 DEF DOS!CountAllowed
  <2> QED BY <2>3, <2>4
<1>5. ASSUME NEW g \in Checkers, NEW f \in Fingerprints, DOS!CountRefused(g, f) PROVE DOSInv'
  <2>1. /\ counts' = [counts EXCEPT ![f] = @ + 1] /\ admitted' = admitted
        /\ age' = age /\ counts[f] < MaxChecks
    BY <1>5 DEF DOS!CountRefused
  <2>2. WindowCounted'
    BY <1>1, <2>1
  <2>3. DOS!TypeOK'
    BY <1>1, <1>5, <2>1 DEF DOS!CountRefused
  <2> QED BY <2>2, <2>3
<1>6. ASSUME NEW f \in Fingerprints, DOS!WindowAges(f) PROVE DOSInv'
  BY <1>6 DEF DOS!WindowAges
<1>7. CASE DOS!BlockAges \/ DOS!Switch
  BY <1>7 DEF DOS!BlockAges, DOS!Switch
<1>8. CASE DOS!cleanupExpiredFingerprints
  BY <1>1, <1>8 DEF DOS!cleanupExpiredFingerprints
<1>9. CASE UNCHANGED DOS!vars
  BY <1>9 DEF DOS!vars
<1> QED BY <1>2, <1>3, <1>4, <1>5, <1>6, <1>7, <1>8, <1>9 DEF DOS!Next

LEMMA DOSShows == DOSInv => DOS!TypeOK /\ DOS!AdmittedWithinThreshold
BY DEF DOSInv, WindowCounted, Limit, DOS!AdmittedWithinThreshold
-----------------------------------------------------------------------------

LEMMA DecisionsHold == SuiteSpec => [](SecurityInv /\ AuthInv /\ ChecksInv /\ DOSInv)
<1>1. SuiteInit => SecurityInv /\ AuthInv /\ ChecksInv /\ DOSInv
  BY SecurityInit, AuthInit, ChecksInit, DOSInit DEF SuiteInit
<1>2. SecurityInv /\ AuthInv /\ ChecksInv /\ DOSInv /\ [SuiteNext]_suiteVars
        => (SecurityInv /\ AuthInv /\ ChecksInv /\ DOSInv)'
  <2> SUFFICES ASSUME SecurityInv, AuthInv, ChecksInv, DOSInv, [SuiteNext]_suiteVars
               PROVE  (SecurityInv /\ AuthInv /\ ChecksInv /\ DOSInv)'
    OBVIOUS
  <2>1. [Security!Next]_(Security!vars)
    BY DEF SuiteNext, suiteVars, securityVars, Security!vars
  <2>2. [Auth!Next]_(Auth!vars)
    BY DEF SuiteNext, suiteVars, authVars, Auth!vars
  <2>3. [Checks!Next]_(Checks!vars)
    BY DEF SuiteNext, suiteVars, checksVars, Checks!vars
  <2>4. [DOS!Next]_(DOS!vars)
    BY DEF SuiteNext, suiteVars, dosVars, DOS!vars
  <2> QED BY <2>1, <2>2, <2>3, <2>4, SecurityStep, AuthStep, ChecksStep, DOSStep
<1> QED BY <1>1, <1>2, PTL DEF SuiteSpec

(* After Close has closed the channel no loop of the security manager      *)
(* handles events, but for one that joined the wait group too late, or     *)
(* that Close stopped waiting for.  And an answer of CheckPermission was   *)
(* right at some moment of the call, unless checks were disabled in it.    *)
THEOREM SecurityQuietHolds == SuiteSpec => []SecurityQuiet
<1>1. SecurityInv /\ AuthInv /\ ChecksInv /\ DOSInv => SecurityQuiet
  BY SecurityShows, AuthShows DEF SecurityQuiet
<1> QED BY <1>1, DecisionsHold, PTL

(* No more than MaxConnectionsPerIP tracked connections of an address were *)
(* let in, nobody but UnblockIP lifts a block in force, and a fingerprint  *)
(* gets no more requests into a window than the threshold.                 *)
THEOREM LimitsHoldHolds == SuiteSpec => LimitsHold
<1>1. /\ ChecksInv => Checks!TypeOK /\ Checks!AdmittedWithinLimit
      /\ DOSInv => DOS!TypeOK /\ DOS!AdmittedWithinThreshold
  BY DOSShows DEF ChecksInv
<1>2. ChecksInv /\ [SuiteNext]_suiteVars
        => [\A a \in Checks!Addresses : Checks!BlockLasts(a)]_(Checks!vars)
  <2> SUFFICES ASSUME ChecksInv, [SuiteNext]_suiteVars
               PROVE  \A a \in Checks!Addresses : Checks!BlockLasts(a)
    OBVIOUS
  <2>1. [Checks!Next]_(Checks!vars)
    BY DEF SuiteNext, suiteVars, checksVars, Checks!vars
  <2> QED BY <2>1, BlockKept
<1> QED BY <1>1, <1>2, DecisionsHold, PTL DEF SuiteSpec, LimitsHold, Checks!LimitsAreKept
-----------------------------------------------------------------------------
(* The configuration file.  A key some file left out has its default in    *)
(* the overrides for good; any other key has no override, and a value in   *)
(* the file read last.                                                     *)
DefaultsStay ==
    \A k \in Keys :
        IF k \in missed THEN override[k] = DefaultValue
        ELSE override[k] = Unset /\ loaded[k] # Unset

FileInv == File!TypeOK /\ DefaultsStay

LEMMA FileInit == File!Init => FileInv
BY GovernanceAssumption
DEF File!Init, FileInv, File!TypeOK, File!Settings, DefaultsStay, File!ValidateConfig, File!IsSet,
    File!LeftOut, GovernanceAssumption

LEMMA FileStep == FileInv /\ [File!Next]_(File!vars) => FileInv'
<1> SUFFICES ASSUME FileInv, [File!Next]_(File!vars) PROVE FileInv'
  OBVIOUS
<1> USE DEF FileInv, File!TypeOK, File!Settings, DefaultsStay
<1>1. CASE \E k \in Keys, v \in Values \cup {Unset} : File!EditFile(k, v)
  BY <1>1 DEF File!EditFile
<1>2. CASE File!BreakOrMendFile
  BY <1>2 DEF File!BreakOrMendFile
<1>3. CASE File!Reload /\ legible
  <2>1. /\ loaded' = file /\ missed' = missed \cup {k \in Keys : file[k] = Unset}
        /\ override' = [k \in Keys |-> IF override[k] # Unset \/ file[k] # Unset
                                       THEN override[k] ELSE DefaultValue]
        /\ UNCHANGED <<file, legible>>
    BY <1>3 DEF File!Reload, File!ValidateConfig, File!IsSet, File!LeftOut
  <2> QED BY <2>1, GovernanceAssumption DEF GovernanceAssumption
<1>4. CASE File!Reload /\ ~legible
  BY <1>4 DEF File!Reload
<1>5. CASE UNCHANGED File!vars
  BY <1>5 DEF File!vars
<1> QED BY <1>1, <1>2, <1>3, <1>4, <1>5 DEF File!Next

LEMMA FileShows == FileInv => File!TypeOK /\ File!ValuesFollowFile
BY GovernanceAssumption
DEF FileInv, DefaultsStay, File!ValuesFollowFile, File!Get, GovernanceAssumption
-----------------------------------------------------------------------------
(* The router's configurations.  A handler knows every name but the one    *)
(* that is being loaded, if its turn has not come; one that is not there   *)
(* yet was told nothing.                                                   *)
Loading == loading.next > 0
Knows(h, n) == told[h][n] \in {Missing, configs[n]} \/ configs[n] = Missing
RoutingInv ==
    /\ Routing!TypeOK
    /\ Loading => configs[loading.name] = loading.new
    /\ \A h \in 1..MaxHandlers, n \in Names :
        IF h > routingHandlers THEN told[h][n] = Missing
        ELSE Knows(h, n) \/ (Loading /\ n = loading.name /\ h >= loading.next)

LEMMA LoadingIs ==
    ASSUME Routing!TypeOK
    PROVE  /\ Loading <=> ~Routing!Unlocked
           /\ Loading => /\ loading.name \in Names /\ loading.new \in Configs
                         /\ loading.next \in 1..(MaxHandlers + 1)
                         /\ loading = [next |-> loading.next, name |-> loading.name, new |-> loading.new]
<1>1. CASE loading = [next |-> 0]
  BY <1>1 DEF Routing!Unlocked, Routing!Idle, Loading
<1>2. CASE loading \in [next : 1..(MaxHandlers + 1), name : Names, new : Configs]
  <2>1. Loading /\ loading # [next |-> 0]
    BY <1>2, GovernanceAssumption DEF Loading, GovernanceAssumption
  <2> QED BY <1>2, <2>1 DEF Routing!Unlocked, Routing!Idle
<1> QED BY <1>1, <1>2 DEF Routing!TypeOK, Routing!Idle

LEMMA RoutingInit == Routing!Init => RoutingInv
<1> SUFFICES ASSUME Routing!Init PROVE RoutingInv
  OBVIOUS
<1>1. /\ configs = [n \in Names |-> Missing] /\ routingHandlers = 0 /\ refused = {}
      /\ loading = Routing!Idle /\ stuck = FALSE /\ loading.next = 0
      /\ told = [h \in 1..MaxHandlers |-> [n \in Names |-> Missing]]
  BY DEF Routing!Init, Routing!Idle, Routing!Handlers
<1>2. MaxHandlers \in Nat
  BY GovernanceAssumption DEF GovernanceAssumption
<1>3. Routing!TypeOK
  <2> HIDE DEF Routing!Idle
  <2>1. told \in [1..MaxHandlers -> [Names -> Configs \cup {Missing}]]
    BY <1>1
  <2>2. configs \in [Names -> Configs \cup {Missing}]
    BY <1>1
  <2>3. loading \in {Routing!Idle}
                 \cup [next : 1..(MaxHandlers + 1), name : Names, new : Configs]
    BY <1>1, Zenon
  <2>4. routingHandlers \in 0..MaxHandlers
    BY <1>1, <1>2
  <2>5. refused \subseteq Configs /\ stuck \in BOOLEAN
    BY <1>1, Zenon
  <2> QED BY <2>1, <2>2, <2>3, <2>4, <2>5 DEF Routing!TypeOK, Routing!Known, Routing!Handlers
<1>4. ~Loading /\ \A h \in 1..MaxHandlers : h > routingHandlers
  BY <1>1, <1>2 DEF Loading
<1> QED BY <1>1, <1>3, <1>4 DEF RoutingInv

LEMMA RoutingStep == RoutingInv /\ [Routing!Next]_(Routing!vars) => RoutingInv'
<1> SUFFICES ASSUME RoutingInv, [Routing!Next]_(Routing!vars) PROVE RoutingInv'
  OBVIOUS
<1>0. MaxHandlers \in Nat /\ Routing!TypeOK
  BY GovernanceAssumption DEF GovernanceAssumption, RoutingInv
<1> USE DEF RoutingInv, Routing!TypeOK, Loading, Knows, Routing!Idle, Routing!Known,
            Routing!Handlers, Routing!registry
<1>1. ASSUME NEW n \in Names, NEW c \in Configs, Routing!LoadConfig(n, c) PROVE RoutingInv'
  <2>1. /\ configs' = [configs EXCEPT ![n] = c] /\ loading' = [next |-> 1, name |-> n, new |-> c]
        /\ UNCHANGED <<routingHandlers, refused, stuck, told>>
    BY <1>1 DEF Routing!LoadConfig
  <2>2. ~Loading
    BY <1>0, <1>1, LoadingIs DEF Routing!LoadConfig
  <2>3. configs' \in [Names -> Configs \cup {Missing}] /\ configs'[n] = c
    BY <1>0, <2>1
  <2>4. loading' \in [next : 1..(MaxHandlers + 1), name : Names, new : Configs]
    BY <1>0, <2>1
  <2>5. Routing!TypeOK' /\ (Loading => configs[loading.name] = loading.new)'
    BY <1>0, <2>1, <2>3, <2>4
  <2>6. ASSUME NEW h \in 1..MaxHandlers, NEW m \in Names
        PROVE  IF h > routingHandlers' THEN told'[h][m] = Missing
               ELSE Knows(h, m)' \/ (Loading' /\ m = loading'.name /\ h >= loading'.next)
    <3>1. IF h > routingHandlers THEN told[h][m] = Missing ELSE Knows(h, m)
      BY <2>2
    <3>2. CASE m = n
      BY <1>0, <2>1, <2>6, <3>1, <3>2
    <3>3. CASE m # n
      <4>1. configs'[m] = configs[m]
        BY <1>0, <2>1, <3>3
      <4> QED BY <2>1, <3>1, <4>1
    <3> QED BY <3>2, <3>3
  <2> QED BY <2>5, <2>6 DEF RoutingInv
<1>2. ASSUME NEW n \in Names, Routing!DeleteConfig(n) PROVE RoutingInv'
  <2>1. ~Loading
    BY <1>0, <1>2, LoadingIs DEF Routing!DeleteConfig
  <2> QED BY <1>0, <1>2, <2>1 DEF Routing!DeleteConfig
<1>3. CASE Routing!CallHandler
  <2>1. /\ Loading /\ loading.name \in Names /\ loading.new \in Configs
        /\ loading.next \in 1..(MaxHandlers + 1)
        /\ loading = [next |-> loading.next, name |-> loading.name, new |-> loading.new]
    BY <1>0, <1>3, LoadingIs DEF Routing!CallHandler
  <2> DEFINE h == loading.next
             n == loading.name
  <2>2. /\ told' = [told EXCEPT ![h][n] = loading.new] /\ h <= routingHandlers
        /\ UNCHANGED <<configs, routingHandlers, refused, stuck>>
    BY <1>3 DEF Routing!CallHandler
  <2>3. loading' = [next |-> h + 1, name |-> n, new |-> loading.new]
    BY <1>3, <2>1 DEF Routing!CallHandler
  <2>4. Routing!TypeOK'
    BY <1>0, <2>1, <2>2, <2>3
  <2>5. \A g \in 1..MaxHandlers, m \in Names :
            told'[g][m] = IF g = h /\ m = n THEN loading.new ELSE told[g][m]
    BY <1>0, <2>1, <2>2
  <2> QED BY <1>0, <2>1, <2>2, <2>3, <2>4, <2>5
<1>4. CASE Routing!HandlerCallsBack
  BY <1>0, <1>4 DEF Routing!HandlerCallsBack
<1>5. CASE Routing!EndLoad
  <2>1. Loading /\ loading.next \in 1..(MaxHandlers + 1)
    BY <1>0, <1>5, LoadingIs DEF Routing!EndLoad
  <2> QED BY <1>0, <1>5, <2>1 DEF Routing!EndLoad
<1>6. CASE Routing!AddChangeHandler
  <2>1. ~Loading
    BY <1>0, <1>6, LoadingIs DEF Routing!AddChangeHandler
  <2> QED BY <1>0, <1>6, <2>1 DEF Routing!AddChangeHandler
<1>7. ASSUME NEW cs \in Refused, Routing!AddValidator(cs) PROVE RoutingInv'
  BY <1>0, <1>7, GovernanceAssumption DEF Routing!AddValidator, GovernanceAssumption
<1>8. CASE UNCHANGED Routing!vars
  BY <1>0, <1>8 DEF Routing!vars
<1> QED BY <1>1, <1>2, <1>3, <1>4, <1>5, <1>6, <1>7, <1>8 DEF Routing!Next

LEMMA RoutingShows == RoutingInv => Routing!TypeOK /\ Routing!HandlersKnow
BY GovernanceAssumption, LoadingIs
DEF RoutingInv, Knows, Routing!TypeOK, Routing!HandlersKnow, GovernanceAssumption
-----------------------------------------------------------------------------
(* The protocol manager.  What is governed once is inductive with the      *)
(* types, when no version has an object that is not made yet.              *)
ObjectsMade == \A v \in DOMAIN protocols : protocols[v].object <= protocolsMade

VersionsInv ==
    /\ DOMAIN protocols \subseteq Versions
    /\ \A v \in DOMAIN protocols : protocols[v] \in Protocols!Protocol
    /\ protocolsMade \in 0..MaxVersions /\ activeProtocol \in 0..protocolsMade
    /\ ObjectsMade /\ Protocols!OneActive

ModulesInv ==
    /\ loaderActive \in BOOLEAN
    /\ DOMAIN modules \subseteq Versions
    /\ instances \in 0..MaxModules
    /\ \A v \in DOMAIN modules : modules[v] \in 1..instances
    /\ closed \subseteq 1..instances /\ protocolsLate \subseteq 1..instances
    /\ timers \subseteq Versions \X (1..instances)
    /\ Protocols!ModulesAccounted

CallersInv == protocolsEnabled \in BOOLEAN /\ caller \in [Loaders -> {Protocols!Idle} \cup Protocols!Doing]

ProtocolsInv == VersionsInv /\ ModulesInv /\ CallersInv

LEMMA ProtocolsInit == Protocols!Init => ProtocolsInv
<1> SUFFICES ASSUME Protocols!Init PROVE ProtocolsInv
  OBVIOUS
<1>1. DOMAIN protocols = {} /\ DOMAIN modules = {}
  BY DEF Protocols!Init
<1> QED BY <1>1, GovernanceAssumption
        DEF Protocols!Init, ProtocolsInv, VersionsInv, ModulesInv, CallersInv, ObjectsMade,
            Protocols!OneActive, Protocols!ModulesAccounted, GovernanceAssumption

LEMMA ProtocolsShow == ProtocolsInv => Protocols!TypeOK /\ Protocols!GovernedOnce
BY DEF ProtocolsInv, VersionsInv, ModulesInv, CallersInv, Protocols!TypeOK, Protocols!GovernedOnce

(* One of the versions is stored, or changes its status and rate; the      *)
(* others may be demoted.                                                  *)
LEMMA Stored ==
    ASSUME VersionsInv, NEW v \in Versions, Protocols!Store(v)
    PROVE  VersionsInv'
<1> DEFINE new == [object |-> protocolsMade + 1, status |-> "inactive", rate |-> 0]
<1>1. /\ protocolsMade < MaxVersions /\ protocolsMade' = protocolsMade + 1
      /\ protocols' = [u \in DOMAIN protocols \cup {v} |-> IF u = v THEN new ELSE protocols[u]]
      /\ activeProtocol' = activeProtocol
  BY DEF Protocols!Store
<1>2. /\ protocolsMade \in 0..MaxVersions /\ activeProtocol \in 0..protocolsMade /\ MaxVersions \in Nat
      /\ 0 \in Rates
  BY GovernanceAssumption DEF VersionsInv, GovernanceAssumption
<1>3. /\ new \in Protocols!Protocol /\ new.object = protocolsMade + 1 /\ new.status # "active"
  BY <1>1, <1>2 DEF Protocols!Protocol, Protocols!Statuses
<1>4. /\ \A u \in DOMAIN protocols' : protocols'[u] = new \/ (u \in DOMAIN protocols /\ protocols'[u] = protocols[u])
      /\ DOMAIN protocols' = DOMAIN protocols \cup {v}
  BY <1>1
<1> HIDE DEF new
<1>5. \A u \in DOMAIN protocols : protocols[u].object \in Nat /\ protocols[u].object <= protocolsMade
  BY <1>2 DEF VersionsInv, ObjectsMade, Protocols!Protocol
<1>6. \A u \in DOMAIN protocols' : /\ protocols'[u] \in Protocols!Protocol
                                   /\ protocols'[u].object <= protocolsMade'
  BY <1>1, <1>2, <1>3, <1>4, <1>5 DEF VersionsInv
<1>7. Protocols!OneActive'
  BY <1>1, <1>3, <1>4 DEF VersionsInv, Protocols!OneActive
<1>8. protocolsMade' \in 0..MaxVersions /\ activeProtocol' \in 0..protocolsMade'
  BY <1>1, <1>2
<1>9. DOMAIN protocols' \subseteq Versions
  BY <1>4 DEF VersionsInv
<1> QED BY <1>6, <1>7, <1>8, <1>9 DEF VersionsInv, ObjectsMade

LEMMA Changed ==
    ASSUME VersionsInv, NEW v \in DOMAIN protocols, NEW s \in Protocols!Statuses, NEW r \in Rates,
           protocols' = [u \in DOMAIN protocols |->
               IF u = v THEN [object |-> protocols[v].object, status |-> s, rate |-> r] ELSE protocols[u]],
           s # "active" \/ protocols[v].status = "active",
           UNCHANGED <<protocolsMade, activeProtocol>>
    PROVE  VersionsInv'
<1> DEFINE new == [object |-> protocols[v].object, status |-> s, rate |-> r]
<1>1. /\ new \in Protocols!Protocol /\ new.object = protocols[v].object /\ new.status = s
  BY DEF VersionsInv, Protocols!Protocol
<1>2. /\ DOMAIN protocols' = DOMAIN protocols /\ protocols'[v] = new
      /\ \A u \in DOMAIN protocols : u # v => protocols'[u] = protocols[u]
  OBVIOUS
<1> HIDE DEF new
<1>3. \A u \in DOMAIN protocols : protocols'[u] \in Protocols!Protocol
  BY <1>1, <1>2 DEF VersionsInv
<1>4. ObjectsMade'
  BY <1>1, <1>2 DEF VersionsInv, ObjectsMade
<1>5. Protocols!OneActive'
  BY <1>1, <1>2 DEF VersionsInv, Protocols!OneActive
<1> QED BY <1>2, <1>3, <1>4, <1>5 DEF VersionsInv

LEMMA RolledOut ==
    ASSUME VersionsInv, NEW v \in DOMAIN protocols, activeProtocol' = protocols[v].object,
           protocols' = Protocols!WithStatus(Protocols!Demoted(v), v, "active", 100),
           protocolsMade' = protocolsMade
    PROVE  VersionsInv'
<1>1. 0 \in Rates /\ 100 \in Rates
  BY GovernanceAssumption DEF GovernanceAssumption
<1>2. \A u \in DOMAIN protocols : protocols[u] = [object |-> protocols[u].object,
            status |-> protocols[u].status, rate |-> protocols[u].rate]
  BY DEF VersionsInv, Protocols!Protocol
<1>3. DOMAIN protocols' = DOMAIN protocols
  BY DEF Protocols!Demoted, Protocols!WithStatus
<1>4. protocols'[v] = [object |-> protocols[v].object, status |-> "active", rate |-> 100]
  BY <1>2 DEF Protocols!Demoted, Protocols!WithStatus
<1>5. \A u \in DOMAIN protocols : u # v =>
        \/ protocols[u].status # "active" /\ protocols'[u] = protocols[u]
        \/ protocols'[u] = [object |-> protocols[u].object, status |-> "deprecating", rate |-> 0]
  BY <1>2 DEF Protocols!Demoted, Protocols!WithStatus
<1>6. ASSUME NEW u \in DOMAIN protocols
      PROVE  /\ protocols'[u] \in Protocols!Protocol
             /\ protocols'[u].object = protocols[u].object
             /\ u # v => protocols'[u].status # "active"
  <2> USE DEF VersionsInv, Protocols!Protocol, Protocols!Statuses
  <2>1. CASE u = v
    BY <1>1, <1>4, <2>1
  <2>2. CASE protocols[u].status # "active" /\ protocols'[u] = protocols[u]
    BY <2>2
  <2>3. CASE protocols'[u] = [object |-> protocols[u].object, status |-> "deprecating", rate |-> 0]
    BY <1>1, <2>3
  <2> QED BY <1>5, <2>1, <2>2, <2>3
<1>9. Protocols!OneActive'
  BY <1>3, <1>6 DEF Protocols!OneActive
<1>10. activeProtocol' \in 0..protocolsMade'
  BY DEF VersionsInv, ObjectsMade, Protocols!Protocol
<1> QED BY <1>3, <1>6, <1>9, <1>10 DEF VersionsInv, ObjectsMade

LEMMA Unloaded ==
    ASSUME ModulesInv, NEW V \in SUBSET Versions, Protocols!Unload(V), timers' \subseteq timers,
           UNCHANGED <<instances, protocolsLate>>, loaderActive' = loaderActive \/ V = DOMAIN modules,
           loaderActive' \in BOOLEAN, V \subseteq DOMAIN modules
    PROVE  ModulesInv'
<1>1. /\ closed' = closed \cup {modules[v] : v \in V}
      /\ DOMAIN modules' = DOMAIN modules \ V
      /\ \A v \in DOMAIN modules \ V : modules'[v] = modules[v]
  BY DEF Protocols!Unload
<1>2. Protocols!ModulesAccounted'
  BY <1>1 DEF ModulesInv, Protocols!ModulesAccounted
<1> QED BY <1>1, <1>2 DEF ModulesInv

LEMMA ProtocolsStep == ProtocolsInv /\ [Protocols!Next]_(Protocols!vars) => ProtocolsInv'
<1> SUFFICES ASSUME ProtocolsInv, [Protocols!Next]_(Protocols!vars) PROVE ProtocolsInv'
  OBVIOUS
<1>0. VersionsInv /\ ModulesInv /\ CallersInv
  BY DEF ProtocolsInv
<1>p. VersionsInv' /\ ModulesInv' /\ CallersInv' => ProtocolsInv'
  BY DEF ProtocolsInv
<1> USE DEF Protocols!protocolVars, Protocols!moduleVars
<1>a. ASSUME UNCHANGED Protocols!protocolVars PROVE VersionsInv'
  BY <1>0, <1>a DEF VersionsInv, ObjectsMade, Protocols!OneActive
<1>b. ASSUME UNCHANGED <<Protocols!moduleVars, loaderActive>> PROVE ModulesInv'
  BY <1>0, <1>b DEF ModulesInv, Protocols!ModulesAccounted
<1>c. ASSUME UNCHANGED <<protocolsEnabled, caller>> PROVE CallersInv'
  BY <1>0, <1>c DEF CallersInv
<1>d. ASSUME NEW c \in Loaders, caller[c] # Protocols!Idle PROVE caller[c].version \in Versions
  BY <1>0, <1>d DEF CallersInv, Protocols!Doing
<1>1. ASSUME NEW v \in Versions, Protocols!UploadProtocol(v) PROVE ProtocolsInv'
  <2>1. Protocols!Store(v) /\ UNCHANGED <<protocolsEnabled, caller, Protocols!moduleVars, loaderActive>>
    BY <1>1 DEF Protocols!UploadProtocol
  <2> QED BY <1>0, <1>b, <1>c, <2>1, Stored, <1>p
<1>2. ASSUME NEW v \in Versions, NEW r \in Rates,
             \/ Protocols!StartProtocolTesting(v) \/ Protocols!DeprecateProtocol(v)
             \/ Protocols!UpdateProtocolTraffic(v, r) /\ r # 100
      PROVE  ProtocolsInv'
  <2>1. v \in DOMAIN protocols /\ UNCHANGED <<protocolsMade, activeProtocol>>
    BY <1>2 DEF Protocols!StartProtocolTesting, Protocols!DeprecateProtocol,
                Protocols!UpdateProtocolTraffic
  <2>2. protocols[v] = [object |-> protocols[v].object, status |-> protocols[v].status,
                        rate |-> protocols[v].rate]
        /\ protocols[v].status \in Protocols!Statuses
    BY <1>0, <2>1 DEF VersionsInv, Protocols!Protocol
  <2>3. 0 \in Rates
    BY GovernanceAssumption DEF GovernanceAssumption
  <2>4. \E s \in Protocols!Statuses, q \in Rates :
            /\ protocols' = [u \in DOMAIN protocols |->
                   IF u = v THEN [object |-> protocols[v].object, status |-> s, rate |-> q]
                   ELSE protocols[u]]
            /\ s # "active" \/ protocols[v].status = "active"
    <3>1. CASE Protocols!StartProtocolTesting(v)
      <4>1. protocols' = [u \in DOMAIN protocols |->
              IF u = v THEN [object |-> protocols[v].object, status |-> "testing", rate |-> 0]
              ELSE protocols[u]]
        BY <2>1, <2>2, <3>1 DEF Protocols!StartProtocolTesting, Protocols!WithStatus
      <4> QED BY <2>3, <4>1 DEF Protocols!Statuses
    <3>2. CASE Protocols!DeprecateProtocol(v)
      <4>1. protocols' = [u \in DOMAIN protocols |->
              IF u = v THEN [object |-> protocols[v].object, status |-> "deprecating", rate |-> 0]
              ELSE protocols[u]]
        BY <2>1, <2>2, <3>2 DEF Protocols!DeprecateProtocol, Protocols!WithStatus
      <4> QED BY <2>3, <4>1 DEF Protocols!Statuses
    <3>3. CASE Protocols!UpdateProtocolTraffic(v, r) /\ r # 100
      <4>1. protocols' = [u \in DOMAIN protocols |->
              IF u = v THEN [object |-> protocols[v].object, status |-> protocols[v].status, rate |-> r]
              ELSE protocols[u]]
        BY <2>1, <2>2, <3>3 DEF Protocols!UpdateProtocolTraffic
      <4> QED BY <2>2, <4>1
    <3> QED BY <1>2, <3>1, <3>2, <3>3
  <2>5. VersionsInv'
    BY <1>0, <2>1, <2>4, Changed
  <2>6. UNCHANGED <<protocolsEnabled, caller, Protocols!moduleVars, loaderActive>>
    BY <1>2 DEF Protocols!StartProtocolTesting, Protocols!DeprecateProtocol,
                Protocols!UpdateProtocolTraffic
  <2> QED BY <1>b, <1>c, <2>5, <2>6, <1>p
<1>3. ASSUME NEW v \in Versions, Protocols!UpdateProtocolTraffic(v, 100) PROVE ProtocolsInv'
  <2>1. /\ v \in DOMAIN protocols /\ activeProtocol' = protocols[v].object
        /\ protocols' = Protocols!WithStatus(Protocols!Demoted(v), v, "active", 100)
        /\ protocolsMade' = protocolsMade
        /\ UNCHANGED <<protocolsEnabled, caller, Protocols!moduleVars, loaderActive>>
    BY <1>3 DEF Protocols!UpdateProtocolTraffic
  <2>2. VersionsInv'
    BY <1>0, <2>1, RolledOut
  <2> QED BY <1>b, <1>c, <2>1, <2>2, <1>p
<1>4. ASSUME NEW v \in Versions, Protocols!UnloadProtocol(v) PROVE ProtocolsInv'
  <2>1. /\ v \in DOMAIN modules /\ Protocols!Unload({v}) /\ UNCHANGED <<instances, timers, protocolsLate>>
        /\ UNCHANGED <<Protocols!protocolVars, protocolsEnabled, loaderActive, caller>>
    BY <1>4 DEF Protocols!UnloadProtocol
  <2>2. ModulesInv'
    BY <1>0, <2>1, Unloaded DEF ModulesInv
  <2> QED BY <1>a, <1>c, <2>1, <2>2, <1>p
<1>5. ASSUME NEW t \in timers, Protocols!CheckExpiration(t) PROVE ProtocolsInv'
  <2>1. /\ timers' = timers \ {t} /\ UNCHANGED <<instances, protocolsLate>>
        /\ UNCHANGED <<Protocols!protocolVars, protocolsEnabled, loaderActive, caller>>
    BY <1>5 DEF Protocols!CheckExpiration
  <2>2. CASE t[1] \in DOMAIN modules
    <3>1. Protocols!Unload({t[1]})
      BY <1>5, <2>2 DEF Protocols!CheckExpiration
    <3>2. {t[1]} \in SUBSET Versions
      BY <1>0, <2>2 DEF ModulesInv
    <3>3. ModulesInv'
      BY <1>0, <2>1, <2>2, <3>1, <3>2, Unloaded DEF ModulesInv
    <3> QED BY <1>a, <1>c, <2>1, <3>3, <1>p
  <2>3. CASE t[1] \notin DOMAIN modules
    <3>1. UNCHANGED <<modules, closed>>
      BY <1>5, <2>3 DEF Protocols!CheckExpiration
    <3>2. ModulesInv'
      BY <1>0, <2>1, <3>1 DEF ModulesInv, Protocols!ModulesAccounted
    <3> QED BY <1>a, <1>c, <2>1, <3>2, <1>p
  <2> QED BY <2>2, <2>3
<1>6. CASE Protocols!Deactivate
  <2>1. /\ Protocols!Unload(DOMAIN modules) /\ UNCHANGED <<instances, timers, protocolsLate>>
        /\ loaderActive' = FALSE
        /\ UNCHANGED <<Protocols!protocolVars, protocolsEnabled, caller>>
    BY <1>6 DEF Protocols!Deactivate
  <2>2. DOMAIN modules \in SUBSET Versions
    BY <1>0 DEF ModulesInv
  <2>3. ModulesInv'
    BY <1>0, <2>1, <2>2, Unloaded
  <2> QED BY <1>a, <1>c, <2>1, <2>3, <1>p
<1>7. CASE Protocols!Activate
  <2>1. ModulesInv'
    BY <1>0, <1>7 DEF Protocols!Activate, ModulesInv, Protocols!ModulesAccounted
  <2> QED BY <1>a, <1>c, <1>7, <2>1, <1>p DEF Protocols!Activate
<1>8. CASE Protocols!Toggle
  <2>1. CallersInv'
    BY <1>0, <1>8 DEF Protocols!Toggle, CallersInv
  <2> QED BY <1>a, <1>b, <1>8, <2>1, <1>p DEF Protocols!Toggle
<1>9. ASSUME NEW c \in Loaders, NEW v \in Versions, Protocols!LoadCheck(c, v) \/ Protocols!ExecuteCheck(c, v)
      PROVE  ProtocolsInv'
  <2>1. UNCHANGED <<Protocols!protocolVars, Protocols!moduleVars, loaderActive, protocolsEnabled>>
    BY <1>9 DEF Protocols!LoadCheck, Protocols!ExecuteCheck
  <2>2. PICK d \in {"loading", "executing"} : caller' = [caller EXCEPT ![c] = [doing |-> d, version |-> v]]
    BY <1>9 DEF Protocols!LoadCheck, Protocols!ExecuteCheck
  <2>3. [doing |-> d, version |-> v] \in Protocols!Doing
    BY DEF Protocols!Doing
  <2>4. CallersInv'
    BY <1>0, <2>1, <2>2, <2>3 DEF CallersInv
  <2> QED BY <1>a, <1>b, <2>1, <2>4, <1>p
<1>10. ASSUME NEW c \in Loaders, Protocols!LoadFails(c) \/ Protocols!Executed(c) PROVE ProtocolsInv'
  <2>1. /\ UNCHANGED <<Protocols!protocolVars, Protocols!moduleVars, loaderActive, protocolsEnabled>>
        /\ caller' = [caller EXCEPT ![c] = Protocols!Idle]
    BY <1>10 DEF Protocols!LoadFails, Protocols!Executed
  <2>2. CallersInv'
    BY <1>0, <2>1 DEF CallersInv
  <2> QED BY <1>a, <1>b, <2>1, <2>2, <1>p
<1>11. ASSUME NEW c \in Loaders, Protocols!Load(c) PROVE ProtocolsInv'
  <2> DEFINE v == caller[c].version
             n == instances + 1
  <2>1. /\ caller[c].doing = "loading" /\ instances < MaxModules /\ v \notin DOMAIN modules
        /\ modules' = [u \in DOMAIN modules \cup {v} |-> IF u = v THEN n ELSE modules[u]]
        /\ instances' = n /\ timers' = timers \cup {<<v, n>>} /\ closed' = closed
        /\ protocolsLate' = IF loaderActive THEN protocolsLate ELSE protocolsLate \cup {n}
        /\ caller' = [caller EXCEPT ![c].doing = "storing"]
        /\ UNCHANGED <<Protocols!protocolVars, protocolsEnabled, loaderActive>>
    BY <1>11 DEF Protocols!Load
  <2>2. caller[c] = [doing |-> "loading", version |-> v] /\ v \in Versions
    BY <1>0, <2>1 DEF CallersInv, Protocols!Doing, Protocols!Idle
  <2>3. caller' = [caller EXCEPT ![c] = [doing |-> "storing", version |-> v]]
    <3>1. caller' = [caller EXCEPT ![c] = [caller[c] EXCEPT !.doing = "storing"]]
      BY <2>1
    <3> HIDE DEF v
    <3>2. [caller[c] EXCEPT !.doing = "storing"] = [doing |-> "storing", version |-> v]
      BY <2>2
    <3> QED BY <3>1, <3>2
  <2>4. [doing |-> "storing", version |-> v] \in Protocols!Doing
    BY <2>2 DEF Protocols!Doing
  <2>5. CallersInv'
    BY <1>0, <2>1, <2>3, <2>4 DEF CallersInv
  <2>6. instances \in Nat /\ MaxModules \in Nat /\ n \in 1..instances'
    BY <1>0, <2>1, GovernanceAssumption DEF ModulesInv, GovernanceAssumption
  <2>7. Protocols!ModulesAccounted'
    <3>1. \A m \in 1..instances' : m = n \/ m \in 1..instances
      BY <2>1, <2>6
    <3>2. \A u \in DOMAIN modules : modules'[u] = modules[u] /\ u \in DOMAIN modules'
      BY <2>1
    <3>3. v \in DOMAIN modules' /\ modules'[v] = n
      BY <2>1
    <3>4. \A m \in 1..instances' : m \in closed' \/ \E u \in DOMAIN modules' : modules'[u] = m
      BY <1>0, <2>1, <3>1, <3>2, <3>3 DEF ModulesInv, Protocols!ModulesAccounted
    <3>5. ~loaderActive' => \A u \in DOMAIN modules' : modules'[u] \in protocolsLate'
      BY <1>0, <2>1 DEF ModulesInv, Protocols!ModulesAccounted
    <3> QED BY <3>4, <3>5 DEF Protocols!ModulesAccounted
  <2> HIDE DEF v, n
  <2>8. /\ DOMAIN modules' \subseteq Versions /\ instances' \in 0..MaxModules
        /\ \A u \in DOMAIN modules' : modules'[u] \in 1..instances'
        /\ closed' \subseteq 1..instances' /\ protocolsLate' \subseteq 1..instances'
        /\ timers' \subseteq Versions \X (1..instances')
    <3>1. 1..instances \subseteq 1..instances'
      BY <2>1, <2>6 DEF n
    <3>2. instances' \in 0..MaxModules
      BY <2>1, <2>6 DEF n
    <3> QED BY <1>0, <2>1, <2>2, <2>6, <3>1, <3>2 DEF ModulesInv
  <2>9. ModulesInv'
    BY <1>0, <2>1, <2>7, <2>8 DEF ModulesInv
  <2> QED BY <1>a, <2>1, <2>5, <2>9, <1>p
<1>12. ASSUME NEW c \in Loaders, Protocols!LoadStores(c) PROVE ProtocolsInv'
  <2>1. /\ Protocols!Store(caller[c].version) /\ caller[c].doing = "storing"
        /\ caller' = [caller EXCEPT ![c] = Protocols!Idle]
        /\ UNCHANGED <<protocolsEnabled, Protocols!moduleVars, loaderActive>>
    BY <1>12 DEF Protocols!LoadStores
  <2>2. caller[c].version \in Versions
    BY <1>d, <2>1 DEF Protocols!Idle
  <2>3. VersionsInv'
    BY <1>0, <2>1, <2>2, Stored
  <2>4. CallersInv'
    BY <1>0, <2>1 DEF CallersInv
  <2> QED BY <1>b, <2>1, <2>3, <2>4, <1>p
<1>13. ASSUME NEW c \in Loaders, Protocols!ExecuteProtocol(c) PROVE ProtocolsInv'
  <2> DEFINE v == caller[c].version
             after == IF v \in DOMAIN modules
                      THEN [doing |-> "running", version |-> v, module |-> modules[v]] ELSE Protocols!Idle
  <2>1. /\ caller[c].doing = "executing" /\ caller' = [caller EXCEPT ![c] = after]
        /\ UNCHANGED <<Protocols!protocolVars, protocolsEnabled, Protocols!moduleVars, loaderActive>>
    BY <1>13 DEF Protocols!ExecuteProtocol
  <2>2. v \in Versions
    BY <1>d, <2>1 DEF Protocols!Idle
  <2>3. \A u \in DOMAIN modules : modules[u] \in 1..MaxModules
    BY <1>0, GovernanceAssumption DEF ModulesInv, GovernanceAssumption
  <2>4. after \in {Protocols!Idle} \cup Protocols!Doing
    BY <2>2, <2>3 DEF Protocols!Doing
  <2>5. CallersInv'
    BY <1>0, <2>1, <2>4 DEF CallersInv
  <2> QED BY <1>a, <1>b, <2>1, <2>5, <1>p
<1>14. CASE UNCHANGED Protocols!vars
  <2>1. UNCHANGED <<Protocols!protocolVars, Protocols!moduleVars, loaderActive, protocolsEnabled, caller>>
    BY <1>14 DEF Protocols!vars
  <2> QED BY <1>a, <1>b, <1>c, <2>1, <1>p
<1>15. ASSUME NEW v \in Versions, Protocols!StartProtocolTesting(v) \/ Protocols!DeprecateProtocol(v)
       PROVE  ProtocolsInv'
  <2>1. 0 \in Rates
    BY GovernanceAssumption DEF GovernanceAssumption
  <2> QED BY <1>2, <1>15, <2>1
<1> QED BY <1>1, <1>2, <1>3, <1>4, <1>5, <1>6, <1>7, <1>8, <1>9, <1>10, <1>11, <1>12, <1>13, <1>14,
           <1>15 DEF Protocols!Next
-----------------------------------------------------------------------------
(* The policy engine.  An object is the policy of one ID, and notices      *)
(* about it are for that ID.                                               *)
Live(o) == \E p \in DOMAIN policies : policies[p] = o
ObjectsOfOne ==
    /\ \A p, q \in DOMAIN policies : policies[p] = policies[q] => p = q
    /\ \A p \in PolicyIDs, o \in 1..MaxPolicies : notices[p][o] > 0 =>
            \A q \in DOMAIN policies : policies[q] = o => q = p
(* There is no more than a notice per version of an object, and one for    *)
(* its removal; none for an object still to be made.                       *)
NoticesCounted ==
    \A o \in 1..MaxPolicies :
        IF o > policiesMade THEN version[o] = 0 /\ \A p \in PolicyIDs : notices[p][o] = 0
        ELSE \A p \in PolicyIDs : notices[p][o] <= version[o] + (IF Live(o) THEN 0 ELSE 1)
(* Of an ID that is not unsure the listener has the truth, or is going to  *)
(* have it from the only notice that is left.                              *)
OnItsWay(p) ==
    \E o \in 1..MaxPolicies :
        /\ notices[p][o] = 1 /\ \A x \in 1..MaxPolicies : x # o => notices[p][x] = 0
        /\ (o \in active) <=> Policies!IsActive(p)
SureKnown ==
    \A p \in PolicyIDs : p \notin unsure =>
        OnItsWay(p) \/ ((heard[p] <=> Policies!IsActive(p)) /\ ~Policies!UnderWay(p))

PoliciesInv == Policies!TypeOK /\ ObjectsOfOne /\ NoticesCounted /\ SureKnown

LEMMA PoliciesInit == Policies!Init => PoliciesInv
<1> SUFFICES ASSUME Policies!Init PROVE PoliciesInv
  OBVIOUS
<1>1. DOMAIN policies = {} /\ policiesMade = 0 /\ MaxPolicies \in Nat /\ MaxVersion \in Nat
  BY GovernanceAssumption DEF Policies!Init, GovernanceAssumption
<1>2. \A p \in PolicyIDs, o \in 1..MaxPolicies : notices[p][o] = 0
  BY DEF Policies!Init, Policies!Objects
<1>3. Policies!TypeOK
  <2>1. notices \in [PolicyIDs -> [1..MaxPolicies -> 0..(MaxVersion + 1)]]
    BY <1>1 DEF Policies!Init, Policies!Objects
  <2>2. version \in [1..MaxPolicies -> 0..MaxVersion]
    BY <1>1 DEF Policies!Init, Policies!Objects
  <2>3. heard \in [PolicyIDs -> BOOLEAN] /\ policiesRegistered \in BOOLEAN
    BY Zenon DEF Policies!Init
  <2>4. active = {} /\ unsure = {} /\ policiesMade \in 0..MaxPolicies
    BY <1>1 DEF Policies!Init
  <2> QED BY <1>1, <2>1, <2>2, <2>3, <2>4 DEF Policies!TypeOK, Policies!Objects
<1>4. SureKnown
  <2>1. ASSUME NEW p \in PolicyIDs PROVE ~heard[p]
    BY DEF Policies!Init
  <2>2. ASSUME NEW p \in PolicyIDs PROVE ~Policies!UnderWay(p) /\ ~Policies!IsActive(p)
    BY <1>1, <1>2 DEF Policies!IsActive, Policies!UnderWay, Policies!Objects
  <2>3. heard \in [PolicyIDs -> BOOLEAN]
    BY <1>3 DEF Policies!TypeOK
  <2> HIDE DEF Policies!IsActive
  <2> QED BY <2>1, <2>2, <2>3 DEF SureKnown
<1>5. ObjectsOfOne /\ NoticesCounted
  BY <1>1, <1>2 DEF Policies!Init, ObjectsOfOne, NoticesCounted, Policies!Objects
<1> QED BY <1>3, <1>4, <1>5 DEF PoliciesInv

LEMMA PoliciesShow == PoliciesInv => Policies!TypeOK /\ Policies!ListenerKnows
<1> SUFFICES ASSUME PoliciesInv, NEW p \in PolicyIDs, ~Policies!UnderWay(p), p \notin unsure
             PROVE  heard[p] = Policies!IsActive(p)
  BY DEF PoliciesInv, Policies!ListenerKnows
<1>1. ~OnItsWay(p)
  BY DEF OnItsWay, Policies!UnderWay, Policies!Objects
<1>2. heard[p] <=> Policies!IsActive(p)
  BY <1>1 DEF PoliciesInv, SureKnown
<1>3. heard[p] \in BOOLEAN /\ Policies!IsActive(p) \in BOOLEAN
  BY DEF PoliciesInv, Policies!TypeOK, Policies!IsActive
<1> QED BY <1>2, <1>3

(* What a notice more, of p about o, does to the counts.                   *)
LEMMA Notified ==
    ASSUME Policies!TypeOK, NEW p \in PolicyIDs, NEW o \in 1..MaxPolicies, Policies!Notify(p, o)
    PROVE  /\ \A q \in PolicyIDs, x \in 1..MaxPolicies :
                notices'[q][x] \in {notices[q][x]} \cup (IF q = p /\ x = o THEN {notices[q][x] + 1} ELSE {})
           /\ \A q \in PolicyIDs : q # p => (q \in unsure' <=> q \in unsure)
           /\ p \notin unsure' => /\ \A x \in 1..MaxPolicies : notices[p][x] = 0
                                  /\ notices'[p][o] = 1
           /\ notices' \in [PolicyIDs -> [1..MaxPolicies -> Nat]] /\ unsure' \subseteq PolicyIDs
<1> USE DEF Policies!TypeOK, Policies!Objects, Policies!UnderWay
<1>1. \A q \in PolicyIDs, x \in 1..MaxPolicies : notices[q][x] \in Nat
  BY GovernanceAssumption DEF GovernanceAssumption
<1>2. CASE policiesRegistered /\ ~Policies!UnderWay(p)
  <2>1. notices' = [notices EXCEPT ![p][o] = @ + 1] /\ unsure' = unsure \ {p}
    BY <1>2 DEF Policies!Notify
  <2>2. \A q \in PolicyIDs, x \in 1..MaxPolicies :
            notices'[q][x] = IF q = p /\ x = o THEN notices[q][x] + 1 ELSE notices[q][x]
    BY <2>1
  <2>3. \A x \in 1..MaxPolicies : notices[p][x] = 0
    BY <1>1, <1>2
  <2> QED BY <1>1, <2>1, <2>2, <2>3
<1>3. CASE policiesRegistered /\ Policies!UnderWay(p)
  <2>1. notices' = [notices EXCEPT ![p][o] = @ + 1] /\ unsure' = unsure \cup {p}
    BY <1>3 DEF Policies!Notify
  <2>2. \A q \in PolicyIDs, x \in 1..MaxPolicies :
            notices'[q][x] = IF q = p /\ x = o THEN notices[q][x] + 1 ELSE notices[q][x]
    BY <2>1
  <2> QED BY <1>1, <2>1, <2>2
<1>4. CASE ~policiesRegistered
  <2>1. notices' = notices /\ unsure' = unsure \cup {p}
    BY <1>4 DEF Policies!Notify
  <2> QED BY <1>1, <2>1
<1> QED BY <1>2, <1>3, <1>4

(* A change to the policy of p alone, of which a notice is under way, or   *)
(* which leaves it as active as it was, keeps what the listener knows.     *)
LEMMA SureStays ==
    ASSUME PoliciesInv, NEW p \in PolicyIDs, NEW o \in 1..MaxPolicies,
           heard' = heard,
           \A q \in PolicyIDs : q # p => ((Policies!IsActive(q))' <=> Policies!IsActive(q)),
           \A x \in 1..MaxPolicies : x # o => (x \in active' <=> x \in active),
           \A q \in PolicyIDs : q # p => notices[q][o] = 0,
           \/ /\ Policies!Notify(p, o) /\ ((o \in active') <=> (Policies!IsActive(p))')
           \/ /\ Policies!Quiet /\ ((Policies!IsActive(p))' <=> Policies!IsActive(p))
              /\ notices[p][o] = 0 \/ (o \in active' <=> o \in active)
    PROVE  SureKnown'
<1>1. ASSUME NEW q \in PolicyIDs, q \notin unsure, ((Policies!IsActive(q))' <=> Policies!IsActive(q)),
             \A x \in 1..MaxPolicies : notices'[q][x] = notices[q][x],
             notices[q][o] = 0 \/ (o \in active' <=> o \in active)
      PROVE  \/ OnItsWay(q)' \/ ((heard'[q] <=> (Policies!IsActive(q))') /\ ~(Policies!UnderWay(q))')
  <2>1. CASE OnItsWay(q)
    <3>1. PICK y \in 1..MaxPolicies :
            /\ notices[q][y] = 1 /\ \A x \in 1..MaxPolicies : x # y => notices[q][x] = 0
            /\ (y \in active) <=> Policies!IsActive(q)
      BY <2>1 DEF OnItsWay
    <3>2. y \in active' <=> y \in active
      BY <1>1, <3>1
    <3> QED BY <1>1, <3>1, <3>2 DEF OnItsWay
  <2>2. CASE (heard[q] <=> Policies!IsActive(q)) /\ ~Policies!UnderWay(q)
    BY <1>1, <2>2 DEF Policies!UnderWay, Policies!Objects
  <2> QED BY <1>1, <2>1, <2>2 DEF PoliciesInv, SureKnown
<1>2. CASE Policies!Notify(p, o) /\ ((o \in active') <=> (Policies!IsActive(p))')
  <2>1. ASSUME NEW q \in PolicyIDs, q \notin unsure', q # p
        PROVE  OnItsWay(q)' \/ ((heard'[q] <=> (Policies!IsActive(q))') /\ ~(Policies!UnderWay(q))')
    <3>1. q \notin unsure /\ \A x \in 1..MaxPolicies : notices'[q][x] = notices[q][x]
      BY <1>2, <2>1, Notified DEF PoliciesInv
    <3> QED BY <1>1, <2>1, <3>1
  <2>2. ASSUME p \notin unsure' PROVE OnItsWay(p)'
    <3>1. /\ notices'[p][o] = 1
          /\ \A x \in 1..MaxPolicies : x # o => notices'[p][x] = 0
      BY <1>2, <2>2, Notified DEF PoliciesInv
    <3> QED BY <1>2, <3>1 DEF OnItsWay
  <2> QED BY <2>1, <2>2 DEF SureKnown
<1>3. CASE /\ Policies!Quiet /\ ((Policies!IsActive(p))' <=> Policies!IsActive(p))
           /\ notices[p][o] = 0 \/ (o \in active' <=> o \in active)
  <2>1. notices' = notices /\ unsure' = unsure
    BY <1>3 DEF Policies!Quiet
  <2> QED BY <1>1, <1>3, <2>1 DEF SureKnown
<1> QED BY <1>2, <1>3

LEMMA NoticesTyped ==
    ASSUME MaxPolicies \in Nat, NEW n \in [PolicyIDs -> [1..MaxPolicies -> Nat]],
           NEW v \in [1..MaxPolicies -> 0..MaxVersion],
           \A p \in PolicyIDs, o \in 1..MaxPolicies : n[p][o] <= v[o] + 1
    PROVE  n \in [PolicyIDs -> [1..MaxPolicies -> 0..(MaxVersion + 1)]]
<1>1. ASSUME NEW p \in PolicyIDs, NEW o \in 1..MaxPolicies PROVE n[p][o] \in 0..(MaxVersion + 1)
  <2>1. n[p][o] \in Nat /\ v[o] \in Nat /\ v[o] <= MaxVersion /\ MaxVersion \in Nat
    BY GovernanceAssumption DEF GovernanceAssumption
  <2>2. n[p][o] <= v[o] + 1
    OBVIOUS
  <2> QED BY <2>1, <2>2
<1> DEFINE Counts == 0..(MaxVersion + 1)
<1> HIDE DEF Counts
<1>2. \A p \in PolicyIDs : n[p] \in [1..MaxPolicies -> Counts]
  BY <1>1 DEF Counts
<1>3. n \in [PolicyIDs -> [1..MaxPolicies -> Counts]]
  BY <1>2
<1> QED BY <1>3 DEF Counts

LEMMA PoliciesStep == PoliciesInv /\ [Policies!Next]_(Policies!vars) => PoliciesInv'
<1> SUFFICES ASSUME PoliciesInv, [Policies!Next]_(Policies!vars) PROVE PoliciesInv'
  OBVIOUS
<1>0. MaxPolicies \in Nat /\ MaxVersion \in Nat /\ MaxVersion >= 1
  BY GovernanceAssumption DEF GovernanceAssumption
<1>00. /\ DOMAIN policies \subseteq PolicyIDs /\ \A p \in DOMAIN policies : policies[p] \in 1..policiesMade
       /\ policiesMade \in 0..MaxPolicies /\ active \subseteq 1..policiesMade
       /\ version \in [1..MaxPolicies -> 0..MaxVersion] /\ policiesRegistered \in BOOLEAN
       /\ notices \in [PolicyIDs -> [1..MaxPolicies -> Nat]]
       /\ heard \in [PolicyIDs -> BOOLEAN] /\ unsure \subseteq PolicyIDs /\ Policies!TypeOK
  BY <1>0, SMTT(60) DEF PoliciesInv, Policies!TypeOK, Policies!Objects
<1>000. /\ \A x \in 1..MaxPolicies : version[x] \in Nat
        /\ \A q \in PolicyIDs, x \in 1..MaxPolicies : notices[q][x] \in Nat
  BY <1>0, <1>00
<1>c. ASSUME SureKnown', ObjectsOfOne', NoticesCounted', version' \in [1..MaxPolicies -> 0..MaxVersion],
             notices' \in [PolicyIDs -> [1..MaxPolicies -> Nat]], DOMAIN policies' \subseteq PolicyIDs,
             \A q \in DOMAIN policies' : policies'[q] \in 1..policiesMade', unsure' \subseteq PolicyIDs,
             active' \subseteq 1..policiesMade', policiesMade' \in 0..MaxPolicies,
             policiesRegistered' \in BOOLEAN, heard' \in [PolicyIDs -> BOOLEAN]
      PROVE  PoliciesInv'
  <2>1. \A q \in PolicyIDs, x \in 1..MaxPolicies : notices'[q][x] <= version'[x] + 1
    <3> SUFFICES ASSUME NEW q \in PolicyIDs, NEW x \in 1..MaxPolicies
                 PROVE  notices'[q][x] <= version'[x] + 1
      OBVIOUS
    <3>1. version'[x] \in 0..MaxVersion
      BY <1>c
    <3>2. notices'[q] \in [1..MaxPolicies -> Nat]
      BY <1>c
    <3>3. \/ notices'[q][x] = 0
          \/ notices'[q][x] <= version'[x] + (IF Live(x)' THEN 0 ELSE 1)
      BY <1>c DEF NoticesCounted
    <3> HIDE DEF Live
    <3> QED BY <1>0, <3>1, <3>2, <3>3
  <2>2. notices' \in [PolicyIDs -> [1..MaxPolicies -> 0..(MaxVersion + 1)]]
    BY <1>0, <1>c, <2>1, NoticesTyped
  <2>3. Policies!TypeOK'
    BY <1>c, <2>2 DEF Policies!TypeOK, Policies!Objects
  <2> QED BY <1>c, <2>3 DEF PoliciesInv
<1>1. ASSUME NEW p \in PolicyIDs, NEW a \in BOOLEAN, Policies!AddNewPolicy(p, a) PROVE PoliciesInv'
  <2> DEFINE o == policiesMade + 1
  <2>1. /\ p \notin DOMAIN policies /\ policiesMade < MaxPolicies /\ policiesMade' = o
        /\ policies' = [q \in DOMAIN policies \cup {p} |-> IF q = p THEN o ELSE policies[q]]
        /\ version' = [version EXCEPT ![o] = 1]
        /\ active' = IF a THEN active \cup {o} ELSE active
        /\ \/ a /\ Policies!Notify(p, o)
           \/ ~a /\ Policies!Quiet
        /\ UNCHANGED <<policiesRegistered, heard>>
    BY <1>1 DEF Policies!AddNewPolicy
  <2>2. o \in 1..MaxPolicies /\ o \notin active /\ o > policiesMade
    BY <1>0, <1>00, <2>1
  <2>3. /\ version[o] = 0 /\ \A q \in PolicyIDs : notices[q][o] = 0
    BY <2>2 DEF PoliciesInv, NoticesCounted
  <2>4. /\ \A q \in PolicyIDs, x \in 1..MaxPolicies : (q # p \/ x # o) => notices'[q][x] = notices[q][x]
        /\ notices'[p][o] \in {0, 1}
        /\ notices' \in [PolicyIDs -> [1..MaxPolicies -> Nat]] /\ unsure' \subseteq PolicyIDs
    <3>1. CASE Policies!Notify(p, o)
      BY <1>00, <2>2, <2>3, <3>1, Notified
    <3>2. CASE Policies!Quiet
      BY <1>00, <2>3, <3>2 DEF Policies!Quiet
    <3> QED BY <2>1, <3>1, <3>2
  <2>5. /\ DOMAIN policies' = DOMAIN policies \cup {p} /\ policies'[p] = o
        /\ \A q \in DOMAIN policies : policies'[q] = policies[q] /\ policies[q] # o /\ q # p
    BY <1>00, <2>1, <2>2
  <2>6. version'[o] = 1 /\ \A x \in 1..MaxPolicies : x # o => version'[x] = version[x]
    BY <1>00, <2>1, <2>2
  <2>7. /\ \A q \in PolicyIDs : q # p => ((Policies!IsActive(q))' <=> Policies!IsActive(q))
        /\ \A x \in 1..MaxPolicies : x # o => (x \in active' <=> x \in active)
        /\ o \in active' <=> (Policies!IsActive(p))'
        /\ ~a => ((Policies!IsActive(p))' <=> Policies!IsActive(p))
    BY <2>1, <2>2, <2>5 DEF Policies!IsActive
  <2>8. SureKnown'
    <3> HIDE DEF o, Policies!IsActive
    <3> QED BY <2>1, <2>2, <2>3, <2>7, SureStays
  <2>9. ObjectsOfOne'
    BY <1>00, <2>3, <2>4, <2>5 DEF PoliciesInv, ObjectsOfOne
  <2>10. NoticesCounted'
    <3> SUFFICES ASSUME NEW x \in 1..MaxPolicies
                 PROVE  IF x > policiesMade' THEN version'[x] = 0 /\ \A q \in PolicyIDs : notices'[q][x] = 0
                        ELSE \A q \in PolicyIDs : notices'[q][x] <= version'[x] + (IF Live(x)' THEN 0 ELSE 1)
      BY DEF NoticesCounted
    <3>1. CASE x = o
      BY <2>1, <2>3, <2>4, <2>5, <2>6, <3>1 DEF Live
    <3>2. CASE x # o
      <4>1. Live(x)' <=> Live(x)
        BY <2>5, <3>2 DEF Live
      <4>2. (x > policiesMade') <=> (x > policiesMade)
        BY <1>00, <2>1, <3>2
      <4>3. version'[x] = version[x] /\ \A q \in PolicyIDs : notices'[q][x] = notices[q][x]
        BY <2>4, <2>6, <3>2
      <4> HIDE DEF Live
      <4> QED BY <4>1, <4>2, <4>3 DEF PoliciesInv, NoticesCounted
    <3> QED BY <3>1, <3>2
  <2>11. version' \in [1..MaxPolicies -> 0..MaxVersion]
    BY <1>0, <1>00, <2>1
  <2>12. DOMAIN policies' \subseteq PolicyIDs /\ \A q \in DOMAIN policies' : policies'[q] \in 1..policiesMade'
    BY <1>00, <2>1, <2>2, <2>5
  <2>13. active' \subseteq 1..policiesMade' /\ policiesMade' \in 0..MaxPolicies
    BY <1>00, <2>1, <2>2
  <2> HIDE DEF o
  <2> QED BY <1>c, <1>00, <2>1, <2>4, <2>8, <2>9, <2>10, <2>11, <2>12, <2>13
<1>2. ASSUME NEW p \in PolicyIDs, NEW a \in BOOLEAN, Policies!UpdatePolicy(p, a) PROVE PoliciesInv'
  <2>0. PICK o \in 1..MaxPolicies : o = policies[p] /\ o \in 1..policiesMade /\ p \in DOMAIN policies
    BY <1>0, <1>00, <1>2 DEF Policies!UpdatePolicy
  <2>1. /\ p \in DOMAIN policies /\ version[o] < MaxVersion
        /\ version' = [version EXCEPT ![o] = @ + 1]
        /\ active' = IF a THEN active \cup {o} ELSE active \ {o}
        /\ \/ Policies!Notify(p, o)
           \/ (a <=> o \in active) /\ Policies!Quiet
        /\ UNCHANGED <<policies, policiesMade, policiesRegistered, heard>>
    BY <1>2, <2>0 DEF Policies!UpdatePolicy
  <2>2. o \in 1..MaxPolicies /\ o <= policiesMade /\ o \in 1..policiesMade
    BY <1>0, <1>00, <2>0, <2>1
  <2>3. /\ \A q \in DOMAIN policies : q # p => policies[q] # o
        /\ \A q \in PolicyIDs : q # p => notices[q][o] = 0
    BY <1>000, <2>0, <2>1, <2>2 DEF PoliciesInv, ObjectsOfOne
  <2>4. /\ \A q \in PolicyIDs, x \in 1..MaxPolicies : (q # p \/ x # o) => notices'[q][x] = notices[q][x]
        /\ notices'[p][o] \in {notices[p][o], notices[p][o] + 1}
        /\ notices' \in [PolicyIDs -> [1..MaxPolicies -> Nat]] /\ unsure' \subseteq PolicyIDs
    <3>1. CASE Policies!Notify(p, o)
      BY <1>00, <2>2, <3>1, Notified
    <3>2. CASE Policies!Quiet
      BY <1>00, <3>2 DEF Policies!Quiet
    <3> QED BY <2>1, <3>1, <3>2
  <2>5. version'[o] = version[o] + 1 /\ \A x \in 1..MaxPolicies : x # o => version'[x] = version[x]
    BY <1>00, <2>1, <2>2
  <2>6. /\ \A q \in PolicyIDs : q # p => ((Policies!IsActive(q))' <=> Policies!IsActive(q))
        /\ \A x \in 1..MaxPolicies : x # o => (x \in active' <=> x \in active)
        /\ o \in active' <=> (Policies!IsActive(p))'
        /\ (a <=> o \in active) => /\ (Policies!IsActive(p))' <=> Policies!IsActive(p)
                                   /\ o \in active' <=> o \in active
    BY <2>0, <2>1, <2>2, <2>3 DEF Policies!IsActive
  <2>7. SureKnown'
    <3> HIDE DEF Policies!IsActive
    <3>1. CASE Policies!Notify(p, o)
      BY <2>1, <2>2, <2>3, <2>6, <3>1, SureStays
    <3>2. CASE (a <=> o \in active) /\ Policies!Quiet
      <4>1. /\ (Policies!IsActive(p))' <=> Policies!IsActive(p)
            /\ o \in active' <=> o \in active
        BY <2>6, <3>2
      <4> QED BY <2>1, <2>2, <2>3, <2>6, <3>2, <4>1, SureStays
    <3> QED BY <2>1, <3>1, <3>2
  <2>8. ObjectsOfOne'
    BY <1>000, <2>0, <2>1, <2>3, <2>4 DEF PoliciesInv, ObjectsOfOne
  <2>9. NoticesCounted'
    <3> SUFFICES ASSUME NEW x \in 1..MaxPolicies
                 PROVE  IF x > policiesMade' THEN version'[x] = 0 /\ \A q \in PolicyIDs : notices'[q][x] = 0
                        ELSE \A q \in PolicyIDs : notices'[q][x] <= version'[x] + (IF Live(x)' THEN 0 ELSE 1)
      BY DEF NoticesCounted
    <3>1. Live(x)' <=> Live(x)
      BY <2>1 DEF Live
    <3>2. CASE x = o
      <4>1. Live(o)
        BY <2>0, <2>1 DEF Live
      <4>2. \A q \in PolicyIDs : notices[q][o] <= version[o]
        BY <1>000, <2>2, <4>1 DEF PoliciesInv, NoticesCounted
      <4>3. \A q \in PolicyIDs : notices'[q][o] <= version'[o]
        BY <1>000, <2>2, <2>4, <2>5, <4>2, SMTT(60)
      <4>4. ~(x > policiesMade')
        BY <1>00, <2>1, <2>2, <3>2
      <4>5. version'[o] \in Nat
        BY <1>000, <2>2, <2>5
      <4> HIDE DEF Live
      <4> QED BY <3>1, <3>2, <4>1, <4>3, <4>4, <4>5
    <3>3. CASE x # o
      <4>1. version'[x] = version[x] /\ \A q \in PolicyIDs : notices'[q][x] = notices[q][x]
        BY <2>4, <2>5, <3>3
      <4> HIDE DEF Live
      <4> QED BY <2>1, <3>1, <4>1 DEF PoliciesInv, NoticesCounted
    <3> QED BY <3>2, <3>3
  <2>10. version' \in [1..MaxPolicies -> 0..MaxVersion]
    BY <1>0, <1>00, <1>000, <2>1, <2>2, SMTT(60)
  <2>11. active' \subseteq 1..policiesMade'
    BY <1>00, <2>1, <2>2
  <2> QED BY <1>c, <1>00, <2>1, <2>4, <2>7, <2>8, <2>9, <2>10, <2>11
<1>3. ASSUME NEW p \in PolicyIDs, Policies!RemovePolicy(p) PROVE PoliciesInv'
  <2>0. PICK o \in 1..MaxPolicies : o = policies[p] /\ o \in 1..policiesMade /\ p \in DOMAIN policies
    BY <1>0, <1>00, <1>3 DEF Policies!RemovePolicy
  <2>1. /\ p \in DOMAIN policies /\ active' = active \ {o} /\ Policies!Notify(p, o)
        /\ policies' = [q \in DOMAIN policies \ {p} |-> policies[q]]
        /\ UNCHANGED <<policiesMade, version, policiesRegistered, heard>>
    BY <1>3, <2>0 DEF Policies!RemovePolicy
  <2>2. o \in 1..MaxPolicies /\ o <= policiesMade
    BY <1>0, <1>00, <2>0, <2>1
  <2>3. /\ \A q \in DOMAIN policies : q # p => policies[q] # o
        /\ \A q \in PolicyIDs : q # p => notices[q][o] = 0
    BY <1>000, <2>0, <2>1, <2>2 DEF PoliciesInv, ObjectsOfOne
  <2>4. /\ \A q \in PolicyIDs, x \in 1..MaxPolicies : (q # p \/ x # o) => notices'[q][x] = notices[q][x]
        /\ notices'[p][o] \in {notices[p][o], notices[p][o] + 1}
        /\ notices' \in [PolicyIDs -> [1..MaxPolicies -> Nat]] /\ unsure' \subseteq PolicyIDs
    BY <1>00, <2>1, <2>2, Notified
  <2>5. /\ DOMAIN policies' = DOMAIN policies \ {p}
        /\ \A q \in DOMAIN policies \ {p} : policies'[q] = policies[q]
    BY <2>1
  <2>6. /\ \A q \in PolicyIDs : q # p => ((Policies!IsActive(q))' <=> Policies!IsActive(q))
        /\ \A x \in 1..MaxPolicies : x # o => (x \in active' <=> x \in active)
        /\ o \in active' <=> (Policies!IsActive(p))'
    BY <2>0, <2>1, <2>2, <2>3, <2>5 DEF Policies!IsActive
  <2>7. SureKnown'
    <3> HIDE DEF Policies!IsActive
    <3> QED BY <2>1, <2>2, <2>3, <2>6, SureStays
  <2>8. ObjectsOfOne'
    BY <1>000, <2>0, <2>1, <2>3, <2>4, <2>5 DEF PoliciesInv, ObjectsOfOne
  <2>9. NoticesCounted'
    <3> SUFFICES ASSUME NEW x \in 1..MaxPolicies
                 PROVE  IF x > policiesMade' THEN version'[x] = 0 /\ \A q \in PolicyIDs : notices'[q][x] = 0
                        ELSE \A q \in PolicyIDs : notices'[q][x] <= version'[x] + (IF Live(x)' THEN 0 ELSE 1)
      BY DEF NoticesCounted
    <3>1. CASE x = o
      <4>1. Live(o) /\ ~Live(o)'
        BY <2>0, <2>1, <2>3, <2>5 DEF Live
      <4>2. \A q \in PolicyIDs : notices[q][o] <= version[o]
        BY <1>000, <2>2, <4>1 DEF PoliciesInv, NoticesCounted
      <4>3. \A q \in PolicyIDs : notices'[q][o] <= version'[o] + 1
        BY <1>000, <2>1, <2>2, <2>4, <4>2, SMTT(60)
      <4>4. ~(x > policiesMade')
        BY <1>00, <2>1, <2>2, <3>1
      <4> HIDE DEF Live
      <4> QED BY <3>1, <4>1, <4>3, <4>4
    <3>2. CASE x # o
      <4>1. Live(x)' <=> Live(x)
        BY <2>0, <2>1, <2>5, <3>2 DEF Live
      <4>2. version'[x] = version[x] /\ \A q \in PolicyIDs : notices'[q][x] = notices[q][x]
        BY <2>1, <2>4, <3>2
      <4> HIDE DEF Live
      <4> QED BY <2>1, <4>1, <4>2 DEF PoliciesInv, NoticesCounted
    <3> QED BY <3>1, <3>2
  <2>10. DOMAIN policies' \subseteq PolicyIDs /\ \A q \in DOMAIN policies' : policies'[q] \in 1..policiesMade'
    BY <1>00, <2>1, <2>5
  <2> QED BY <1>c, <1>00, <2>1, <2>4, <2>7, <2>8, <2>9, <2>10
<1>4. CASE Policies!RegisterListener
  BY <1>4 DEF Policies!RegisterListener, PoliciesInv, Policies!TypeOK, ObjectsOfOne, NoticesCounted,
     Live, SureKnown, OnItsWay, Policies!IsActive, Policies!UnderWay, Policies!Objects
<1>5. ASSUME NEW p \in PolicyIDs, NEW o \in 1..MaxPolicies, Policies!OnPolicyChanged(p, o) PROVE PoliciesInv'
  <2>1. /\ notices[p][o] > 0 /\ notices' = [notices EXCEPT ![p][o] = @ - 1]
        /\ heard' = [heard EXCEPT ![p] = o \in active]
        /\ UNCHANGED <<policies, policiesMade, active, version, policiesRegistered, unsure>>
    BY <1>5 DEF Policies!OnPolicyChanged
  <2>2. /\ notices'[p][o] = notices[p][o] - 1
        /\ \A q \in PolicyIDs, x \in 1..MaxPolicies : (q # p \/ x # o) => notices'[q][x] = notices[q][x]
    BY <1>00, <2>1
  <2>3. notices' \in [PolicyIDs -> [1..MaxPolicies -> Nat]]
    <3>1. notices[p][o] - 1 \in Nat
      BY <1>000, <2>1
    <3> QED BY <1>00, <2>1, <3>1
  <2>4. \A q \in PolicyIDs, x \in 1..MaxPolicies : notices'[q][x] \in Nat /\ notices'[q][x] <= notices[q][x]
    <3> SUFFICES ASSUME NEW q \in PolicyIDs, NEW x \in 1..MaxPolicies
                 PROVE  notices'[q][x] \in Nat /\ notices'[q][x] <= notices[q][x]
      OBVIOUS
    <3>1. notices'[q][x] \in Nat
      BY <2>3
    <3>2. notices[q][x] \in Nat /\ notices[p][o] \in Nat
      BY <1>000
    <3> QED BY <2>2, <3>1, <3>2
  <2>5. \A x \in 1..MaxPolicies : Live(x)' <=> Live(x)
    BY <2>1 DEF Live
  <2>6. \A q \in PolicyIDs : (Policies!IsActive(q))' <=> Policies!IsActive(q)
    BY <2>1 DEF Policies!IsActive
  <2>7. (heard'[p] <=> o \in active) /\ \A q \in PolicyIDs : q # p => heard'[q] = heard[q]
    BY <1>00, <2>1
  <2>8. SureKnown'
    <3> SUFFICES ASSUME NEW q \in PolicyIDs, q \notin unsure
                 PROVE  OnItsWay(q)' \/ ((heard'[q] <=> (Policies!IsActive(q))') /\ ~(Policies!UnderWay(q))')
      BY <2>1 DEF SureKnown
    <3>1. OnItsWay(q) \/ ((heard[q] <=> Policies!IsActive(q)) /\ ~Policies!UnderWay(q))
      BY DEF PoliciesInv, SureKnown
    <3>2. CASE q = p
      <4>1. OnItsWay(p)
        BY <2>1, <3>1, <3>2 DEF Policies!UnderWay, Policies!Objects
      <4>2. /\ notices[p][o] = 1 /\ \A x \in 1..MaxPolicies : x # o => notices[p][x] = 0
            /\ o \in active <=> Policies!IsActive(p)
        BY <2>1, <4>1 DEF OnItsWay
      <4>3. \A x \in 1..MaxPolicies : notices'[p][x] = 0
        BY <2>2, <4>2
      <4>4. ~(Policies!UnderWay(p))'
        BY <4>3 DEF Policies!UnderWay, Policies!Objects
      <4> HIDE DEF Policies!IsActive, Policies!UnderWay
      <4> QED BY <2>6, <2>7, <3>2, <4>2, <4>4
    <3>3. CASE q # p
      <4>1. \A x \in 1..MaxPolicies : notices'[q][x] = notices[q][x]
        BY <2>2, <3>3
      <4>2. OnItsWay(q) => OnItsWay(q)'
        BY <2>1, <2>6, <4>1 DEF OnItsWay
      <4>3. ~Policies!UnderWay(q) => ~(Policies!UnderWay(q))'
        BY <4>1 DEF Policies!UnderWay, Policies!Objects
      <4>4. heard'[q] = heard[q]
        BY <2>7, <3>3
      <4> QED BY <2>6, <3>1, <4>2, <4>3, <4>4
    <3> QED BY <3>2, <3>3
  <2>9. ObjectsOfOne'
    BY <1>000, <2>1, <2>4 DEF PoliciesInv, ObjectsOfOne
  <2>10. NoticesCounted'
    <3> SUFFICES ASSUME NEW x \in 1..MaxPolicies
                 PROVE  IF x > policiesMade' THEN version'[x] = 0 /\ \A q \in PolicyIDs : notices'[q][x] = 0
                        ELSE \A q \in PolicyIDs : notices'[q][x] <= version'[x] + (IF Live(x)' THEN 0 ELSE 1)
      BY DEF NoticesCounted
    <3>1. (Live(x)' <=> Live(x)) /\ version'[x] = version[x] /\ version[x] \in Nat
      BY <1>000, <2>1, <2>5
    <3>2. \A q \in PolicyIDs : /\ notices'[q][x] \in Nat /\ notices[q][x] \in Nat
                                /\ notices'[q][x] <= notices[q][x]
      BY <1>000, <2>4
    <3> HIDE DEF Live
    <3> QED BY <2>1, <3>1, <3>2 DEF PoliciesInv, NoticesCounted
  <2>11. heard' \in [PolicyIDs -> BOOLEAN]
    BY <1>00, <2>1
  <2> QED BY <1>c, <1>00, <2>1, <2>3, <2>8, <2>9, <2>10, <2>11
<1>6. CASE UNCHANGED Policies!vars
  BY <1>6 DEF Policies!vars, PoliciesInv, Policies!TypeOK, ObjectsOfOne, NoticesCounted,
     Live, SureKnown, OnItsWay, Policies!IsActive, Policies!UnderWay, Policies!Objects
<1> QED BY <1>1, <1>2, <1>3, <1>4, <1>5, <1>6 DEF Policies!Next, Policies!Objects
-----------------------------------------------------------------------------
LEMMA LeastOf ==
    ASSUME NEW S, S \subseteq Nat, S # {}
    PROVE  Errors!Min(S) \in S /\ \A i \in S : Errors!Min(S) <= i
<1> DEFINE R == {ss \in Nat \X Nat : ss[1] < ss[2]}
<1>0. R = OpToRel(<, Nat)
  BY Zenon DEF OpToRel
<1> HIDE DEF R
<1>1. PICK x \in S : \A y \in S : ~(<<y, x>> \in R)
  BY <1>0, NatLessThanWellFounded, WFMin, Zenon
<1>2. \A y \in S : x <= y
  <2>1. ASSUME NEW y \in S, y < x PROVE FALSE
    <3>1. <<y, x>> \in Nat \X Nat /\ <<y, x>>[1] = y /\ <<y, x>>[2] = x
      OBVIOUS
    <3>2. <<y, x>> \in R
      BY <2>1, <3>1 DEF R
    <3> QED BY <1>1, <3>2
  <2> QED BY <2>1
<1> QED BY <1>2 DEF Errors!Min

LEMMA InsertedAt ==
    ASSUME NEW S, NEW s \in Seq(S), NEW i \in 1..(Len(s) + 1), NEW e \in S,
           NEW t, t = Errors!InsertAt(s, i, e)
    PROVE  /\ t \in Seq(S) /\ Len(t) = Len(s) + 1
           /\ \A j \in 1..Len(t) : t[j] = IF j < i THEN s[j] ELSE IF j = i THEN e ELSE s[j - 1]
<1> DEFINE a == SubSeq(s, 1, i - 1)
           b == SubSeq(s, i, Len(s))
           ae == a \o <<e>>
           r == ae \o b
<1>0. Len(s) \in Nat
  BY LenProperties
<1>1. a \in Seq(S) /\ Len(a) = i - 1 /\ \A j \in 1..(i - 1) : a[j] = s[j]
  BY <1>0, SubSeqProperties
<1>2. b \in Seq(S) /\ Len(b) = Len(s) - i + 1 /\ \A j \in 1..(Len(s) - i + 1) : b[j] = s[i + j - 1]
  BY <1>0, SubSeqProperties
<1>3. <<e>> \in Seq(S) /\ Len(<<e>>) = 1
  OBVIOUS
<1> HIDE DEF a, b
<1>4. /\ ae \in Seq(S) /\ Len(ae) = i
      /\ \A j \in 1..i : ae[j] = IF j < i THEN s[j] ELSE e
  BY <1>0, <1>1, <1>3, ConcatProperties
<1> HIDE DEF ae
<1>5. r \in Seq(S) /\ Len(r) = Len(s) + 1
  <2>1. r \in Seq(S) /\ Len(r) = Len(ae) + Len(b)
    BY <1>2, <1>4, ConcatProperties
  <2> HIDE DEF r
  <2> QED BY <1>0, <1>2, <1>4, <2>1
<1>6. ASSUME NEW j \in 1..Len(r)
      PROVE  r[j] = IF j < i THEN s[j] ELSE IF j = i THEN e ELSE s[j - 1]
  <2>1. CASE j <= i
    <3>1. r[j] = ae[j] /\ j \in 1..i
      BY <1>0, <1>2, <1>4, <1>5, <2>1, ConcatProperties
    <3> QED BY <1>4, <2>1, <3>1
  <2>2. CASE j > i
    <3>1. r[j] = b[j - i] /\ j - i \in 1..(Len(s) - i + 1)
      BY <1>0, <1>2, <1>4, <1>5, <2>2, ConcatProperties
    <3>2. PICK k \in 1..(Len(s) - i + 1) : k = j - i
      BY <3>1
    <3>3. b[k] = s[i + k - 1] /\ i + k - 1 = j - 1
      BY <1>0, <1>2, <3>2
    <3>4. r[j] = s[j - 1]
      BY <3>1, <3>2, <3>3
    <3> QED BY <1>0, <2>2, <3>4
  <2> QED BY <1>0, <1>5, <2>1, <2>2
<1>7. r = t
  BY DEF Errors!InsertAt, ae, a, b
<1> HIDE DEF r
<1> QED BY <1>5, <1>6, <1>7, Zenon
-----------------------------------------------------------------------------
(* Error handling.  Handlers are kept by priority.                         *)
HandlerKinds == {"graceful", "breaker", "logging"}
Sorted(hs) == \A i, j \in 1..Len(hs) : i < j => Errors!Priority[hs[i]] >= Errors!Priority[hs[j]]
(* Callers on their way to a count of the breaker.                         *)
BeforeCount == {"log", "recover", "pick", "breaker", "count"}
Counting(cl) == {c \in ErrorCallers : cl[c].at \in BeforeCount}
Calls == {Errors!Out} \cup [at : Errors!Stages, error : Errors!Kinds]
         \cup [at : {"count"}, error : Errors!Kinds, read : Nat]

HandlersKept == errorsHandlers \in Seq(HandlerKinds) /\ Sorted(errorsHandlers)
ErrorsCounted ==
    /\ errors \in 0..MaxErrors /\ errorsTotal \in 0..errors
    /\ byCategory \in [{"network", "system", "other"} -> 0..errors]
(* Each error is counted once as a failure, at most, and what a caller has *)
(* read of the count is no more than the failures.                         *)
FailuresCounted ==
    /\ failures \in Nat /\ failureCount \in 0..failures
    /\ failures + Cardinality(Counting(call)) <= errors
    /\ \A c \in ErrorCallers : call[c].at = "count" => call[c].read <= failures
BreakerTested ==
    /\ isOpen => failures >= BreakerThreshold
    /\ (\A c \in ErrorCallers : call[c].at # "open") /\ ~isOpen => failureCount < BreakerThreshold

ErrorsInv ==
    /\ call \in [ErrorCallers -> Calls]
    /\ isOpen \in BOOLEAN /\ signalled \in BOOLEAN /\ exited \in BOOLEAN
    /\ HandlersKept /\ ErrorsCounted /\ FailuresCounted /\ BreakerTested

LEMMA CallIs ==
    ASSUME NEW x \in Calls
    PROVE  /\ x = Errors!Out <=> x.at = "out"
           /\ x.at \in Errors!Stages \cup {"out", "count"}
           /\ x # Errors!Out => x.error \in Errors!Kinds
           /\ x.at = "count" => x.read \in Nat
<1>1. CASE x = Errors!Out
  BY <1>1 DEF Errors!Out, Errors!Stages
<1>2. CASE x \in [at : Errors!Stages, error : Errors!Kinds]
  BY <1>2 DEF Errors!Out, Errors!Stages
<1>3. CASE x \in [at : {"count"}, error : Errors!Kinds, read : Nat]
  BY <1>3 DEF Errors!Out, Errors!Stages
<1> QED BY <1>1, <1>2, <1>3 DEF Calls

LEMMA Goes ==
    ASSUME call \in [ErrorCallers -> Calls], NEW c \in ErrorCallers, NEW from,
           NEW to \in Errors!Stages \cup {"out"}, Errors!Go(c, from, to)
    PROVE  /\ call[c].at = from /\ call' \in [ErrorCallers -> Calls] /\ call'[c].at = to
           /\ \A d \in ErrorCallers : d # c => call'[d] = call[d]
<1>1. call[c] # Errors!Out /\ call[c].at = from /\ call[c] \in Calls
  BY DEF Errors!Go
<1>2. call[c].error \in Errors!Kinds
  BY <1>1, CallIs
<1>3. PICK x \in Calls : x.at = to /\ call' = [call EXCEPT ![c] = x]
  <2>1. CASE to = "out"
    <3>1. call' = [call EXCEPT ![c] = Errors!Out]
      BY <2>1 DEF Errors!Go
    <3>2. Errors!Out \in Calls /\ Errors!Out.at = to
      BY <2>1 DEF Calls, Errors!Out
    <3> QED BY <3>1, <3>2
  <2>2. CASE to # "out"
    <3>1. call' = [call EXCEPT ![c] = [at |-> to, error |-> call[c].error]]
      BY <2>2 DEF Errors!Go
    <3>2. [at |-> to, error |-> call[c].error] \in Calls
      BY <1>2, <2>2 DEF Calls
    <3> QED BY <3>1, <3>2
  <2> QED BY <2>1, <2>2
<1> QED BY <1>1, <1>3

LEMMA ErrorsInit == Errors!Init => ErrorsInv
<1> SUFFICES ASSUME Errors!Init PROVE ErrorsInv
  OBVIOUS
<1>1. /\ BreakerThreshold \in Nat \ {0} /\ MaxErrors \in Nat
  BY GovernanceAssumption DEF GovernanceAssumption
<1>2. call = [c \in ErrorCallers |-> Errors!Out] /\ Errors!Out \in Calls
  BY DEF Errors!Init, Calls
<1>3. Counting(call) = {}
  BY <1>2 DEF Counting, BeforeCount, Errors!Out
<1>4. Cardinality(Counting(call)) = 0
  BY <1>3, FS_EmptySet
<1>5. \A c \in ErrorCallers : call[c].at = "out"
  BY <1>2 DEF Errors!Out
<1>6. FailuresCounted /\ BreakerTested
  BY <1>1, <1>4, <1>5 DEF Errors!Init, FailuresCounted, BreakerTested
<1>7. ErrorsCounted
  BY <1>1 DEF Errors!Init, ErrorsCounted
<1>8. HandlersKept
  <2>1. errorsHandlers = <<>>
    BY DEF Errors!Init
  <2> QED BY <2>1 DEF HandlersKept, Sorted
<1>9. isOpen = FALSE /\ signalled = FALSE /\ exited = FALSE
  BY DEF Errors!Init
<1> QED BY <1>2, <1>6, <1>7, <1>8, <1>9 DEF ErrorsInv

(* Wherever a handler is put, by its priority, the others keep their order.*)
LEMMA Registered ==
    ASSUME HandlersKept, NEW h \in HandlerKinds, Errors!RegisterHandler(h)
    PROVE  HandlersKept'
<1> DEFINE hs == errorsHandlers
           n == Len(hs)
           P(i) == Errors!Priority[hs[i]]
           at == IF Errors!Lower(h) = {} THEN n + 1 ELSE Errors!Min(Errors!Lower(h))
<1>1. hs \in Seq(HandlerKinds) /\ n \in Nat /\ \A i \in 1..n : hs[i] \in HandlerKinds
  BY LenProperties, ElementOfSeq DEF HandlersKept
<1>2. \A g \in HandlerKinds : Errors!Priority[g] \in Nat
  BY DEF HandlerKinds, Errors!Priority
<1>3. Errors!Lower(h) \subseteq 1..n /\ \A i \in 1..n : i \in Errors!Lower(h) <=> Errors!Priority[h] > P(i)
  BY DEF Errors!Lower
<1>4. /\ at \in 1..(n + 1)
      /\ \A i \in 1..n : i < at => ~(Errors!Priority[h] > P(i))
      /\ at # n + 1 => Errors!Priority[h] > P(at)
  <2>1. CASE Errors!Lower(h) = {}
    BY <1>1, <1>3, <2>1
  <2>2. CASE Errors!Lower(h) # {}
    <3>1. at \in Errors!Lower(h) /\ \A i \in Errors!Lower(h) : at <= i
      BY <1>1, <1>3, <2>2, LeastOf
    <3> HIDE DEF at, P
    <3> QED BY <1>1, <1>3, <3>1
  <2> QED BY <2>1, <2>2
<1>5. errorsHandlers' = Errors!InsertAt(hs, at, h)
  BY DEF Errors!RegisterHandler
<1> HIDE DEF at
<1>6. /\ errorsHandlers' \in Seq(HandlerKinds) /\ Len(errorsHandlers') = n + 1
      /\ \A j \in 1..(n + 1) :
            errorsHandlers'[j] = IF j < at THEN hs[j] ELSE IF j = at THEN h ELSE hs[j - 1]
  <2>1. PICK t : t = errorsHandlers'
    OBVIOUS
  <2>2. at \in 1..(Len(hs) + 1) /\ t = Errors!InsertAt(hs, at, h) /\ hs \in Seq(HandlerKinds)
    BY <1>1, <1>4, <1>5, <2>1
  <2>3. /\ t \in Seq(HandlerKinds) /\ Len(t) = Len(hs) + 1
        /\ \A j \in 1..Len(t) : t[j] = IF j < at THEN hs[j] ELSE IF j = at THEN h ELSE hs[j - 1]
    BY <2>2, InsertedAt, SMTT(60)
  <2> QED BY <2>1, <2>3
<1>7. ASSUME NEW i \in 1..(n + 1), NEW j \in 1..(n + 1), i < j
      PROVE  Errors!Priority[errorsHandlers'[i]] >= Errors!Priority[errorsHandlers'[j]]
  <2> DEFINE Q(k) == Errors!Priority[errorsHandlers'[k]]
             p == Errors!Priority[h]
  <2>1. /\ Q(i) = IF i < at THEN P(i) ELSE IF i = at THEN p ELSE P(i - 1)
        /\ Q(j) = IF j < at THEN P(j) ELSE IF j = at THEN p ELSE P(j - 1)
    BY <1>6
  <2>2. \A k \in 1..n : P(k) \in Nat
    BY <1>1, <1>2
  <2>3. p \in Nat
    BY <1>2
  <2>4. \A k, l \in 1..n : k < l => P(k) >= P(l)
    BY DEF HandlersKept, Sorted
  <2>5. \A k \in 1..n : k >= at => p >= P(k)
    <3> SUFFICES ASSUME NEW k \in 1..n, k >= at PROVE p >= P(k)
      OBVIOUS
    <3>1. at \in 1..n /\ p > P(at)
      BY <1>1, <1>4
    <3> HIDE DEF P, p
    <3> QED BY <1>1, <2>2, <2>3, <2>4, <3>1
  <2>6. \A k \in 1..n : k < at => P(k) >= p
    <3> HIDE DEF P
    <3> QED BY <1>4, <2>2, <2>3
  <2> HIDE DEF P, Q, p
  <2>7. Q(i) >= Q(j)
    BY <1>1, <1>4, <1>7, <2>1, <2>2, <2>3, <2>4, <2>5, <2>6, SMTT(60)
  <2> QED BY <2>7 DEF Q
<1> QED BY <1>6, <1>7 DEF HandlersKept, Sorted

LEMMA CountsFall ==
    ASSUME NEW f \in Nat, NEW n \in Nat, NEW S, NEW T, IsFiniteSet(T), S \subseteq T,
           f + Cardinality(T) <= n
    PROVE  f + Cardinality(S) <= n
BY FS_Subset, FS_CardinalityType

(* A step that no failure is counted at.                                   *)
LEMMA NothingFails ==
    ASSUME ErrorsInv, UNCHANGED <<Errors!breakerVars, errors>>,
           Counting(call') \subseteq Counting(call),
           \A c \in ErrorCallers : call'[c].at = "count" =>
               call'[c] = call[c] \/ call'[c].read = failureCount,
           \A c \in ErrorCallers : call[c].at = "open" => call'[c].at = "open"
    PROVE  FailuresCounted' /\ BreakerTested'
<1>1. UNCHANGED <<failureCount, isOpen, failures, errors>>
  BY DEF Errors!breakerVars
<1>2. IsFiniteSet(Counting(call)) /\ errors \in Nat /\ failures \in Nat
  BY GovernanceAssumption, FS_Subset DEF GovernanceAssumption, Counting, ErrorsInv, ErrorsCounted, FailuresCounted
<1>3. failures + Cardinality(Counting(call')) <= errors
  BY <1>2, CountsFall DEF ErrorsInv, FailuresCounted
<1>4. \A c \in ErrorCallers : call'[c].at = "count" => call'[c].read <= failures
  BY <1>2 DEF ErrorsInv, FailuresCounted
<1>5. FailuresCounted'
  BY <1>1, <1>3, <1>4 DEF ErrorsInv, FailuresCounted
<1>6. BreakerTested'
  BY <1>1 DEF ErrorsInv, BreakerTested
<1> QED BY <1>5, <1>6

LEMMA ErrorsStep == ErrorsInv /\ [Errors!Next]_(Errors!vars) => ErrorsInv'
<1> SUFFICES ASSUME ErrorsInv, [Errors!Next]_(Errors!vars) PROVE ErrorsInv'
  OBVIOUS
<1> USE DEF Errors!metricVars, Errors!breakerVars
<1>0. /\ BreakerThreshold \in Nat \ {0} /\ MaxErrors \in Nat /\ IsFiniteSet(ErrorCallers)
      /\ call \in [ErrorCallers -> Calls]
      /\ errors \in Nat /\ failures \in Nat /\ failureCount \in Nat /\ failureCount <= failures
      /\ IsFiniteSet(Counting(call))
  BY GovernanceAssumption, FS_Subset
  DEF GovernanceAssumption, ErrorsInv, ErrorsCounted, FailuresCounted, Counting
<1>a. ASSUME UNCHANGED errorsHandlers PROVE HandlersKept'
  BY <1>a DEF ErrorsInv, HandlersKept
<1>b. ASSUME UNCHANGED Errors!metricVars PROVE ErrorsCounted'
  BY <1>b DEF ErrorsInv, ErrorsCounted
<1>c. ASSUME UNCHANGED call, UNCHANGED <<Errors!breakerVars, errors>> PROVE FailuresCounted' /\ BreakerTested'
  BY <1>c, NothingFails
<1>1. ASSUME NEW h \in DOMAIN Errors!Priority, Errors!RegisterHandler(h) PROVE ErrorsInv'
  <2>1. h \in HandlerKinds
    BY DEF HandlerKinds, Errors!Priority
  <2>2. HandlersKept'
    BY <1>1, <2>1, Registered DEF ErrorsInv
  <2>3. UNCHANGED <<Errors!metricVars, call, Errors!breakerVars, errors, signalled, exited>>
    BY <1>1 DEF Errors!RegisterHandler
  <2> QED BY <1>b, <1>c, <2>2, <2>3 DEF ErrorsInv
<1>2. ASSUME NEW c \in ErrorCallers, NEW e \in Errors!Kinds, Errors!Handle(c, e) PROVE ErrorsInv'
  <2> DEFINE x == [at |-> "log", error |-> e]
  <2>1. /\ call[c] = Errors!Out /\ errors < MaxErrors /\ call' = [call EXCEPT ![c] = x]
        /\ errorsTotal' = errorsTotal + 1
        /\ byCategory' = [byCategory EXCEPT ![Errors!Category(e)] = @ + 1]
        /\ errors' = errors + 1
        /\ UNCHANGED <<errorsHandlers, failureCount, isOpen, failures, signalled, exited>>
    BY <1>2 DEF Errors!Handle
  <2>2. x \in Calls /\ x.at = "log"
    BY DEF Calls, Errors!Stages
  <2>3. call[c].at = "out"
    BY <2>1 DEF Errors!Out
  <2> HIDE DEF x
  <2>4. ErrorsCounted'
    <3>1. errors' \in 0..MaxErrors /\ errorsTotal' \in 0..errors'
      BY <1>0, <2>1 DEF ErrorsInv, ErrorsCounted
    <3>2. byCategory \in [{"network", "system", "other"} -> 0..errors]
      BY DEF ErrorsInv, ErrorsCounted
    <3>3. \A k \in 0..errors : k \in 0..errors' /\ k + 1 \in 0..errors'
      BY <1>0, <2>1
    <3>4. byCategory' \in [{"network", "system", "other"} -> 0..errors']
      BY <2>1, <3>2, <3>3
    <3> QED BY <3>1, <3>4 DEF ErrorsCounted
  <2>5. Counting(call') = Counting(call) \cup {c} /\ c \notin Counting(call)
    BY <1>0, <2>1, <2>2, <2>3 DEF Counting, BeforeCount
  <2>6. Cardinality(Counting(call')) = Cardinality(Counting(call)) + 1
    <3>1. Cardinality(Counting(call) \cup {c}) = Cardinality(Counting(call)) + 1
      BY <1>0, <2>5, FS_AddElement
    <3> QED BY <2>5, <3>1, Zenon
  <2>7. Cardinality(Counting(call)) \in Nat
    BY <1>0, FS_CardinalityType
  <2>8. FailuresCounted'
    <3>1. failures' + Cardinality(Counting(call')) <= errors'
      BY <1>0, <2>1, <2>6, <2>7 DEF ErrorsInv, FailuresCounted
    <3>2. \A d \in ErrorCallers : call'[d].at = "count" => call'[d] = call[d]
      BY <1>0, <2>1, <2>2
    <3> QED BY <2>1, <3>1, <3>2 DEF ErrorsInv, FailuresCounted
  <2>9. BreakerTested'
    BY <1>0, <2>1, <2>2, <2>3 DEF ErrorsInv, BreakerTested
  <2>10. call' \in [ErrorCallers -> Calls]
    BY <1>0, <2>1, <2>2
  <2> QED BY <1>a, <2>1, <2>4, <2>8, <2>9, <2>10 DEF ErrorsInv
<1>3. ASSUME NEW c \in ErrorCallers, NEW from \in Errors!Stages, NEW to \in Errors!Stages \cup {"out"},
             Errors!Go(c, from, to), from # "open", to \in BeforeCount => from \in BeforeCount,
             UNCHANGED <<errorsHandlers, Errors!metricVars, Errors!breakerVars>>,
             signalled' \in BOOLEAN, exited' \in BOOLEAN
      PROVE  ErrorsInv'
  <2>1. /\ call[c].at = from /\ call' \in [ErrorCallers -> Calls] /\ call'[c].at = to
        /\ \A d \in ErrorCallers : d # c => call'[d] = call[d]
    BY <1>0, <1>3, Goes
  <2>2. to # "count"
    BY DEF Errors!Stages
  <2>3. Counting(call') \subseteq Counting(call)
    BY <1>3, <2>1 DEF Counting
  <2>4. FailuresCounted' /\ BreakerTested'
    BY <1>3, <2>1, <2>2, <2>3, NothingFails
  <2> QED BY <1>3, <1>a, <1>b, <2>1, <2>4 DEF ErrorsInv
<1>4. ASSUME NEW c \in ErrorCallers, Errors!logError(c) PROVE ErrorsInv'
  <2>1. Errors!Go(c, "log", "recover") /\ exited' \in BOOLEAN /\ UNCHANGED signalled
    BY <1>4 DEF Errors!logError
  <2> QED BY <1>3, <1>4, <2>1 DEF Errors!logError, Errors!Stages, BeforeCount, ErrorsInv
<1>5. ASSUME NEW c \in ErrorCallers, Errors!tryRecover(c) PROVE ErrorsInv'
  BY <1>3, <1>5 DEF Errors!tryRecover, Errors!Stages, BeforeCount, ErrorsInv
<1>6. ASSUME NEW c \in ErrorCallers, Errors!handleError(c) PROVE ErrorsInv'
  <2>1. PICK to \in {"graceful", "breaker", "report"} : Errors!Go(c, "pick", to)
    BY <1>6 DEF Errors!handleError, Errors!Stage
  <2> QED BY <1>3, <1>6, <2>1 DEF Errors!handleError, Errors!Stages, BeforeCount, ErrorsInv
<1>7. ASSUME NEW c \in ErrorCallers, Errors!SignalShutdown(c) PROVE ErrorsInv'
  BY <1>3, <1>7 DEF Errors!SignalShutdown, Errors!Stages, BeforeCount, ErrorsInv
<1>8. ASSUME NEW c \in ErrorCallers, Errors!ReportBegins(c) PROVE ErrorsInv'
  <2>1. exited' \in BOOLEAN
    BY <1>8 DEF Errors!ReportBegins, ErrorsInv
  <2> QED BY <1>3, <1>8, <2>1 DEF Errors!ReportBegins, Errors!Stages, BeforeCount, ErrorsInv
<1>9. ASSUME NEW c \in ErrorCallers, Errors!ReportEnds(c) PROVE ErrorsInv'
  BY <1>3, <1>9 DEF Errors!ReportEnds, Errors!Stages, BeforeCount, ErrorsInv
<1>10. ASSUME NEW c \in ErrorCallers, Errors!BreakerRead(c) PROVE ErrorsInv'
  <2> DEFINE x == [at |-> "count", error |-> call[c].error, read |-> failureCount]
  <2>1. /\ call[c] # Errors!Out /\ call[c].at = "breaker" /\ call' = [call EXCEPT ![c] = x]
        /\ UNCHANGED <<errorsHandlers, Errors!metricVars, Errors!breakerVars, signalled, exited>>
    BY <1>10 DEF Errors!BreakerRead
  <2>2. call[c].error \in Errors!Kinds
    BY <1>0, <2>1, CallIs
  <2>3. x \in Calls /\ x.at = "count" /\ x.read = failureCount
    BY <1>0, <2>2 DEF Calls
  <2> HIDE DEF x
  <2>4. /\ call' \in [ErrorCallers -> Calls] /\ call'[c] = x
        /\ \A d \in ErrorCallers : d # c => call'[d] = call[d]
    BY <1>0, <2>1, <2>3
  <2>5. Counting(call') \subseteq Counting(call)
    BY <2>1, <2>4 DEF Counting, BeforeCount
  <2>6. FailuresCounted' /\ BreakerTested'
    BY <2>1, <2>3, <2>4, <2>5, NothingFails
  <2> QED BY <1>a, <1>b, <2>1, <2>4, <2>6 DEF ErrorsInv
<1>11. ASSUME NEW c \in ErrorCallers, Errors!BreakerCount(c) PROVE ErrorsInv'
  <2>1. /\ Errors!Go(c, "count", "open") /\ failureCount' = call[c].read + 1 /\ failures' = failures + 1
        /\ UNCHANGED <<errorsHandlers, Errors!metricVars, isOpen, signalled, exited>>
    BY <1>11 DEF Errors!BreakerCount
  <2>2. /\ call[c].at = "count" /\ call' \in [ErrorCallers -> Calls] /\ call'[c].at = "open"
        /\ \A d \in ErrorCallers : d # c => call'[d] = call[d]
    BY <1>0, <2>1, Goes DEF Errors!Stages
  <2>3. call[c].read \in Nat /\ call[c].read <= failures
    BY <1>0, <2>2, CallIs DEF ErrorsInv, FailuresCounted
  <2>4. Counting(call') = Counting(call) \ {c} /\ c \in Counting(call)
    BY <2>2 DEF Counting, BeforeCount
  <2>5. Cardinality(Counting(call')) = Cardinality(Counting(call)) - 1
    <3>1. Cardinality(Counting(call) \ {c}) = Cardinality(Counting(call)) - 1
      BY <1>0, <2>4, FS_RemoveElement
    <3> QED BY <2>4, <3>1, Zenon
  <2>6. Cardinality(Counting(call)) \in Nat
    BY <1>0, FS_CardinalityType
  <2>7. FailuresCounted'
    <3>1. failures' + Cardinality(Counting(call')) <= errors'
      BY <1>0, <2>1, <2>5, <2>6 DEF ErrorsInv, FailuresCounted
    <3>2. failures' \in Nat /\ failureCount' \in 0..failures'
      BY <1>0, <2>1, <2>3
    <3>3. \A d \in ErrorCallers : call'[d].at = "count" => call'[d].read <= failures'
      <4> SUFFICES ASSUME NEW d \in ErrorCallers, call'[d].at = "count" PROVE call'[d].read <= failures'
        OBVIOUS
      <4>1. call'[d] = call[d]
        BY <2>2
      <4>2. call[d].read \in Nat /\ call[d].read <= failures
        BY <1>0, <4>1, CallIs DEF ErrorsInv, FailuresCounted
      <4> QED BY <1>0, <2>1, <4>1, <4>2
    <3> QED BY <3>1, <3>2, <3>3 DEF FailuresCounted
  <2>8. BreakerTested'
    BY <1>0, <2>1, <2>2 DEF ErrorsInv, BreakerTested
  <2> QED BY <1>a, <1>b, <2>1, <2>2, <2>7, <2>8 DEF ErrorsInv
<1>12. ASSUME NEW c \in ErrorCallers, Errors!BreakerOpen(c) PROVE ErrorsInv'
  <2>1. /\ Errors!Go(c, "open", "report") /\ isOpen' = (isOpen \/ failureCount >= BreakerThreshold)
        /\ UNCHANGED <<errorsHandlers, Errors!metricVars, failureCount, failures, signalled, exited>>
    BY <1>12 DEF Errors!BreakerOpen
  <2>2. /\ call[c].at = "open" /\ call' \in [ErrorCallers -> Calls] /\ call'[c].at = "report"
        /\ \A d \in ErrorCallers : d # c => call'[d] = call[d]
    BY <1>0, <2>1, Goes DEF Errors!Stages
  <2>3. Counting(call') \subseteq Counting(call)
    BY <2>2 DEF Counting, BeforeCount
  <2>4. FailuresCounted'
    <3>1. failures + Cardinality(Counting(call')) <= errors
      BY <1>0, <2>3, CountsFall DEF ErrorsInv, FailuresCounted
    <3>2. \A d \in ErrorCallers : call'[d].at = "count" => call'[d] = call[d]
      BY <2>2
    <3> QED BY <2>1, <3>1, <3>2 DEF ErrorsInv, FailuresCounted
  <2>5. isOpen' \in BOOLEAN /\ (isOpen' => isOpen \/ failureCount >= BreakerThreshold)
        /\ (~isOpen' => ~(failureCount >= BreakerThreshold))
    BY <2>1 DEF ErrorsInv
  <2>6. BreakerTested'
    BY <1>0, <2>1, <2>5 DEF ErrorsInv, BreakerTested
  <2> QED BY <1>a, <1>b, <2>1, <2>2, <2>4, <2>5, <2>6 DEF ErrorsInv
<1>13. CASE Errors!ReceiveSignal
  <2>1. /\ UNCHANGED <<errorsHandlers, Errors!metricVars, errors, call, Errors!breakerVars, exited>>
        /\ signalled' = FALSE
    BY <1>13 DEF Errors!ReceiveSignal
  <2> QED BY <1>a, <1>b, <1>c, <2>1 DEF ErrorsInv
<1>14. CASE Errors!ResetMetrics
  <2>1. /\ errorsTotal' = 0 /\ byCategory' = [k \in DOMAIN byCategory |-> 0]
        /\ UNCHANGED <<errorsHandlers, errors, call, Errors!breakerVars, signalled, exited>>
    BY <1>14 DEF Errors!ResetMetrics
  <2>2. ErrorsCounted'
    BY <1>0, <2>1 DEF ErrorsInv, ErrorsCounted
  <2> QED BY <1>a, <1>c, <2>1, <2>2 DEF ErrorsInv
<1>15. CASE UNCHANGED Errors!vars
  <2>1. UNCHANGED <<errorsHandlers, Errors!metricVars, errors, call, Errors!breakerVars, signalled, exited>>
    BY <1>15 DEF Errors!vars
  <2> QED BY <1>a, <1>b, <1>c, <2>1 DEF ErrorsInv
<1> QED BY <1>1, <1>2, <1>4, <1>5, <1>6, <1>7, <1>8, <1>9, <1>10, <1>11, <1>12, <1>13, <1>14, <1>15
        DEF Errors!Next

LEMMA ErrorsShow == ErrorsInv => Errors!TypeOK /\ Errors!BreakerLags
<1> SUFFICES ASSUME ErrorsInv PROVE Errors!TypeOK /\ Errors!BreakerLags
  OBVIOUS
<1>1. /\ MaxErrors \in Nat /\ errors \in 0..MaxErrors /\ errorsTotal \in 0..errors
      /\ byCategory \in [{"network", "system", "other"} -> 0..errors]
      /\ failures \in Nat /\ failureCount \in 0..failures
  BY GovernanceAssumption DEF GovernanceAssumption, ErrorsInv, ErrorsCounted, FailuresCounted
<1>2. failures <= errors
  <2>1. IsFiniteSet(Counting(call))
    BY GovernanceAssumption, FS_Subset DEF GovernanceAssumption, Counting
  <2>2. Cardinality(Counting(call)) \in Nat
    BY <2>1, FS_CardinalityType
  <2> QED BY <1>1, <2>2 DEF ErrorsInv, FailuresCounted
<1>3. \A c \in ErrorCallers : /\ call[c] = Errors!Out <=> call[c].at = "out"
                              /\ call[c].at \in Errors!Stages \cup {"out", "count"}
  BY CallIs DEF ErrorsInv
<1>4. Errors!ToSet(errorsHandlers) \subseteq DOMAIN Errors!Priority
  <2>1. \A i \in DOMAIN errorsHandlers : errorsHandlers[i] \in HandlerKinds
    BY DEF ErrorsInv, HandlersKept
  <2>2. HandlerKinds = DOMAIN Errors!Priority
    BY DEF HandlerKinds, Errors!Priority
  <2> QED BY <2>1, <2>2 DEF Errors!ToSet
<1>5. {errorsTotal, errors, failureCount, failures} \subseteq 0..MaxErrors
  BY <1>1, <1>2
<1>6. byCategory \in [{"network", "system", "other"} -> 0..MaxErrors]
  BY <1>1
<1>7. Errors!TypeOK
  BY <1>3, <1>4, <1>5, <1>6 DEF Errors!TypeOK, ErrorsInv
<1>8. Errors!BreakerLags
  <2>1. (\A c \in ErrorCallers : call[c] = Errors!Out \/ call[c].at # "open")
            => \A c \in ErrorCallers : call[c].at # "open"
    BY <1>3
  <2>2. failureCount <= failures
    BY <1>1
  <2> QED BY <2>1, <2>2 DEF Errors!BreakerLags, ErrorsInv, BreakerTested
<1> QED BY <1>7, <1>8

(* A caller that is about to pick a handler goes on by handleError alone.  *)
LEMMA OnlyHandles ==
    ASSUME ErrorsInv, [Errors!Next]_(Errors!vars), NEW c \in ErrorCallers, call[c].at = "pick",
           call'[c] # call[c]
    PROVE  Errors!handleError(c)
<1>1. Errors!Next
  BY DEF Errors!vars
<1>2. call \in [ErrorCallers -> Calls] /\ call[c] # Errors!Out
  BY DEF ErrorsInv, Errors!Out
<1>3. ASSUME NEW d \in ErrorCallers, NEW from \in Errors!Stages \cup {"count"},
             NEW to \in Errors!Stages \cup {"out"}, Errors!Go(d, from, to), from # "pick"
      PROVE  FALSE
  BY <1>2, <1>3, Goes
<1> USE DEF Errors!Stages
<1>4. ASSUME NEW d \in ErrorCallers, NEW e \in Errors!Kinds, Errors!Handle(d, e) PROVE FALSE
  BY <1>2, <1>4 DEF Errors!Handle
<1>5. ASSUME NEW d \in ErrorCallers, Errors!BreakerRead(d) PROVE FALSE
  BY <1>2, <1>5 DEF Errors!BreakerRead
<1>6. ASSUME NEW d \in ErrorCallers,
             \/ Errors!logError(d) \/ Errors!tryRecover(d) \/ Errors!SignalShutdown(d)
             \/ Errors!BreakerCount(d) \/ Errors!BreakerOpen(d)
             \/ Errors!ReportBegins(d) \/ Errors!ReportEnds(d)
      PROVE  FALSE
  BY <1>3, <1>6 DEF Errors!logError, Errors!tryRecover, Errors!SignalShutdown, Errors!BreakerCount,
         Errors!BreakerOpen, Errors!ReportBegins, Errors!ReportEnds
<1>7. ASSUME NEW d \in ErrorCallers, Errors!handleError(d) PROVE d = c
  <2>1. PICK to \in {"graceful", "breaker", "report"} : Errors!Go(d, "pick", to)
    BY <1>7 DEF Errors!handleError, Errors!Stage
  <2> QED BY <1>2, <2>1, Goes
<1>8. ~(Errors!ReceiveSignal \/ Errors!ResetMetrics \/ \E h \in DOMAIN Errors!Priority : Errors!RegisterHandler(h))
  BY DEF Errors!ReceiveSignal, Errors!ResetMetrics, Errors!RegisterHandler
<1> QED BY <1>1, <1>4, <1>5, <1>6, <1>7, <1>8 DEF Errors!Next

LEMMA FirstIsBest ==
    ASSUME ErrorsInv, [Errors!Next]_(Errors!vars), NEW c \in ErrorCallers
    PROVE  Errors!BestPicked(c)
<1> SUFFICES ASSUME call[c] # Errors!Out, call[c].at = "pick", call'[c] # call[c],
                    Errors!Best(call[c].error) # {}
             PROVE  \E g \in Errors!Best(call[c].error) : call'[c].at = Errors!Stage(g)
  BY DEF Errors!BestPicked
<1> DEFINE e == call[c].error
           hs == errorsHandlers
           m == Errors!Min(Errors!Able(e))
<1>1. Errors!handleError(c)
  BY OnlyHandles
<1>2. hs \in Seq(HandlerKinds) /\ Len(hs) \in Nat /\ DOMAIN hs = 1..Len(hs)
      /\ \A i \in 1..Len(hs) : hs[i] \in HandlerKinds
  BY LenProperties, ElementOfSeq DEF ErrorsInv, HandlersKept
<1>3. Errors!Able(e) \subseteq 1..Len(hs) /\ Errors!Able(e) # {}
      /\ \A i \in 1..Len(hs) : i \in Errors!Able(e) <=> Errors!CanHandle(hs[i], e)
  <2>1. PICK g \in Errors!ToSet(hs) : Errors!CanHandle(g, e)
    BY DEF Errors!Best
  <2>2. PICK i \in 1..Len(hs) : hs[i] = g
    BY <1>2 DEF Errors!ToSet
  <2>3. i \in Errors!Able(e)
    BY <2>1, <2>2 DEF Errors!Able
  <2> QED BY <2>3 DEF Errors!Able
<1>4. m \in Errors!Able(e) /\ \A i \in Errors!Able(e) : m <= i
  BY <1>2, <1>3, LeastOf
<1> HIDE DEF m
<1>5. hs[m] \in Errors!Best(e)
  <2>1. m \in 1..Len(hs) /\ hs[m] \in Errors!ToSet(hs) /\ Errors!CanHandle(hs[m], e)
    BY <1>2, <1>3, <1>4 DEF Errors!ToSet
  <2>2. ASSUME NEW h \in Errors!ToSet(hs), Errors!CanHandle(h, e)
        PROVE  Errors!Priority[hs[m]] >= Errors!Priority[h]
    <3>1. PICK i \in 1..Len(hs) : hs[i] = h
      BY <1>2 DEF Errors!ToSet
    <3>2. m <= i
      BY <1>3, <1>4, <2>2, <3>1
    <3>3. CASE m = i
      <4>1. Errors!Priority[hs[m]] \in Nat
        BY <1>2, <2>1 DEF HandlerKinds, Errors!Priority
      <4> QED BY <3>1, <3>3, <4>1
    <3>4. CASE m < i
      BY <2>1, <3>1, <3>4 DEF ErrorsInv, HandlersKept, Sorted
    <3> QED BY <1>2, <2>1, <3>2, <3>3, <3>4
  <2> QED BY <2>1, <2>2 DEF Errors!Best
<1>6. call'[c].at = Errors!Stage(hs[m])
  <2>1. Errors!Go(c, "pick", Errors!Stage(hs[m]))
    BY <1>1, <1>3 DEF Errors!handleError, m
  <2>2. Errors!Stage(hs[m]) \in Errors!Stages
    BY DEF Errors!Stage, Errors!Stages
  <2> QED BY <2>1, <2>2, Goes DEF ErrorsInv
<1> QED BY <1>5, <1>6
-----------------------------------------------------------------------------

LEMMA GovernanceHolds == SuiteSpec => [](FileInv /\ RoutingInv /\ ProtocolsInv /\ PoliciesInv /\ ErrorsInv)
<1>1. SuiteInit => FileInv /\ RoutingInv /\ ProtocolsInv /\ PoliciesInv /\ ErrorsInv
  BY FileInit, RoutingInit, ProtocolsInit, PoliciesInit, ErrorsInit DEF SuiteInit
<1>2. FileInv /\ RoutingInv /\ ProtocolsInv /\ PoliciesInv /\ ErrorsInv /\ [SuiteNext]_suiteVars
        => (FileInv /\ RoutingInv /\ ProtocolsInv /\ PoliciesInv /\ ErrorsInv)'
  <2> SUFFICES ASSUME FileInv, RoutingInv, ProtocolsInv, PoliciesInv, ErrorsInv, [SuiteNext]_suiteVars
               PROVE  (FileInv /\ RoutingInv /\ ProtocolsInv /\ PoliciesInv /\ ErrorsInv)'
    OBVIOUS
  <2>1. [File!Next]_(File!vars)
    BY DEF SuiteNext, suiteVars, fileVars, File!vars
  <2>2. [Routing!Next]_(Routing!vars)
    BY DEF SuiteNext, suiteVars, routingVars, Routing!vars
  <2>3. [Protocols!Next]_(Protocols!vars)
    BY DEF SuiteNext, suiteVars, protocolsVars, Protocols!vars
  <2>4. [Policies!Next]_(Policies!vars)
    BY DEF SuiteNext, suiteVars, policiesVars, Policies!vars
  <2>5. [Errors!Next]_(Errors!vars)
    BY DEF SuiteNext, suiteVars, errorsVars, Errors!vars
  <2> QED BY <2>1, <2>2, <2>3, <2>4, <2>5, FileStep, RoutingStep, ProtocolsStep, PoliciesStep, ErrorsStep
<1> QED BY <1>1, <1>2, PTL DEF SuiteSpec

(* A key of the configuration has the value of the file read last, or its  *)
(* default for good once some file left it out; a handler of router        *)
(* configurations knows what is stored under every name that is not        *)
(* deleted, once no load is under way.                                     *)
THEOREM SettingsHoldHolds == SuiteSpec => []SettingsHold
<1>1. FileInv /\ RoutingInv => SettingsHold
  BY FileShows, RoutingShows DEF SettingsHold
<1> QED BY <1>1, GovernanceHolds, PTL

(* At most one version of a protocol is active, the one that is returned,  *)
(* every WASM module that is not closed can be found, and the listener of  *)
(* policies has the truth when nothing is left to be told, up to changes   *)
(* it missed or may hear in the wrong order.                               *)
THEOREM GovernedHolds == SuiteSpec => []Governed
<1>1. ProtocolsInv /\ PoliciesInv => Governed
  BY ProtocolsShow, PoliciesShow DEF Governed
<1> QED BY <1>1, GovernanceHolds, PTL

(* An error goes to the handler of the highest priority that can take it,  *)
(* and the breaker handler opens late, not early, whatever counts its      *)
(* callers overwrite.                                                      *)
THEOREM ErrorsHandledHolds == SuiteSpec => ErrorsHandled
<1>1. ErrorsInv => Errors!TypeOK /\ Errors!BreakerLags
  BY ErrorsShow
<1>2. ErrorsInv /\ [SuiteNext]_suiteVars => [\A c \in ErrorCallers : Errors!BestPicked(c)]_(Errors!vars)
  <2> SUFFICES ASSUME ErrorsInv, [SuiteNext]_suiteVars
               PROVE  \A c \in ErrorCallers : Errors!BestPicked(c)
    OBVIOUS
  <2>1. [Errors!Next]_(Errors!vars)
    BY DEF SuiteNext, suiteVars, errorsVars, Errors!vars
  <2> QED BY <2>1, FirstIsBest
<1> QED BY <1>1, <1>2, GovernanceHolds, PTL DEF SuiteSpec, ErrorsHandled, Errors!HandledByFirst
-----------------------------------------------------------------------------
(* Metrics.  That fresh points are kept is inductive as it stands.         *)
MetricInv == Metric!TypeOK /\ Metric!FreshPointsKept

LEMMA MetricInit == Metric!Init => MetricInv
<1> SUFFICES ASSUME Metric!Init PROVE MetricInv
  OBVIOUS
<1>1. <<>> \in Seq(Points) /\ Len(<<>>) = 0
  OBVIOUS
<1>2. /\ point = [p \in Points |-> "unused"] /\ oldPoints = {} /\ metricBuffer = <<>>
      /\ series = {} /\ oldSeries = {} /\ cooling = {} /\ alerts = {}
      /\ metricStopped = FALSE /\ metricLoops = Metric!Loops
  BY DEF Metric!Init
<1>3. Len(metricBuffer) <= MetricsBufferSize
  BY <1>1, <1>2, MeasuringAssumption
<1>4. Metric!TypeOK
  BY <1>1, <1>2, <1>3 DEF Metric!TypeOK
<1> QED BY <1>2, <1>4 DEF MetricInv, Metric!FreshPointsKept

LEMMA MetricStep == MetricInv /\ [Metric!Next]_(Metric!vars) => MetricInv'
<1> SUFFICES ASSUME MetricInv, [Metric!Next]_(Metric!vars) PROVE MetricInv'
  OBVIOUS
<1> USE DEF MetricInv, Metric!FreshPointsKept
<1>1. CASE UNCHANGED Metric!vars
  BY <1>1 DEF Metric!vars, Metric!TypeOK
<1>2. ASSUME NEW p \in Points, Metric!Record(p) PROVE MetricInv'
  <2>1. CASE Len(metricBuffer) < MetricsBufferSize
    <3>1. metricBuffer' = Append(metricBuffer, p) /\ point' = [point EXCEPT ![p] = "buffered"]
      BY <1>2, <2>1 DEF Metric!Record
    <3>2. metricBuffer' \in Seq(Points) /\ Len(metricBuffer') <= MetricsBufferSize
      <4>1. metricBuffer \in Seq(Points) /\ MetricsBufferSize \in Nat
        BY MeasuringAssumption DEF Metric!TypeOK
      <4>2. Len(metricBuffer') = Len(metricBuffer) + 1 /\ metricBuffer' \in Seq(Points)
        BY <3>1, <4>1, AppendProperties
      <4> QED BY <2>1, <4>1, <4>2, LenProperties
    <3> QED BY <1>2, <3>1, <3>2 DEF Metric!Record, Metric!TypeOK
  <2>2. CASE ~(Len(metricBuffer) < MetricsBufferSize)
    BY <1>2, <2>2 DEF Metric!Record, Metric!TypeOK
  <2> QED BY <2>1, <2>2
<1>3. ASSUME NEW n \in Metric!MetricNames, Metric!SeriesAges(n) \/ Metric!triggerAlert(n) \/ Metric!CooldownEnds(n)
      PROVE  MetricInv'
  BY <1>3 DEF Metric!SeriesAges, Metric!triggerAlert, Metric!CooldownEnds, Metric!TypeOK
<1>4. ASSUME NEW p \in Points, Metric!PointAges(p) PROVE MetricInv'
  BY <1>4 DEF Metric!PointAges, Metric!TypeOK
<1>5. CASE Metric!storeMetric
  <2> DEFINE h == Head(metricBuffer)
             t == Tail(metricBuffer)
  <2>1. /\ metricBuffer # <<>> /\ metricBuffer' = t /\ point' = [point EXCEPT ![h] = "stored"]
        /\ series' = series \cup {Name[h]} /\ oldSeries' = oldSeries \ {Name[h]}
        /\ UNCHANGED <<oldPoints, cooling, alerts, metricStopped, metricLoops>>
    BY <1>5 DEF Metric!storeMetric
  <2>2. /\ h \in Points /\ t \in Seq(Points) /\ Len(t) = Len(metricBuffer) - 1
        /\ Len(metricBuffer) \in Nat /\ Len(metricBuffer) <= MetricsBufferSize /\ MetricsBufferSize \in Nat
    BY <2>1, HeadTailProperties, LenProperties, MeasuringAssumption DEF Metric!TypeOK
  <2> HIDE DEF h, t
  <2>3. Len(t) <= MetricsBufferSize
    BY <2>2
  <2>4. Name[h] \in Metric!MetricNames
    BY <2>2 DEF Metric!MetricNames
  <2> QED BY <2>1, <2>2, <2>3, <2>4 DEF Metric!TypeOK
<1>6. CASE Metric!performCleanup
  <2>1. /\ point' = [p \in Points |-> IF point[p] = "stored" /\ p \in oldPoints THEN "cleaned" ELSE point[p]]
        /\ series' = {n \in series : n \notin oldSeries \/ ~(Metric!Stored(n) \subseteq oldPoints)}
        /\ oldSeries' = oldSeries \cap series'
        /\ UNCHANGED <<oldPoints, metricBuffer, cooling, alerts, metricStopped, metricLoops>>
    BY <1>6 DEF Metric!performCleanup
  <2>2. Metric!TypeOK'
    BY <2>1 DEF Metric!TypeOK
  <2>3. ASSUME NEW p \in Points
        PROVE  /\ point'[p] = "stored" => Name[p] \in series'
               /\ point'[p] = "cleaned" => p \in oldPoints'
    <3>1. CASE point[p] = "stored" /\ p \in oldPoints
      BY <2>1, <3>1
    <3>2. CASE point[p] = "stored" /\ p \notin oldPoints
      <4>1. p \in Metric!Stored(Name[p]) /\ Name[p] \in series
        BY <3>2 DEF Metric!Stored
      <4> QED BY <2>1, <3>2, <4>1
    <3>3. CASE point[p] # "stored"
      BY <2>1, <3>3
    <3> QED BY <3>1, <3>2, <3>3
  <2> QED BY <2>2, <2>3
<1>7. CASE Metric!Stop
  BY <1>7 DEF Metric!Stop, Metric!TypeOK
<1>8. ASSUME NEW l \in Metric!Loops, Metric!LoopExits(l) PROVE MetricInv'
  BY <1>8 DEF Metric!LoopExits, Metric!TypeOK
<1> QED BY <1>1, <1>2, <1>3, <1>4, <1>5, <1>6, <1>7, <1>8 DEF Metric!Next
-----------------------------------------------------------------------------
(* Spans.  The places a span can be in have nothing in common, and the     *)
(* channel has it once.                                                    *)
SpansApart ==
    /\ \A s \in Trace!Buffered : s \notin skipped \cup activeSpans \cup finishing \cup spans \cup lost
    /\ skipped \cap (activeSpans \cup finishing \cup spans \cup lost) = {}
    /\ activeSpans \cap (finishing \cup spans \cup lost) = {}
    /\ finishing \cap (spans \cup lost) = {}
    /\ spans \cap lost = {}
    /\ \A i, j \in 1..Len(traceBuffer) : traceBuffer[i] = traceBuffer[j] => i = j

TraceInv == Trace!TypeOK /\ SpansApart

LEMMA TraceInit == Trace!Init => TraceInv
<1> SUFFICES ASSUME Trace!Init PROVE TraceInv
  OBVIOUS
<1>1. <<>> \in Seq(Spans) /\ Len(<<>>) = 0 /\ DOMAIN <<>> = {}
  OBVIOUS
<1>2. /\ sampleCount = 0 /\ skipped = {} /\ activeSpans = {} /\ finishing = {}
      /\ traceBuffer = <<>> /\ spans = {} /\ oldSpans = {} /\ lost = {}
      /\ traceStopped = FALSE /\ traceLoops = Trace!Loops
  BY DEF Trace!Init
<1>3. Len(traceBuffer) <= SpanBufferSize /\ 0 \in 0..(Period - 1)
  BY <1>1, <1>2, MeasuringAssumption
<1>4. Trace!TypeOK
  BY <1>1, <1>2, <1>3 DEF Trace!TypeOK
<1>5. 1..Len(traceBuffer) = {} /\ Trace!Buffered = {}
  BY <1>1, <1>2 DEF Trace!Buffered
<1> QED BY <1>2, <1>4, <1>5 DEF TraceInv, SpansApart

\* The channel when a span is sent and when one is received.
LEMMA SpanSent ==
    ASSUME traceBuffer \in Seq(Spans), NEW s \in Spans, s \notin Trace!Buffered,
           \A i, j \in 1..Len(traceBuffer) : traceBuffer[i] = traceBuffer[j] => i = j,
           traceBuffer' = Append(traceBuffer, s)
    PROVE  /\ traceBuffer' \in Seq(Spans) /\ Len(traceBuffer') = Len(traceBuffer) + 1
           /\ Trace!Buffered' = Trace!Buffered \cup {s}
           /\ \A i, j \in 1..Len(traceBuffer') : traceBuffer'[i] = traceBuffer'[j] => i = j
<1> DEFINE n == Len(traceBuffer)
<1>1. n \in Nat /\ DOMAIN traceBuffer = 1..n
  BY LenProperties
<1>2. /\ traceBuffer' \in Seq(Spans) /\ Len(traceBuffer') = n + 1 /\ traceBuffer'[n + 1] = s
      /\ \A i \in 1..n : traceBuffer'[i] = traceBuffer[i]
  BY AppendProperties
<1>3. DOMAIN traceBuffer' = 1..(n + 1)
  BY <1>2, LenProperties
<1>4. 1..(n + 1) = (1..n) \cup {n + 1}
  BY <1>1
<1>5. Trace!Buffered' = Trace!Buffered \cup {s}
  BY <1>1, <1>2, <1>3, <1>4 DEF Trace!Buffered
<1>6. \A i \in 1..n : traceBuffer[i] # s
  BY <1>1 DEF Trace!Buffered
<1>7. \A i, j \in 1..(n + 1) : traceBuffer'[i] = traceBuffer'[j] => i = j
  BY <1>2, <1>4, <1>6
<1> QED BY <1>2, <1>5, <1>7

LEMMA SpanReceived ==
    ASSUME traceBuffer \in Seq(Spans), traceBuffer # <<>>,
           \A i, j \in 1..Len(traceBuffer) : traceBuffer[i] = traceBuffer[j] => i = j,
           traceBuffer' = Tail(traceBuffer)
    PROVE  /\ traceBuffer' \in Seq(Spans) /\ Len(traceBuffer') = Len(traceBuffer) - 1
           /\ Head(traceBuffer) \in Spans /\ Head(traceBuffer) \in Trace!Buffered
           /\ Trace!Buffered' = Trace!Buffered \ {Head(traceBuffer)}
           /\ \A i, j \in 1..Len(traceBuffer') : traceBuffer'[i] = traceBuffer'[j] => i = j
<1> DEFINE n == Len(traceBuffer)
           h == Head(traceBuffer)
<1>1. n \in Nat \ {0} /\ DOMAIN traceBuffer = 1..n /\ h = traceBuffer[1] /\ h \in Spans
  BY LenProperties, EmptySeq, HeadTailProperties
<1>2. /\ traceBuffer' \in Seq(Spans) /\ Len(traceBuffer') = n - 1
      /\ \A i \in 1..(n - 1) : traceBuffer'[i] = traceBuffer[i + 1]
  BY HeadTailProperties
<1>3. DOMAIN traceBuffer' = 1..(n - 1)
  BY <1>2, LenProperties
<1> HIDE DEF n, h
<1>4. \A i \in 1..(n - 1) : i + 1 \in 1..n /\ i + 1 # 1
  BY <1>1
<1>5. \A i \in 1..n : i # 1 => i - 1 \in 1..(n - 1) /\ (i - 1) + 1 = i
  BY <1>1
<1>6. \A i, j \in 1..n : traceBuffer[i] = traceBuffer[j] => i = j
  BY DEF n
<1>7. h \in Trace!Buffered
  BY <1>1 DEF Trace!Buffered
<1>8. ASSUME NEW s \in Trace!Buffered, s # h PROVE s \in Trace!Buffered'
  <2>1. PICK i \in 1..n : traceBuffer[i] = s
    BY <1>1, <1>8 DEF Trace!Buffered
  <2>2. i # 1
    BY <1>1, <1>8, <2>1
  <2>3. i - 1 \in 1..(n - 1) /\ traceBuffer'[i - 1] = s
    BY <1>2, <1>5, <2>1, <2>2
  <2> QED BY <1>3, <2>3 DEF Trace!Buffered
<1>9. ASSUME NEW s \in Trace!Buffered' PROVE s \in Trace!Buffered /\ s # h
  <2>1. PICK i \in 1..(n - 1) : traceBuffer'[i] = s
    BY <1>3, <1>9 DEF Trace!Buffered
  <2>2. s = traceBuffer[i + 1] /\ i + 1 \in 1..n /\ i + 1 # 1
    BY <1>2, <1>4, <2>1
  <2>3. s # traceBuffer[1]
    BY <1>1, <1>6, <2>2
  <2> QED BY <1>1, <2>2, <2>3 DEF Trace!Buffered
<1>10. \A i, j \in 1..(n - 1) : traceBuffer'[i] = traceBuffer'[j] => i = j
  <2> SUFFICES ASSUME NEW i \in 1..(n - 1), NEW j \in 1..(n - 1), traceBuffer'[i] = traceBuffer'[j]
               PROVE  i = j
    OBVIOUS
  <2>1. i + 1 = j + 1
    BY <1>2, <1>4, <1>6
  <2> QED BY <2>1
<1> QED BY <1>1, <1>2, <1>7, <1>8, <1>9, <1>10 DEF n, h

LEMMA TraceStep == TraceInv /\ [Trace!Next]_(Trace!vars) => TraceInv'
<1> SUFFICES ASSUME TraceInv, [Trace!Next]_(Trace!vars) PROVE TraceInv'
  OBVIOUS
<1>0. /\ traceBuffer \in Seq(Spans) /\ Len(traceBuffer) \in Nat /\ Len(traceBuffer) <= SpanBufferSize
      /\ SpanBufferSize \in Nat /\ Period \in Nat \ {0}
      /\ \A i, j \in 1..Len(traceBuffer) : traceBuffer[i] = traceBuffer[j] => i = j
  BY LenProperties, MeasuringAssumption DEF TraceInv, Trace!TypeOK, SpansApart
<1> USE DEF TraceInv, SpansApart
<1>1. CASE UNCHANGED Trace!vars
  BY <1>1 DEF Trace!vars, Trace!TypeOK, Trace!Buffered
<1>2. ASSUME NEW s \in Spans, Trace!StartSpan(s) PROVE TraceInv'
  <2>1. /\ s \notin skipped \cup activeSpans \cup finishing \cup Trace!Buffered \cup spans \cup lost
        /\ sampleCount' = (sampleCount + 1) % Period
        /\ \/ activeSpans' = activeSpans \cup {s} /\ skipped' = skipped
           \/ activeSpans' = activeSpans /\ skipped' = skipped \cup {s}
        /\ UNCHANGED <<finishing, traceBuffer, spans, oldSpans, lost, traceStopped, traceLoops>>
    BY <1>2 DEF Trace!StartSpan
  <2>2. sampleCount' \in 0..(Period - 1)
    <3>1. sampleCount \in Nat /\ sampleCount + 1 \in Nat
      BY <1>0 DEF Trace!TypeOK
    <3> QED BY <1>0, <2>1, <3>1
  <2>3. Trace!Buffered' = Trace!Buffered
    BY <2>1 DEF Trace!Buffered
  <2> QED BY <2>1, <2>2, <2>3 DEF Trace!TypeOK
<1>3. ASSUME NEW s \in Spans, Trace!FinishSpan(s) \/ Trace!SpanAges(s) PROVE TraceInv'
  <2>1. Trace!Buffered' = Trace!Buffered
    BY <1>3 DEF Trace!FinishSpan, Trace!SpanAges, Trace!Buffered
  <2> QED BY <1>3, <2>1 DEF Trace!FinishSpan, Trace!SpanAges, Trace!TypeOK
<1>4. ASSUME NEW s \in Spans, Trace!FinishSend(s) PROVE TraceInv'
  <2>1. s \in finishing /\ finishing' = finishing \ {s} /\ s \notin Trace!Buffered
    BY <1>4 DEF Trace!FinishSend
  <2>2. CASE Len(traceBuffer) < SpanBufferSize
    <3>1. traceBuffer' = Append(traceBuffer, s) /\ lost' = lost
      BY <1>4, <2>2 DEF Trace!FinishSend
    <3>2. /\ traceBuffer' \in Seq(Spans) /\ Len(traceBuffer') = Len(traceBuffer) + 1
          /\ Trace!Buffered' = Trace!Buffered \cup {s}
          /\ \A i, j \in 1..Len(traceBuffer') : traceBuffer'[i] = traceBuffer'[j] => i = j
      BY <1>0, <2>1, <3>1, SpanSent
    <3>3. Len(traceBuffer') <= SpanBufferSize
      BY <1>0, <2>2, <3>2
    <3> QED BY <1>4, <2>1, <3>1, <3>2, <3>3 DEF Trace!FinishSend, Trace!TypeOK
  <2>3. CASE ~(Len(traceBuffer) < SpanBufferSize)
    <3>1. traceBuffer' = traceBuffer /\ lost' = lost \cup {s} /\ Trace!Buffered' = Trace!Buffered
      BY <1>4, <2>3 DEF Trace!FinishSend, Trace!Buffered
    <3> QED BY <1>4, <2>1, <3>1 DEF Trace!FinishSend, Trace!TypeOK
  <2> QED BY <2>2, <2>3
<1>5. CASE Trace!storeSpan
  <2>1. /\ traceBuffer # <<>> /\ spans' = spans \cup {Head(traceBuffer)}
        /\ traceBuffer' = Tail(traceBuffer)
        /\ UNCHANGED <<sampleCount, skipped, activeSpans, finishing, oldSpans, lost, traceStopped, traceLoops>>
    BY <1>5 DEF Trace!storeSpan
  <2>2. /\ traceBuffer' \in Seq(Spans) /\ Len(traceBuffer') = Len(traceBuffer) - 1
        /\ Head(traceBuffer) \in Spans /\ Head(traceBuffer) \in Trace!Buffered
        /\ Trace!Buffered' = Trace!Buffered \ {Head(traceBuffer)}
        /\ \A i, j \in 1..Len(traceBuffer') : traceBuffer'[i] = traceBuffer'[j] => i = j
    BY <1>0, <2>1, SpanReceived
  <2>3. Len(traceBuffer') <= SpanBufferSize
    BY <1>0, <2>2
  <2> QED BY <2>1, <2>2, <2>3 DEF Trace!TypeOK
<1>6. CASE Trace!performSpanCleanup
  <2>1. Trace!Buffered' = Trace!Buffered
    BY <1>6 DEF Trace!performSpanCleanup, Trace!Buffered
  <2> QED BY <1>6, <2>1 DEF Trace!performSpanCleanup, Trace!TypeOK
<1>7. ASSUME Trace!Stop \/ \E l \in Trace!Loops : Trace!LoopExits(l) PROVE TraceInv'
  <2>1. Trace!Buffered' = Trace!Buffered
    BY <1>7 DEF Trace!Stop, Trace!LoopExits, Trace!Buffered
  <2> QED BY <1>7, <2>1 DEF Trace!Stop, Trace!LoopExits, Trace!TypeOK
<1> QED BY <1>1, <1>2, <1>3, <1>4, <1>5, <1>6, <1>7 DEF Trace!Next

\* A set in which any two are the same has one element or none.
LEMMA OneOrNone ==
    ASSUME NEW S, \A x, y \in S : x = y
    PROVE  Cardinality(S) \in 0..1 /\ (S = {} => Cardinality(S) = 0)
<1>1. CASE S = {}
  BY <1>1, FS_EmptySet
<1>2. CASE S # {}
  <2>1. PICK x \in S : S = {x}
    BY <1>2
  <2> QED BY <1>2, <2>1, FS_Singleton
<1> QED BY <1>1, <1>2

LEMMA TraceShows == TraceInv => Trace!TypeOK /\ Trace!SpanInOnePlace
<1> SUFFICES ASSUME TraceInv, NEW s \in Spans
             PROVE  Trace!Cardinality({i \in DOMAIN traceBuffer : traceBuffer[i] = s})
                    + Trace!Cardinality({k \in 1..5 : s \in <<skipped, activeSpans, finishing, spans, lost>>[k]}) <= 1
  BY DEF TraceInv, Trace!SpanInOnePlace
<1> DEFINE A == {i \in DOMAIN traceBuffer : traceBuffer[i] = s}
           B == {k \in 1..5 : s \in <<skipped, activeSpans, finishing, spans, lost>>[k]}
<1>1. \A S : Trace!Cardinality(S) = Cardinality(S)
  BY DEF Trace!Cardinality, Cardinality, Trace!IsFiniteSet, IsFiniteSet
<1>2. DOMAIN traceBuffer = 1..Len(traceBuffer)
  BY LenProperties DEF TraceInv, Trace!TypeOK
<1>3. \A x, y \in A : x = y
  BY <1>2 DEF TraceInv, SpansApart
<1>4. \A x, y \in B : x = y
  <2>1. 1..5 = {1, 2, 3, 4, 5}
    OBVIOUS
  <2> QED BY <2>1 DEF TraceInv, SpansApart
<1>5. A = {} \/ B = {}
  <2> SUFFICES ASSUME A # {} PROVE B = {}
    OBVIOUS
  <2>1. s \in Trace!Buffered
    BY DEF Trace!Buffered
  <2>2. s \notin skipped /\ s \notin activeSpans /\ s \notin finishing /\ s \notin spans /\ s \notin lost
    BY <2>1 DEF TraceInv, SpansApart
  <2>3. 1..5 = {1, 2, 3, 4, 5}
    OBVIOUS
  <2> QED BY <2>2, <2>3
<1> HIDE DEF A, B
<1>6. Cardinality(A) \in 0..1 /\ (A = {} => Cardinality(A) = 0)
  BY <1>3, OneOrNone
<1>7. Cardinality(B) \in 0..1 /\ (B = {} => Cardinality(B) = 0)
  BY <1>4, OneOrNone
<1>8. Cardinality(A) + Cardinality(B) <= 1
  BY <1>5, <1>6, <1>7
<1> QED BY <1>1, <1>8 DEF A, B
-----------------------------------------------------------------------------
(* Sums of a function over a finite set, as the size of a set of pairs.    *)
Pairs(k, n) == {k} \X (1..n)
PairsOf(f, D) == UNION {Pairs(k, f[k]) : k \in D}

LEMMA PairsCount ==
    ASSUME NEW k, NEW n \in Nat
    PROVE  IsFiniteSet(Pairs(k, n)) /\ Cardinality(Pairs(k, n)) = n
<1>1. IsFiniteSet(1..n) /\ Cardinality(1..n) = n
  BY FS_Interval
<1>2. IsFiniteSet({k}) /\ Cardinality({k}) = 1
  BY FS_Singleton
<1> QED BY <1>1, <1>2, FS_Product DEF Pairs

LEMMA PairsAreFinite ==
    ASSUME NEW f, NEW D, IsFiniteSet(D), \A k \in D : f[k] \in Nat
    PROVE  IsFiniteSet(PairsOf(f, D)) /\ Cardinality(PairsOf(f, D)) \in Nat
<1> DEFINE parts == {Pairs(k, f[k]) : k \in D}
<1>1. IsFiniteSet(parts)
  <2> DEFINE g == [k \in D |-> Pairs(k, f[k])]
  <2>1. g \in Surjection(D, parts)
    BY DEF Surjection
  <2> QED BY <2>1, FS_Surjection
<1>2. \A T \in parts : IsFiniteSet(T)
  BY PairsCount
<1>3. PairsOf(f, D) = UNION parts
  BY DEF PairsOf
<1> HIDE DEF parts
<1> QED BY <1>1, <1>2, <1>3, FS_UNION, FS_CardinalityType

\* One of D adds its own pairs.
LEMMA PairsGrow ==
    ASSUME NEW f, NEW D, IsFiniteSet(D), NEW k \in D, \A j \in D : f[j] \in Nat
    PROVE  Cardinality(PairsOf(f, D)) = Cardinality(PairsOf(f, D \ {k})) + f[k]
<1> DEFINE A == PairsOf(f, D \ {k})
           B == Pairs(k, f[k])
<1>1. PairsOf(f, D) = A \cup B
  BY DEF PairsOf
<1>2. A \cap B = {}
  BY DEF PairsOf, Pairs
<1>3. IsFiniteSet(D \ {k})
  BY FS_Subset
<1>4. IsFiniteSet(A) /\ Cardinality(A) \in Nat
  BY <1>3, PairsAreFinite
<1>5. IsFiniteSet(B) /\ Cardinality(B) = f[k] /\ f[k] \in Nat
  BY PairsCount
<1>6. Cardinality({}) = 0
  BY FS_EmptySet
<1> HIDE DEF A, B
<1>7. Cardinality(A \cup B) = Cardinality(A) + Cardinality(B) - Cardinality(A \cap B)
  BY <1>4, <1>5, FS_Union
<1>8. Cardinality(A \cap B) = 0
  BY <1>2, <1>6
<1>9. Cardinality(A \cup B) = Cardinality(A) + f[k]
  BY <1>4, <1>5, <1>7, <1>8
<1> QED BY <1>1, <1>9 DEF A
-----------------------------------------------------------------------------
(* The router monitor.  Every request is counted on, and then by its route *)
(* only, except for the calls that are between two of the counters.        *)
Recording(stages) == {g \in Recorders : recorder[g] # Monitor!Out /\ recorder[g].at \in stages}
RouteSums == [r \in Routes |-> routes[r].good + routes[r].bad]

LEMMA MonitorCounts == \A S : Monitor!Cardinality(S) = Cardinality(S)
BY DEF Monitor!Cardinality, Cardinality, Monitor!IsFiniteSet, IsFiniteSet

MonitorInv ==
    /\ Monitor!TypeOK
    /\ monitorTotal = ok + bad + Cardinality(Recording({"outcome"}))
    /\ ok + bad = Cardinality(PairsOf(RouteSums, Routes)) + Cardinality(Recording({"times", "route"}))
    /\ collecting => "collector" \in monitorLoops

LEMMA MonitorShows == MonitorInv => Monitor!TypeOK /\ Monitor!RoutesAddUp
<1>1. Monitor!Counted = PairsOf(RouteSums, Routes)
  BY DEF Monitor!Counted, PairsOf, Pairs, RouteSums
<1>2. \A stages : Monitor!At(stages) = Cardinality(Recording(stages))
  BY MonitorCounts DEF Monitor!At, Recording
<1>3. MonitorInv => times <= TimesLimit
  BY MeasuringAssumption DEF MonitorInv, Monitor!TypeOK
<1> QED BY <1>1, <1>2, <1>3, MonitorCounts DEF MonitorInv, Monitor!RoutesAddUp

LEMMA RecordingIsFinite ==
    \A stages : IsFiniteSet(Recording(stages)) /\ Cardinality(Recording(stages)) \in Nat
<1> SUFFICES ASSUME NEW stages
             PROVE  IsFiniteSet(Recording(stages)) /\ Cardinality(Recording(stages)) \in Nat
  OBVIOUS
<1>1. Recording(stages) \in SUBSET Recorders /\ IsFiniteSet(Recorders)
  BY MeasuringAssumption DEF Recording
<1> QED BY <1>1, FS_Subset, FS_CardinalityType

\* A recorder that enters some stages, leaves them, or does neither.
LEMMA RecorderMoves ==
    ASSUME Monitor!TypeOK, NEW g \in Recorders, NEW v,
           recorder' = [recorder EXCEPT ![g] = v], NEW stages
    PROVE  LET before == recorder[g] # Monitor!Out /\ recorder[g].at \in stages
               after  == v # Monitor!Out /\ v.at \in stages
               n      == Cardinality(Recording(stages))
           IN  /\ before => n \in Nat \ {0}
               /\ Cardinality(Recording(stages)') =
                    IF before THEN (IF after THEN n ELSE n - 1) ELSE (IF after THEN n + 1 ELSE n)
<1> DEFINE before == recorder[g] # Monitor!Out /\ recorder[g].at \in stages
           after  == v # Monitor!Out /\ v.at \in stages
           R == Recording(stages)
           S == Recording(stages)'
<1>1. IsFiniteSet(R) /\ Cardinality(R) \in Nat
  BY RecordingIsFinite
<1>2. recorder'[g] = v /\ \A h \in Recorders \ {g} : recorder'[h] = recorder[h]
  BY DEF Monitor!TypeOK
<1>3. (g \in R <=> before) /\ S = IF after THEN R \cup {g} ELSE R \ {g}
  BY <1>2 DEF Recording
<1>4. Cardinality(R \cup {g}) = IF g \in R THEN Cardinality(R) ELSE Cardinality(R) + 1
  BY <1>1, FS_AddElement
<1>5. Cardinality(R \ {g}) = IF g \in R THEN Cardinality(R) - 1 ELSE Cardinality(R)
  BY <1>1, FS_RemoveElement
<1>6. g \in R => Cardinality(R) # 0
  BY <1>1, FS_EmptySet
<1> HIDE DEF before, after, R, S
<1>7. /\ before => Cardinality(R) \in Nat \ {0}
      /\ Cardinality(S) = IF before THEN (IF after THEN Cardinality(R) ELSE Cardinality(R) - 1)
                                    ELSE (IF after THEN Cardinality(R) + 1 ELSE Cardinality(R))
  BY <1>1, <1>3, <1>4, <1>5, <1>6
<1> QED BY <1>7 DEF before, after, R, S

LEMMA SumsAreFinite ==
    Monitor!TypeOK => /\ \A r \in Routes : RouteSums[r] \in Nat
                      /\ Cardinality(PairsOf(RouteSums, Routes)) \in Nat
<1> SUFFICES ASSUME Monitor!TypeOK
             PROVE  /\ \A r \in Routes : RouteSums[r] \in Nat
                    /\ Cardinality(PairsOf(RouteSums, Routes)) \in Nat
  OBVIOUS
<1>1. \A r \in Routes : RouteSums[r] \in Nat
  BY MeasuringAssumption DEF RouteSums, Monitor!TypeOK
<1>2. IsFiniteSet(Routes)
  BY MeasuringAssumption
<1> QED BY <1>1, <1>2, PairsAreFinite

LEMMA MonitorInit == Monitor!Init => MonitorInv
<1> SUFFICES ASSUME Monitor!Init PROVE MonitorInv
  OBVIOUS
<1>1. /\ collecting = FALSE /\ monitorTotal = 0 /\ ok = 0 /\ bad = 0 /\ times = 0
      /\ routes = [r \in Routes |-> [good |-> 0, bad |-> 0]]
      /\ recorder = [g \in Recorders |-> Monitor!Out]
      /\ monitorRunning = FALSE /\ cancelled = FALSE /\ monitorLoops = {}
  BY DEF Monitor!Init
<1>2. 0 \in 0..MaxRequests /\ 0 \in 0..TimesLimit
  BY MeasuringAssumption
<1>3. Monitor!TypeOK
  BY <1>1, <1>2 DEF Monitor!TypeOK
<1>4. \A stages : Recording(stages) = {}
  BY <1>1 DEF Recording
<1>5. PairsOf(RouteSums, Routes) = {}
  BY <1>1 DEF PairsOf, Pairs, RouteSums
<1>6. Cardinality({}) = 0
  BY FS_EmptySet
<1>7. /\ monitorTotal = ok + bad + Cardinality(Recording({"outcome"}))
      /\ ok + bad = Cardinality(PairsOf(RouteSums, Routes)) + Cardinality(Recording({"times", "route"}))
  BY <1>1, <1>4, <1>5, <1>6
<1> QED BY <1>1, <1>3, <1>7 DEF MonitorInv
-----------------------------------------------------------------------------
\* The counters are within the bound on requests.
LEMMA WithinRequests ==
    MonitorInv => /\ {monitorTotal, ok, bad} \subseteq Nat /\ monitorTotal <= MaxRequests
                  /\ MaxRequests \in Nat /\ ok + bad <= monitorTotal
<1> SUFFICES ASSUME MonitorInv
             PROVE  /\ {monitorTotal, ok, bad} \subseteq Nat /\ monitorTotal <= MaxRequests
                    /\ MaxRequests \in Nat /\ ok + bad <= monitorTotal
  OBVIOUS
<1>1. MaxRequests \in Nat
  BY MeasuringAssumption
<1>2. {monitorTotal, ok, bad} \subseteq Nat /\ monitorTotal <= MaxRequests
  BY <1>1 DEF MonitorInv, Monitor!TypeOK
<1>3. Cardinality(Recording({"outcome"})) \in Nat
  BY RecordingIsFinite
<1>4. monitorTotal = ok + bad + Cardinality(Recording({"outcome"}))
  BY DEF MonitorInv
<1>5. ok + bad <= monitorTotal
  BY <1>2, <1>3, <1>4
<1> QED BY <1>1, <1>2, <1>5

LEMMA RequestCounted ==
    ASSUME MonitorInv, NEW g \in Recorders, NEW r \in Routes, NEW good \in BOOLEAN,
           Monitor!RecordRequest(g, r, good)
    PROVE  MonitorInv'
<1> DEFINE v == [at |-> "outcome", route |-> r, good |-> good]
<1>1. /\ recorder[g] = Monitor!Out /\ monitorTotal < MaxRequests
      /\ recorder' = [recorder EXCEPT ![g] = v] /\ monitorTotal' = monitorTotal + 1
      /\ UNCHANGED <<collecting, ok, bad, times, routes, monitorRunning, cancelled, monitorLoops>>
  BY DEF Monitor!RecordRequest, Monitor!lifeVars
<1>2. v \in Monitor!Busy /\ v # Monitor!Out /\ v.at = "outcome"
  BY DEF Monitor!Busy, Monitor!Stages, Monitor!Out
<1> HIDE DEF v
<1>3. Monitor!TypeOK
  BY DEF MonitorInv
<1>4. Cardinality(Recording({"outcome"})') = Cardinality(Recording({"outcome"})) + 1
  BY <1>1, <1>2, <1>3, RecorderMoves
<1>5. Cardinality(Recording({"times", "route"})') = Cardinality(Recording({"times", "route"}))
  BY <1>1, <1>2, <1>3, RecorderMoves
<1>6. monitorTotal' \in 0..MaxRequests
  BY <1>1, WithinRequests
<1>7. Monitor!TypeOK'
  BY <1>1, <1>2, <1>3, <1>6 DEF Monitor!TypeOK
<1>8. RouteSums' = RouteSums
  BY <1>1 DEF RouteSums
<1>9. Cardinality(Recording({"outcome"})) \in Nat
  BY RecordingIsFinite
<1>10. monitorTotal' = ok' + bad' + Cardinality(Recording({"outcome"})')
  <2>1. monitorTotal = ok + bad + Cardinality(Recording({"outcome"}))
    BY DEF MonitorInv
  <2>2. ok \in Nat /\ bad \in Nat
    BY WithinRequests
  <2> QED BY <1>1, <1>4, <1>9, <2>1, <2>2
<1>11. PairsOf(RouteSums, Routes)' = PairsOf(RouteSums, Routes)
  BY <1>8 DEF PairsOf
<1> QED BY <1>1, <1>5, <1>7, <1>10, <1>11 DEF MonitorInv

LEMMA OutcomeCounted ==
    ASSUME MonitorInv, NEW g \in Recorders, Monitor!CountOutcome(g)
    PROVE  MonitorInv'
<1> DEFINE v == [at |-> "times", route |-> recorder[g].route, good |-> recorder[g].good]
<1>1. /\ recorder[g] # Monitor!Out /\ recorder[g].at = "outcome"
      /\ recorder' = [recorder EXCEPT ![g] = v]
      /\ UNCHANGED <<collecting, monitorTotal, times, routes, monitorRunning, cancelled, monitorLoops>>
  BY DEF Monitor!CountOutcome, Monitor!Go, Monitor!lifeVars
<1>2. \/ ok' = ok + 1 /\ bad' = bad
      \/ bad' = bad + 1 /\ ok' = ok
  BY DEF Monitor!CountOutcome
<1>3. Monitor!TypeOK /\ recorder[g] \in Monitor!Busy
  BY <1>1 DEF MonitorInv, Monitor!TypeOK
<1>4. v \in Monitor!Busy /\ v # Monitor!Out /\ v.at = "times"
  BY <1>3 DEF Monitor!Busy, Monitor!Stages, Monitor!Out
<1> HIDE DEF v
<1>5. /\ Cardinality(Recording({"outcome"})) \in Nat \ {0}
      /\ Cardinality(Recording({"outcome"})') = Cardinality(Recording({"outcome"})) - 1
  BY <1>1, <1>3, <1>4, RecorderMoves
<1>6. Cardinality(Recording({"times", "route"})') = Cardinality(Recording({"times", "route"})) + 1
  <2>1. recorder[g].at \notin {"times", "route"} /\ v.at \in {"times", "route"} /\ v # Monitor!Out
    BY <1>1, <1>4
  <2> QED BY <1>1, <1>3, <2>1, RecorderMoves
<1>7. monitorTotal = ok + bad + Cardinality(Recording({"outcome"}))
  BY DEF MonitorInv
<1>8. ok \in Nat /\ bad \in Nat /\ monitorTotal \in Nat /\ monitorTotal <= MaxRequests /\ MaxRequests \in Nat
  BY WithinRequests
<1>9. ok' + bad' = ok + bad + 1
  BY <1>2, <1>8
<1>10. monitorTotal' = ok' + bad' + Cardinality(Recording({"outcome"})')
  BY <1>1, <1>5, <1>7, <1>8, <1>9
<1>11. {ok', bad'} \subseteq 0..MaxRequests
  <2>1. ok + bad + 1 <= MaxRequests
    BY <1>5, <1>7, <1>8
  <2> QED BY <1>2, <1>8, <2>1
<1>12. Monitor!TypeOK'
  BY <1>1, <1>3, <1>4, <1>11 DEF Monitor!TypeOK
<1>13. PairsOf(RouteSums, Routes)' = PairsOf(RouteSums, Routes)
  BY <1>1 DEF PairsOf, RouteSums
<1>14. ok' + bad' = Cardinality(PairsOf(RouteSums, Routes)') + Cardinality(Recording({"times", "route"})')
  <2>1. ok + bad = Cardinality(PairsOf(RouteSums, Routes)) + Cardinality(Recording({"times", "route"}))
    BY DEF MonitorInv
  <2>2. Cardinality(Recording({"times", "route"})) \in Nat /\ Cardinality(PairsOf(RouteSums, Routes)) \in Nat
    BY <1>3, RecordingIsFinite, SumsAreFinite
  <2> QED BY <1>6, <1>9, <1>13, <2>1, <2>2
<1> QED BY <1>1, <1>10, <1>12, <1>14 DEF MonitorInv

LEMMA TimeRecorded ==
    ASSUME MonitorInv, NEW g \in Recorders, Monitor!recordResponseTime(g)
    PROVE  MonitorInv'
<1> DEFINE v == [at |-> "route", route |-> recorder[g].route, good |-> recorder[g].good]
<1>1. /\ recorder[g] # Monitor!Out /\ recorder[g].at = "times"
      /\ recorder' = [recorder EXCEPT ![g] = v]
      /\ times' = IF times + 1 > TimesLimit THEN times + 1 - TimesDropped ELSE times + 1
      /\ UNCHANGED <<collecting, monitorTotal, ok, bad, routes, monitorRunning, cancelled, monitorLoops>>
  BY DEF Monitor!recordResponseTime, Monitor!Go, Monitor!lifeVars
<1>2. Monitor!TypeOK /\ recorder[g] \in Monitor!Busy
  BY <1>1 DEF MonitorInv, Monitor!TypeOK
<1>3. v \in Monitor!Busy /\ v # Monitor!Out /\ v.at = "route"
  BY <1>2 DEF Monitor!Busy, Monitor!Stages, Monitor!Out
<1> HIDE DEF v
<1>4. Cardinality(Recording({"outcome"})') = Cardinality(Recording({"outcome"}))
  BY <1>1, <1>2, <1>3, RecorderMoves
<1>5. Cardinality(Recording({"times", "route"})') = Cardinality(Recording({"times", "route"}))
  BY <1>1, <1>2, <1>3, RecorderMoves
<1>6. times' \in 0..TimesLimit
  <2>1. times \in 0..TimesLimit
    BY <1>2 DEF Monitor!TypeOK
  <2>2. TimesLimit \in Nat /\ TimesDropped \in Nat /\ 1 <= TimesDropped /\ TimesDropped <= TimesLimit
    BY MeasuringAssumption
  <2> QED BY <1>1, <2>1, <2>2
<1>7. Monitor!TypeOK'
  BY <1>1, <1>2, <1>3, <1>6 DEF Monitor!TypeOK
<1>8. PairsOf(RouteSums, Routes)' = PairsOf(RouteSums, Routes)
  BY <1>1 DEF PairsOf, RouteSums
<1> QED BY <1>1, <1>4, <1>5, <1>7, <1>8 DEF MonitorInv
-----------------------------------------------------------------------------
LEMMA RouteCounted ==
    ASSUME MonitorInv, NEW g \in Recorders, Monitor!updateRouteMetrics(g)
    PROVE  MonitorInv'
<1> DEFINE r == recorder[g].route
           a == routes[r].good
           b == routes[r].bad
<1>1. /\ recorder[g] # Monitor!Out /\ recorder[g].at = "route"
      /\ recorder' = [recorder EXCEPT ![g] = Monitor!Out]
      /\ UNCHANGED <<collecting, monitorTotal, ok, bad, times, monitorRunning, cancelled, monitorLoops>>
  BY DEF Monitor!updateRouteMetrics, Monitor!Go, Monitor!lifeVars
<1>2. routes' = IF recorder[g].good THEN [routes EXCEPT ![r].good = @ + 1] ELSE [routes EXCEPT ![r].bad = @ + 1]
  BY DEF Monitor!updateRouteMetrics
<1>3. Monitor!TypeOK /\ recorder[g] \in Monitor!Busy /\ r \in Routes
  BY <1>1 DEF MonitorInv, Monitor!TypeOK, Monitor!Busy
<1>4. routes \in [Routes -> [good : 0..MaxRequests, bad : 0..MaxRequests]] /\ MaxRequests \in Nat
  BY <1>3, MeasuringAssumption DEF Monitor!TypeOK
<1>5. a \in Nat /\ b \in Nat
  BY <1>3, <1>4
<1>6. \/ routes'[r] = [good |-> a + 1, bad |-> b]
      \/ routes'[r] = [good |-> a, bad |-> b + 1]
  BY <1>2, <1>3, <1>4
<1>7. \A q \in Routes \ {r} : routes'[q] = routes[q]
  BY <1>2, <1>3, <1>4
<1>8. DOMAIN routes' = Routes /\ routes' = [q \in Routes |-> routes'[q]]
  BY <1>2, <1>4
<1> HIDE DEF r
<1>9. RouteSums[r] = a + b /\ RouteSums'[r] = a + b + 1
  <2>1. RouteSums'[r] = routes'[r].good + routes'[r].bad
    BY <1>3 DEF RouteSums
  <2> QED BY <1>3, <1>5, <1>6, <2>1 DEF RouteSums
<1>10. \A q \in Routes \ {r} : RouteSums'[q] = RouteSums[q]
  BY <1>7 DEF RouteSums
<1>11. \A q \in Routes : RouteSums[q] \in Nat
  BY <1>3, SumsAreFinite
<1> HIDE DEF a, b
<1>12. \A q \in Routes : RouteSums'[q] \in Nat
  BY <1>5, <1>9, <1>10, <1>11
<1>13. /\ Cardinality(PairsOf(RouteSums', Routes)) = Cardinality(PairsOf(RouteSums, Routes)) - RouteSums[r] + RouteSums'[r]
       /\ Cardinality(PairsOf(RouteSums, Routes)) \in Nat
       /\ RouteSums[r] <= Cardinality(PairsOf(RouteSums, Routes))
  <2>1. IsFiniteSet(Routes)
    BY MeasuringAssumption
  <2>2. r \in Routes
    BY <1>3
  <2>3. PairsOf(RouteSums', Routes \ {r}) = PairsOf(RouteSums, Routes \ {r})
    BY <1>10 DEF PairsOf
  <2>4. Cardinality(PairsOf(RouteSums', Routes)) = Cardinality(PairsOf(RouteSums', Routes \ {r})) + RouteSums'[r]
    BY <2>1, <2>2, <1>12, PairsGrow
  <2>5. Cardinality(PairsOf(RouteSums, Routes)) = Cardinality(PairsOf(RouteSums, Routes \ {r})) + RouteSums[r]
    BY <2>1, <2>2, <1>11, PairsGrow
  <2>6. Cardinality(PairsOf(RouteSums, Routes \ {r})) \in Nat
    BY <2>1, <1>11, FS_Subset, PairsAreFinite
  <2>7. RouteSums[r] \in Nat /\ RouteSums'[r] \in Nat
    BY <2>2, <1>11, <1>12
  <2> QED BY <2>3, <2>4, <2>5, <2>6, <2>7
<1>14. Cardinality(PairsOf(RouteSums', Routes)) = Cardinality(PairsOf(RouteSums, Routes)) + 1
  BY <1>5, <1>9, <1>13
<1>15. /\ Cardinality(Recording({"times", "route"})) \in Nat \ {0}
       /\ Cardinality(Recording({"times", "route"})') = Cardinality(Recording({"times", "route"})) - 1
  BY <1>1, <1>3, RecorderMoves
<1>16. Cardinality(Recording({"outcome"})') = Cardinality(Recording({"outcome"}))
  BY <1>1, <1>3, RecorderMoves
<1>17. ok + bad = Cardinality(PairsOf(RouteSums, Routes)) + Cardinality(Recording({"times", "route"}))
  BY DEF MonitorInv
<1>18. a + b + 1 <= MaxRequests
  <2>1. a + b + 1 <= ok + bad
    BY <1>5, <1>9, <1>13, <1>15, <1>17
  <2>2. ok \in Nat /\ bad \in Nat /\ monitorTotal \in Nat /\ monitorTotal <= MaxRequests /\ ok + bad <= monitorTotal
    BY WithinRequests
  <2> QED BY <1>4, <1>5, <2>1, <2>2
<1>19. routes'[r] \in [good : 0..MaxRequests, bad : 0..MaxRequests]
  <2>1. a \in 0..MaxRequests /\ a + 1 \in 0..MaxRequests /\ b \in 0..MaxRequests /\ b + 1 \in 0..MaxRequests
    BY <1>4, <1>5, <1>18
  <2> QED BY <1>6, <2>1
<1>20. routes' \in [Routes -> [good : 0..MaxRequests, bad : 0..MaxRequests]]
  BY <1>4, <1>7, <1>8, <1>19
<1>21. Monitor!TypeOK'
  BY <1>1, <1>3, <1>20 DEF Monitor!TypeOK
<1>22. ok' + bad' = Cardinality(PairsOf(RouteSums, Routes)') + Cardinality(Recording({"times", "route"})')
  <2>1. PairsOf(RouteSums, Routes)' = PairsOf(RouteSums', Routes)
    BY DEF PairsOf
  <2> QED BY <1>1, <1>13, <1>14, <1>15, <1>17, <2>1
<1>23. monitorTotal' = ok' + bad' + Cardinality(Recording({"outcome"})')
  BY <1>1, <1>16 DEF MonitorInv
<1> QED BY <1>1, <1>21, <1>22, <1>23 DEF MonitorInv

\* Nothing that the loops do touches a count; they end under way of no collection.
LEMMA LoopsCountNothing ==
    ASSUME MonitorInv,
           \/ Monitor!Start \/ Monitor!Stop \/ Monitor!collectMetrics
           \/ \E l \in Monitor!Loops : Monitor!LoopExits(l)
           \/ UNCHANGED Monitor!vars
    PROVE  MonitorInv'
<1>1. UNCHANGED <<monitorTotal, ok, bad, times, routes, recorder>>
  BY DEF Monitor!Start, Monitor!Stop, Monitor!collectMetrics, Monitor!LoopExits, Monitor!vars, Monitor!requestVars
<1>2. Monitor!TypeOK'
  BY <1>1 DEF MonitorInv, Monitor!TypeOK, Monitor!Start, Monitor!Stop, Monitor!collectMetrics, Monitor!LoopExits,
              Monitor!vars, Monitor!lifeVars
<1>3. (collecting => "collector" \in monitorLoops)'
  BY DEF MonitorInv, Monitor!Start, Monitor!Stop, Monitor!collectMetrics, Monitor!LoopExits, Monitor!vars,
         Monitor!lifeVars
<1>4. \A stages : Recording(stages)' = Recording(stages)
  BY <1>1 DEF Recording
<1>5. PairsOf(RouteSums, Routes)' = PairsOf(RouteSums, Routes)
  BY <1>1 DEF PairsOf, RouteSums
<1> QED BY <1>1, <1>2, <1>3, <1>4, <1>5 DEF MonitorInv

LEMMA MonitorStep == MonitorInv /\ [Monitor!Next]_(Monitor!vars) => MonitorInv'
BY RequestCounted, OutcomeCounted, TimeRecorded, RouteCounted, LoopsCountNothing DEF Monitor!Next
-----------------------------------------------------------------------------
LEMMA MeasuringHolds == SuiteSpec => [](MetricInv /\ TraceInv /\ MonitorInv)
<1>1. SuiteInit => MetricInv /\ TraceInv /\ MonitorInv
  BY MetricInit, TraceInit, MonitorInit DEF SuiteInit
<1>2. MetricInv /\ TraceInv /\ MonitorInv /\ [SuiteNext]_suiteVars => (MetricInv /\ TraceInv /\ MonitorInv)'
  <2> SUFFICES ASSUME MetricInv, TraceInv, MonitorInv, [SuiteNext]_suiteVars
               PROVE  (MetricInv /\ TraceInv /\ MonitorInv)'
    OBVIOUS
  <2>1. [Metric!Next]_(Metric!vars)
    BY DEF SuiteNext, suiteVars, metricVars, Metric!vars
  <2>2. [Trace!Next]_(Trace!vars)
    BY DEF SuiteNext, suiteVars, traceVars, Trace!vars
  <2>3. [Monitor!Next]_(Monitor!vars)
    BY DEF SuiteNext, suiteVars, monitorVars, Monitor!vars
  <2> QED BY <2>1, <2>2, <2>3, MetricStep, TraceStep, MonitorStep
<1> QED BY <1>1, <1>2, PTL DEF SuiteSpec

(* A fresh metric that was stored is kept, a sampled span is in one place, *)
(* and what the router monitor counts by request, by outcome and by route  *)
(* differs by the calls under way, though a collection may stop them for   *)
(* ever.                                                                   *)
THEOREM MeasurementsKeptHolds == SuiteSpec => []MeasurementsKept
<1>1. MetricInv /\ TraceInv /\ MonitorInv => MeasurementsKept
  BY TraceShows, MonitorShows DEF MeasurementsKept, MetricInv
<1> QED BY <1>1, MeasuringHolds, PTL
=============================================================================
