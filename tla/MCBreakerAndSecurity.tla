------------------------ MODULE MCBreakerAndSecurity ------------------------
(***************************************************************************)
(* The circuit breaker, and the components that decide what is let through *)
(* or done about it: security, permissions, the DoS protector, governance  *)
(* of protocols and policies, configuration, error handling, and what      *)
(* measures: metrics, tracing and the router's monitor. They share         *)
(* nothing, so each behaviour is a behaviour of one of them; the initial   *)
(* state chooses which.                                                    *)
(***************************************************************************)
EXTENDS CircuitBreaker, FiniteSets

CONSTANTS
    Publishers, EventBufferSize, MaxEventHandlers, MaxThreshold, MaxPublishes,
    Peers, MaxConnectionsPerIP, Checkers, Fingerprints, Threshold, MaxChecks,
    Versions, Rates, MaxVersions, MaxModules, MaxPolicies, MaxVersion,
    MaxErrors, Points, Name, MetricsBufferSize, Spans, SpanBufferSize, Period,
    Rate, Recorders, Routes, TimesLimit, TimesDropped, MaxRequests, Users,
    Roles, Permissions, DefaultPolicy, Keys, Values, Unset, Names, Configs,
    Missing, Refused, MaxHandlers, Hosts, Patterns, Sizes, Askers, Basic,
    Loaders, PolicyIDs, ErrorCallers, BreakerThreshold, DefaultValue

\* Addresses are numbered, and data is matched against three patterns; the DoS
\* threshold is within the bound, and default roles have permissions there are.
ASSUME SecurityAssumption ==
    /\ IsFiniteSet(Publishers) /\ "free" \notin Publishers
    /\ EventBufferSize \in Nat /\ MaxEventHandlers \in Nat
    /\ MaxThreshold \in Nat /\ MaxPublishes \in Nat
    /\ IsFiniteSet(Peers) /\ Peers \subseteq Nat /\ Hosts \in Nat \ {0}
    /\ Patterns \subseteq {"sql_injection", "xss", "brute_force"}
    /\ MaxConnectionsPerIP \in Nat
    /\ Threshold \in Nat /\ MaxChecks \in Nat \ {0} /\ Threshold <= MaxChecks
    /\ Basic \subseteq Permissions

\* A new object has version 1; the breaker of the error handlers has a threshold;
\* every key has a default, and validators refuse configurations there are.
ASSUME GovernanceAssumption ==
    /\ {0, 100} \subseteq Rates /\ MaxVersions \in Nat /\ MaxModules \in Nat
    /\ MaxPolicies \in Nat /\ MaxVersion \in Nat \ {0}
    /\ IsFiniteSet(ErrorCallers) /\ BreakerThreshold \in Nat \ {0} /\ MaxErrors \in Nat
    /\ DefaultValue \in Values /\ Unset \notin Values
    /\ \A cs \in Refused : cs \subseteq Configs
    /\ MaxHandlers \in Nat

\* When there are too many response times, some go and not more than there are.
ASSUME MeasuringAssumption ==
    /\ MetricsBufferSize \in Nat /\ SpanBufferSize \in Nat /\ Period \in Nat \ {0}
    /\ IsFiniteSet(Recorders) /\ IsFiniteSet(Routes) /\ MaxRequests \in Nat
    /\ TimesLimit \in Nat /\ TimesDropped \in 1..TimesLimit

VARIABLES
    which,
    securityEvents, securityEventsOpen, securityHandlers, threshold, mutex,
    publisher, publishes, loop, securityRegistered, securityRunning,
    securityDone, closer, timedOut, securityLate,
    checksCheck, tracked, idle, blacklist, threats, responses, checksEvents,
    checksEventsOpen, checksDone, counted,
    dosEnabled, counts, age, blocked, checker, admitted,
    protocols, protocolsMade, activeProtocol, protocolsEnabled, modules,
    instances, closed, timers, loaderActive, caller, protocolsLate,
    policies, policiesMade, active, version, policiesRegistered, notices, heard,
    unsure,
    errorsHandlers, errorsTotal, byCategory, call, errors, failureCount, isOpen,
    failures, signalled, exited,
    point, oldPoints, metricBuffer, series, oldSeries, cooling, alerts,
    metricStopped, metricLoops,
    sampleCount, skipped, activeSpans, finishing, traceBuffer, spans, oldSpans,
    lost, traceStopped, traceLoops,
    collecting, monitorTotal, ok, bad, times, routes, recorder, monitorRunning,
    cancelled, monitorLoops,
    users, roles, authEnabled, authCheck,
    file, legible, loaded, override, missed,
    configs, routingHandlers, refused, loading, stuck, told

Security == INSTANCE SecurityManager WITH
    events <- securityEvents, eventsOpen <- securityEventsOpen,
    handlers <- securityHandlers, registered <- securityRegistered,
    running <- securityRunning, done <- securityDone, late <- securityLate

Checks == INSTANCE OptimizedSecurityManager WITH
    Address <- [c \in Peers |-> c % Hosts],
    Samples <- [matches : SUBSET Patterns, size : Sizes],
    check <- checksCheck, events <- checksEvents,
    eventsOpen <- checksEventsOpen, done <- checksDone

DOS == INSTANCE DOSProtector WITH
    enabled <- dosEnabled

Protocols == INSTANCE ProtocolManager WITH
    Callers <- Loaders, made <- protocolsMade, enabled <- protocolsEnabled,
    late <- protocolsLate

Policies == INSTANCE PolicyEngine WITH
    Policies <- PolicyIDs, made <- policiesMade,
    registered <- policiesRegistered

Errors == INSTANCE ErrorManager WITH
    Callers <- ErrorCallers, Threshold <- BreakerThreshold,
    handlers <- errorsHandlers, total <- errorsTotal

Metric == INSTANCE Metrics WITH
    buffer <- metricBuffer, stopped <- metricStopped, loops <- metricLoops

Trace == INSTANCE Tracing WITH
    buffer <- traceBuffer, stopped <- traceStopped, loops <- traceLoops

Monitor == INSTANCE RouterMonitor WITH
    total <- monitorTotal, running <- monitorRunning, loops <- monitorLoops

Auth == INSTANCE AuthManager WITH
    Checkers <- Askers,
    DefaultPermissions <- [r \in Roles |-> IF r = "admin" THEN Permissions ELSE Basic],
    enabled <- authEnabled, check <- authCheck

File == INSTANCE Configuration WITH
    Default <- [k \in Keys |-> DefaultValue]

Routing == INSTANCE RouterConfig WITH
    handlers <- routingHandlers

securityVars ==
    <<securityEvents, securityEventsOpen, securityHandlers, threshold, mutex,
      publisher, publishes, loop, securityRegistered, securityRunning,
      securityDone, closer, timedOut, securityLate>>
checksVars ==
    <<checksCheck, tracked, idle, blacklist, threats, responses, checksEvents,
      checksEventsOpen, checksDone, counted>>
dosVars ==
    <<dosEnabled, counts, age, blocked, checker, admitted>>
protocolsVars ==
    <<protocols, protocolsMade, activeProtocol, protocolsEnabled, modules,
      instances, closed, timers, loaderActive, caller, protocolsLate>>
policiesVars ==
    <<policies, policiesMade, active, version, policiesRegistered, notices,
      heard, unsure>>
errorsVars ==
    <<errorsHandlers, errorsTotal, byCategory, call, errors, failureCount,
      isOpen, failures, signalled, exited>>
metricVars ==
    <<point, oldPoints, metricBuffer, series, oldSeries, cooling, alerts,
      metricStopped, metricLoops>>
traceVars ==
    <<sampleCount, skipped, activeSpans, finishing, traceBuffer, spans,
      oldSpans, lost, traceStopped, traceLoops>>
monitorVars ==
    <<collecting, monitorTotal, ok, bad, times, routes, recorder,
      monitorRunning, cancelled, monitorLoops>>
authVars ==
    <<users, roles, authEnabled, authCheck>>
fileVars ==
    <<file, legible, loaded, override, missed>>
routingVars ==
    <<configs, routingHandlers, refused, loading, stuck, told>>
-----------------------------------------------------------------------------
suiteVars == <<which, vars, securityVars, checksVars, dosVars, protocolsVars,
              policiesVars, errorsVars, metricVars, traceVars, monitorVars,
              authVars, fileVars, routingVars>>

SuiteInit ==
    /\ which \in {"breaker", "security", "checks", "dos", "protocols",
                  "policies", "errors", "metric", "trace", "monitor", "auth",
                  "file", "routing"}
    /\ Init /\ Security!Init /\ Checks!Init
    /\ DOS!Init /\ Protocols!Init /\ Policies!Init /\ Errors!Init
    /\ Metric!Init /\ Trace!Init /\ Monitor!Init /\ Auth!Init
    /\ File!Init /\ Routing!Init
    /\ which # "file" => \A k \in Keys : file[k] = Unset

SuiteNext ==
    \/ /\ which = "breaker" /\ Next
       /\ UNCHANGED <<which, securityVars, checksVars, dosVars, protocolsVars,
                        policiesVars, errorsVars, metricVars, traceVars,
                        monitorVars, authVars, fileVars, routingVars>>
    \/ /\ which = "security" /\ Security!Next
       /\ UNCHANGED <<which, vars, checksVars, dosVars, protocolsVars,
                        policiesVars, errorsVars, metricVars, traceVars,
                        monitorVars, authVars, fileVars, routingVars>>
    \/ /\ which = "checks" /\ Checks!Next
       /\ UNCHANGED <<which, vars, securityVars, dosVars, protocolsVars,
                        policiesVars, errorsVars, metricVars, traceVars,
                        monitorVars, authVars, fileVars, routingVars>>
    \/ /\ which = "dos" /\ DOS!Next
       /\ UNCHANGED <<which, vars, securityVars, checksVars, protocolsVars,
                        policiesVars, errorsVars, metricVars, traceVars,
                        monitorVars, authVars, fileVars, routingVars>>
    \/ /\ which = "protocols" /\ Protocols!Next
       /\ UNCHANGED <<which, vars, securityVars, checksVars, dosVars,
                        policiesVars, errorsVars, metricVars, traceVars,
                        monitorVars, authVars, fileVars, routingVars>>
    \/ /\ which = "policies" /\ Policies!Next
       /\ UNCHANGED <<which, vars, securityVars, checksVars, dosVars,
                        protocolsVars, errorsVars, metricVars, traceVars,
                        monitorVars, authVars, fileVars, routingVars>>
    \/ /\ which = "errors" /\ Errors!Next
       /\ UNCHANGED <<which, vars, securityVars, checksVars, dosVars,
                        protocolsVars, policiesVars, metricVars, traceVars,
                        monitorVars, authVars, fileVars, routingVars>>
    \/ /\ which = "metric" /\ Metric!Next
       /\ UNCHANGED <<which, vars, securityVars, checksVars, dosVars,
                        protocolsVars, policiesVars, errorsVars, traceVars,
                        monitorVars, authVars, fileVars, routingVars>>
    \/ /\ which = "trace" /\ Trace!Next
       /\ UNCHANGED <<which, vars, securityVars, checksVars, dosVars,
                        protocolsVars, policiesVars, errorsVars, metricVars,
                        monitorVars, authVars, fileVars, routingVars>>
    \/ /\ which = "monitor" /\ Monitor!Next
       /\ UNCHANGED <<which, vars, securityVars, checksVars, dosVars,
                        protocolsVars, policiesVars, errorsVars, metricVars,
                        traceVars, authVars, fileVars, routingVars>>
    \/ /\ which = "auth" /\ Auth!Next
       /\ UNCHANGED <<which, vars, securityVars, checksVars, dosVars,
                        protocolsVars, policiesVars, errorsVars, metricVars,
                        traceVars, monitorVars, fileVars, routingVars>>
    \/ /\ which = "file" /\ File!Next
       /\ UNCHANGED <<which, vars, securityVars, checksVars, dosVars,
                        protocolsVars, policiesVars, errorsVars, metricVars,
                        traceVars, monitorVars, authVars, routingVars>>
    \/ /\ which = "routing" /\ Routing!Next
       /\ UNCHANGED <<which, vars, securityVars, checksVars, dosVars,
                        protocolsVars, policiesVars, errorsVars, metricVars,
                        traceVars, monitorVars, authVars, fileVars>>
    \/ which # "breaker" /\ UNCHANGED suiteVars   \* the others may stop

SuiteSpec == SuiteInit /\ [][SuiteNext]_suiteVars /\ Fairness

\* The instance that the run checks.
NamesOfPoints == <<"m", "m", "n">>
-----------------------------------------------------------------------------
(* After Close no handler of a security event begins, but for those        *)
(* counted late; an answer about a permission was right at some moment of  *)
(* the call.                                                               *)
SecurityQuiet ==
    /\ which = "security" => Security!TypeOK /\ Security!QuietAfterClose
    /\ which = "auth" => Auth!TypeOK /\ Auth!AnswersWereRight

(* What is configured is what was read or stored last, and whoever is told *)
(* of it knows: up to defaults that hide the file, and to deletions.       *)
SettingsHold ==
    /\ which = "file" => File!TypeOK /\ File!ValuesFollowFile
    /\ which = "routing" => Routing!TypeOK /\ Routing!HandlersKnow

(* The limits of connections and requests hold under concurrent checks.    *)
LimitsHold ==
    []Checks!TypeOK /\ Checks!LimitsAreKept /\ [](DOS!TypeOK /\ DOS!AdmittedWithinThreshold)

(* One version of a protocol is active and every WASM module accounted     *)
(* for; the listeners of policies know what is active.                     *)
Governed ==
    /\ which = "protocols" => Protocols!TypeOK /\ Protocols!GovernedOnce
    /\ which = "policies" => Policies!TypeOK /\ Policies!ListenerKnows

(* An error goes to the first handler that can take it, and the breaker    *)
(* handler opens late, not early.                                          *)
ErrorsHandled == []Errors!TypeOK /\ Errors!HandledByFirst

(* What was measured a moment ago is kept, in one place, and counters and  *)
(* routes of the router monitor add up.                                    *)
MeasurementsKept ==
    /\ which = "metric" => Metric!TypeOK /\ Metric!FreshPointsKept
    /\ which = "trace" => Trace!TypeOK /\ Trace!SpanInOnePlace
    /\ which = "monitor" => Monitor!TypeOK /\ Monitor!RoutesAddUp
=============================================================================
