--------------------------- MODULE AdaptiveMonitor --------------------------
(***************************************************************************)
(* core/performance/adaptive_performance.go: requests are counted and put  *)
(* in a histogram, a loop collects metrics, another decides on tunings and *)
(* records their results.  collectMetrics holds pm.mu and asks for it once *)
(* more, in calculateLatencyPercentiles: the first collection never ends.  *)
(***************************************************************************)
EXTENDS Naturals, Sequences, FiniteSets, FiniteSetsExt

CONSTANTS
    Recorders,      \* goroutines in RecordRequest
    Buckets,        \* of the latency histogram
    LearningLimit,  \* results kept per kind of decision; 100 in the code
    MaxRequests,    \* bound: requests recorded
    MaxSecond       \* bound: seconds that pass

VARIABLES
    holder,       \* who holds pm.mu between two steps: nobody, or the collection
    requests,     \* requestCount
    histogram,    \* latencyHistogram
    recorder,     \* the bucket that each recorder has still to count in, or 0
    second,       \* of the clock, which decisions are named by
    decisions,    \* adaptiveTuner.decisions
    learned,      \* len of learningData of the one kind that is decided
    tuning,       \* what performTuning does
    loops, done

vars == <<holder, requests, histogram, recorder, second, decisions, learned, tuning, loops, done>>
requestVars == <<requests, histogram, recorder>>
tuningVars  == <<second, decisions, learned, tuning>>

Loops == {"monitoring", "tuning", "prediction"}
Tunings == {[stage |-> "idle"], [stage |-> "deciding"]} \cup [stage : {"executing"}, id : 0..MaxSecond]

TypeOK ==
    /\ holder \in {"none", "collector"}
    /\ requests \in 0..MaxRequests
    /\ histogram \in [Buckets -> 0..MaxRequests]
    /\ recorder \in [Recorders -> Buckets \cup {0}]
    /\ second \in 0..MaxSecond /\ learned \in 0..LearningLimit
    /\ \A i \in 1..Len(decisions) : decisions[i] \in [id : 0..MaxSecond, executed : BOOLEAN]
    /\ tuning \in Tunings
    /\ loops \subseteq Loops /\ done \in BOOLEAN

Init ==
    /\ holder = "none" /\ requests = 0
    /\ histogram = [b \in Buckets |-> 0] /\ recorder = [r \in Recorders |-> 0]
    /\ second = 0 /\ decisions = <<>> /\ learned = 0 /\ tuning = [stage |-> "idle"]
    /\ loops = Loops /\ done = FALSE
-----------------------------------------------------------------------------
\* RecordRequest: the counters, and then the histogram, under pm.mu.
RecordRequest(r, b) ==
    /\ recorder[r] = 0 /\ requests < MaxRequests
    /\ requests' = requests + 1 /\ recorder' = [recorder EXCEPT ![r] = b]
    /\ UNCHANGED <<holder, histogram, tuningVars, loops, done>>

updateLatencyHistogram(r) ==
    /\ recorder[r] # 0 /\ holder = "none"
    /\ histogram' = [histogram EXCEPT ![recorder[r]] = @ + 1]
    /\ recorder' = [recorder EXCEPT ![r] = 0]
    /\ UNCHANGED <<holder, requests, tuningVars, loops, done>>

\* The second lock is never had, and nothing after it is ever done: neither the
\* history nor the prediction model gets a point, and pm.metrics stays empty.
collectMetrics ==
    /\ "monitoring" \in loops /\ holder = "none"
    /\ holder' = "collector"
    /\ UNCHANGED <<requestVars, tuningVars, loops, done>>
-----------------------------------------------------------------------------
performTuning ==
    /\ "tuning" \in loops /\ tuning.stage = "idle" /\ holder = "none"
    /\ tuning' = [stage |-> "deciding"]
    /\ UNCHANGED <<holder, requestVars, second, decisions, learned, loops, done>>

\* From empty metrics and no prediction follows one decision: the hit rate of 0 is too low.
AnalyzeAndDecide ==
    /\ tuning.stage = "deciding"
    /\ decisions' = Append(decisions, [id |-> second, executed |-> FALSE])
    /\ tuning' = [stage |-> "executing", id |-> second]
    /\ UNCHANGED <<holder, requestVars, second, learned, loops, done>>

Named(id) == {i \in 1..Len(decisions) : decisions[i].id = id}

\* Mutant: the last decision of the name is marked.
RecordResultLast ==
    /\ tuning.stage = "executing"
    /\ decisions' = [decisions EXCEPT ![Max(Named(tuning.id))].executed = TRUE]
    /\ learned' = IF learned < LearningLimit THEN learned + 1 ELSE learned
    /\ tuning' = [stage |-> "idle"]
    /\ UNCHANGED <<holder, requestVars, second, loops, done>>

\* The first decision of the name is marked, though it may be marked already.
RecordResult ==
    /\ tuning.stage = "executing"
    /\ decisions' = [decisions EXCEPT ![Min(Named(tuning.id))].executed = TRUE]
    /\ learned' = IF learned < LearningLimit THEN learned + 1 ELSE learned
    /\ tuning' = [stage |-> "idle"]
    /\ UNCHANGED <<holder, requestVars, second, loops, done>>

\* At most two tunings a second.
Tick ==
    /\ second < MaxSecond /\ second' = second + 1
    /\ UNCHANGED <<holder, requestVars, decisions, learned, tuning, loops, done>>

Stop ==
    /\ ~done /\ done' = TRUE
    /\ UNCHANGED <<holder, requestVars, tuningVars, loops>>

LoopExits(l) ==
    /\ done /\ l \in loops
    /\ l = "tuning" => tuning.stage = "idle"
    /\ l = "monitoring" => holder = "none"
    /\ loops' = loops \ {l}
    /\ UNCHANGED <<holder, requestVars, tuningVars, done>>

Next ==
    \/ \E r \in Recorders :
        \/ \E b \in Buckets : RecordRequest(r, b)
        \/ updateLatencyHistogram(r)
    \/ collectMetrics \/ performTuning \/ RecordResult \/ Tick \/ Stop
    \/ Cardinality(Named(second)) < 2 /\ AnalyzeAndDecide
    \/ \E l \in Loops : LoopExits(l)
-----------------------------------------------------------------------------
Waiting == {r \in Recorders : recorder[r] # 0}
Counted == UNION {{b} \X (1..histogram[b]) : b \in Buckets}

(* Every request counted is in the histogram or waits to be, for ever once *)
(* metrics are collected; and every decision is marked executed but for    *)
(* the one under way and those whose name an earlier decision has, of the  *)
(* same second: the result of a later one is booked to the first, so that  *)
(* more results are learned from than decisions are marked.                *)
ResultsFindDecisions ==
    /\ Cardinality(Counted) + Cardinality(Waiting) = requests
    /\ "monitoring" \notin loops => holder = "none"
    /\ \A i \in 1..Len(decisions) :
        decisions[i].executed <=>
            /\ i = Min(Named(decisions[i].id))
            /\ ~(i = Len(decisions) /\ tuning.stage = "executing")
    /\ learned >= Min({LearningLimit, Cardinality({i \in 1..Len(decisions) : decisions[i].executed})})
=============================================================================
