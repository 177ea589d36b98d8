------------------------------- MODULE Metrics ------------------------------
(***************************************************************************)
(* core/observability/observability.go, the metrics: points go through a   *)
(* bounded channel to a goroutine that stores them in series, a clean-up   *)
(* loop drops what is too old, and alerts have a cool-down per metric.     *)
(***************************************************************************)
EXTENDS Naturals, Sequences

CONSTANTS
    Points, Name,       \* metric points, and the metric each belongs to
    MetricsBufferSize

MetricNames == {Name[p] : p \in Points}

VARIABLES
    point,        \* where each metric point is
    oldPoints,    \* points from before MetricsRetention
    buffer,       \* OptimizedMetrics.buffer
    series,       \* keys of OptimizedMetrics.metrics
    oldSeries,    \* those whose LastUpdate is before MetricsRetention
    cooling,      \* metrics whose last alert is within AlertCooldown
    alerts,       \* metrics with an alert
    stopped, loops

vars == <<point, oldPoints, buffer, series, oldSeries, cooling, alerts, stopped, loops>>

Loops == {"processMetrics", "cleanupMetrics"}

TypeOK ==
    /\ point \in [Points -> {"unused", "buffered", "stored", "dropped", "cleaned"}]
    /\ buffer \in Seq(Points) /\ Len(buffer) <= MetricsBufferSize
    /\ oldPoints \subseteq Points /\ series \subseteq MetricNames /\ oldSeries \subseteq series
    /\ cooling \subseteq alerts /\ alerts \subseteq MetricNames
    /\ stopped \in BOOLEAN /\ loops \subseteq Loops

Init ==
    /\ point = [p \in Points |-> "unused"] /\ oldPoints = {} /\ buffer = <<>>
    /\ series = {} /\ oldSeries = {}
    /\ cooling = {} /\ alerts = {}
    /\ stopped = FALSE /\ loops = Loops
-----------------------------------------------------------------------------
(* RecordMetric: Record, then CheckThreshold.                              *)

Record(p) ==
    /\ point[p] = "unused"
    /\ IF Len(buffer) < MetricsBufferSize
       THEN buffer' = Append(buffer, p) /\ point' = [point EXCEPT ![p] = "buffered"]
       ELSE UNCHANGED buffer /\ point' = [point EXCEPT ![p] = "dropped"]
    /\ UNCHANGED <<oldPoints, series, oldSeries, cooling, alerts, stopped, loops>>

triggerAlert(n) ==
    /\ n \notin cooling
    /\ alerts' = alerts \cup {n} /\ cooling' = cooling \cup {n}
    /\ UNCHANGED <<point, oldPoints, buffer, series, oldSeries, stopped, loops>>

CooldownEnds(n) ==
    /\ n \in cooling /\ cooling' = cooling \ {n}
    /\ UNCHANGED <<point, oldPoints, buffer, series, oldSeries, alerts, stopped, loops>>
-----------------------------------------------------------------------------
storeMetric ==
    /\ "processMetrics" \in loops /\ buffer # <<>>
    /\ LET p == Head(buffer) IN
        /\ point' = [point EXCEPT ![p] = "stored"]
        /\ series' = series \cup {Name[p]}
        /\ oldSeries' = oldSeries \ {Name[p]}
    /\ buffer' = Tail(buffer)
    /\ UNCHANGED <<oldPoints, cooling, alerts, stopped, loops>>

Stored(n) == {p \in Points : point[p] = "stored" /\ Name[p] = n}

PointAges(p) ==
    /\ point[p] \notin {"unused", "cleaned"} /\ oldPoints' = oldPoints \cup {p}
    /\ UNCHANGED <<point, buffer, series, oldSeries, cooling, alerts, stopped, loops>>

\* A series was updated when or after its points were recorded.
SeriesAges(n) ==
    /\ n \in series /\ Stored(n) \subseteq oldPoints
    /\ oldSeries' = oldSeries \cup {n}
    /\ UNCHANGED <<point, oldPoints, buffer, series, cooling, alerts, stopped, loops>>

\* Mutant: a series with an old point goes as a whole.
performCleanupEager ==
    /\ "cleanupMetrics" \in loops
    /\ point' = [p \in Points |->
                    IF point[p] = "stored" /\ p \in oldPoints THEN "cleaned" ELSE point[p]]
    /\ series' = {n \in series : Stored(n) \cap oldPoints = {}}
    /\ oldSeries' = oldSeries \cap series'
    /\ UNCHANGED <<oldPoints, buffer, cooling, alerts, stopped, loops>>

performCleanup ==
    /\ "cleanupMetrics" \in loops
    /\ point' = [p \in Points |->
                    IF point[p] = "stored" /\ p \in oldPoints THEN "cleaned" ELSE point[p]]
    /\ series' = {n \in series : n \notin oldSeries \/ ~(Stored(n) \subseteq oldPoints)}
    /\ oldSeries' = oldSeries \cap series'
    /\ UNCHANGED <<oldPoints, buffer, cooling, alerts, stopped, loops>>

Stop ==
    /\ ~stopped /\ stopped' = TRUE
    /\ UNCHANGED <<point, oldPoints, buffer, series, oldSeries, cooling, alerts, loops>>

\* A loop leaves when its select takes the context.
LoopExits(l) ==
    /\ stopped /\ l \in loops /\ loops' = loops \ {l}
    /\ UNCHANGED <<point, oldPoints, buffer, series, oldSeries, cooling, alerts, stopped>>

Next ==
    \/ \E p \in Points : Record(p) \/ PointAges(p)
    \/ \E n \in MetricNames : SeriesAges(n) \/ triggerAlert(n) \/ CooldownEnds(n)
    \/ storeMetric \/ performCleanup \/ Stop
    \/ \E l \in Loops : LoopExits(l)
-----------------------------------------------------------------------------
(* A stored point can be found in its series as long as it is within the   *)
(* retention time, also when its series is about to be removed, and one    *)
(* that is gone was too old.                                               *)
FreshPointsKept ==
    \A p \in Points : /\ point[p] = "stored" => Name[p] \in series
                      /\ point[p] = "cleaned" => p \in oldPoints
=============================================================================
