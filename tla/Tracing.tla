------------------------------- MODULE Tracing ------------------------------
(***************************************************************************)
(* core/observability/observability.go, the spans: sampled ones are active *)
(* until they are finished, then go through a bounded channel to a         *)
(* goroutine that stores them; a clean-up loop drops old ones.             *)
(***************************************************************************)
EXTENDS Naturals, Sequences, FiniteSets

CONSTANTS
    Spans,            \* span ids, each used once
    SpanBufferSize,
    Period, Rate      \* Rate of Period spans are sampled; the period is 100 in the code

VARIABLES
    sampleCount,      \* modulo Period
    skipped,          \* spans not sampled: StartSpan returned nil
    activeSpans,
    finishing,        \* taken from activeSpans by a FinishSpan that has still to send
    buffer, spans,
    oldSpans,         \* spans from before TraceTimeout
    lost,             \* spans that found the channel full, or were cleaned up
    stopped, loops

vars == <<sampleCount, skipped, activeSpans, finishing, buffer, spans, oldSpans, lost, stopped, loops>>

Loops == {"processSpans", "cleanupSpans"}
Buffered == {buffer[i] : i \in DOMAIN buffer}

TypeOK ==
    /\ sampleCount \in 0..(Period - 1)
    /\ buffer \in Seq(Spans) /\ Len(buffer) <= SpanBufferSize
    /\ \A s \in {skipped, activeSpans, finishing, spans, oldSpans, lost} : s \subseteq Spans
    /\ stopped \in BOOLEAN /\ loops \subseteq Loops

Init ==
    /\ sampleCount = 0 /\ skipped = {} /\ activeSpans = {} /\ finishing = {}
    /\ buffer = <<>> /\ spans = {} /\ oldSpans = {} /\ lost = {}
    /\ stopped = FALSE /\ loops = Loops
-----------------------------------------------------------------------------
StartSpan(s) ==
    /\ s \notin skipped \cup activeSpans \cup finishing \cup Buffered \cup spans \cup lost
    /\ sampleCount' = (sampleCount + 1) % Period
    /\ IF sampleCount' < Rate THEN activeSpans' = activeSpans \cup {s} /\ UNCHANGED skipped
                              ELSE skipped' = skipped \cup {s} /\ UNCHANGED activeSpans
    /\ UNCHANGED <<finishing, buffer, spans, oldSpans, lost, stopped, loops>>

\* Mutant: the finished span stays active.
FinishSpanKept(s) ==
    /\ s \in activeSpans
    /\ finishing' = finishing \cup {s}
    /\ UNCHANGED <<sampleCount, skipped, activeSpans, buffer, spans, oldSpans, lost, stopped, loops>>

\* A span that is not active any more is ignored.
FinishSpan(s) ==
    /\ s \in activeSpans
    /\ activeSpans' = activeSpans \ {s}
    /\ finishing' = finishing \cup {s}
    /\ UNCHANGED <<sampleCount, skipped, buffer, spans, oldSpans, lost, stopped, loops>>

FinishSend(s) ==
    /\ s \in finishing /\ finishing' = finishing \ {s}
    /\ IF Len(buffer) < SpanBufferSize
       THEN buffer' = Append(buffer, s) /\ UNCHANGED lost
       ELSE lost' = lost \cup {s} /\ UNCHANGED buffer
    /\ UNCHANGED <<sampleCount, skipped, activeSpans, spans, oldSpans, stopped, loops>>

storeSpan ==
    /\ "processSpans" \in loops /\ buffer # <<>>
    /\ spans' = spans \cup {Head(buffer)}
    /\ buffer' = Tail(buffer)
    /\ UNCHANGED <<sampleCount, skipped, activeSpans, finishing, oldSpans, lost, stopped, loops>>

SpanAges(s) ==
    /\ s \in activeSpans \cup spans /\ oldSpans' = oldSpans \cup {s}
    /\ UNCHANGED <<sampleCount, skipped, activeSpans, finishing, buffer, spans, lost, stopped, loops>>

\* Active spans go as well: nobody may ever finish them.
performSpanCleanup ==
    /\ "cleanupSpans" \in loops
    /\ lost' = lost \cup ((spans \cup activeSpans) \cap oldSpans)
    /\ spans' = spans \ oldSpans
    /\ activeSpans' = activeSpans \ oldSpans
    /\ UNCHANGED <<sampleCount, skipped, finishing, buffer, oldSpans, stopped, loops>>

Stop ==
    /\ ~stopped /\ stopped' = TRUE
    /\ UNCHANGED <<sampleCount, skipped, activeSpans, finishing, buffer, spans, oldSpans, lost, loops>>

LoopExits(l) ==
    /\ stopped /\ l \in loops /\ loops' = loops \ {l}
    /\ UNCHANGED <<sampleCount, skipped, activeSpans, finishing, buffer, spans, oldSpans, lost, stopped>>

Next ==
    \/ \E s \in Spans : StartSpan(s) \/ FinishSpan(s) \/ FinishSend(s) \/ SpanAges(s)
    \/ storeSpan \/ performSpanCleanup \/ Stop
    \/ \E l \in Loops : LoopExits(l)
-----------------------------------------------------------------------------
(* A span is in one place: active, on its way, in the channel once,        *)
(* stored, or lost; finishing it again, or a clean-up that meets it, does  *)
(* not double it.                                                          *)
SpanInOnePlace ==
    \A s \in Spans :
        Cardinality({i \in DOMAIN buffer : buffer[i] = s})
        + Cardinality({k \in 1..5 : s \in <<skipped, activeSpans, finishing, spans, lost>>[k]}) <= 1
=============================================================================
