------------------------------- MODULE Logging ------------------------------
(***************************************************************************)
(* pkg/logger: callers send events through the channel of the asynchronous *)
(* logger, one goroutine writes them to a file that rolls over.  A call of *)
(* Fatal flushes the channel itself and ends the process.  Rolling over,   *)
(* by size or by the hour, asks for the writer's mutex with the mutex      *)
(* held: nothing is written from then on, and the senders end up waiting.  *)
(***************************************************************************)
EXTENDS Integers, Sequences, FiniteSets, SequencesExt

CONSTANTS
    Senders,        \* goroutines that log
    Fatals,         \* which of the events, numbered by call, are fatal
    BufferSize,     \* capacity of the channel
    MaxEvents       \* bound: events logged

VARIABLES
    calls,          \* events logged so far, sent or not
    sender,         \* the event each sender waits to send, or 0
    sent,           \* history: the events in the order they went into the channel
    channel,
    hand,           \* the event each goroutine that handles events has in hand, or 0
    flushing,       \* the senders that flush the channel, after a fatal event
    processor,      \* processEvents
    stuck,          \* a roll-over holds r.mu for ever
    written,
    stopping,       \* what had been sent when Stop closed stopChan, and before that no set
    exited          \* os.Exit

vars == <<calls, sender, sent, channel, hand, flushing, processor, stuck, written, stopping, exited>>

Events == 1..MaxEvents
Handlers == Senders \cup {"processor"}
NotYet == {0}

TypeOK ==
    /\ calls \in 0..MaxEvents /\ sender \in [Senders -> 0..MaxEvents]
    /\ Len(channel) <= BufferSize /\ ToSet(channel) \cup ToSet(sent) \cup ToSet(written) \subseteq Events
    /\ hand \in [Handlers -> 0..MaxEvents] /\ flushing \subseteq Senders
    /\ processor \in {"loop", "flush", "ended"}
    /\ stuck \in BOOLEAN /\ exited \in BOOLEAN
    /\ stopping = NotYet \/ stopping \subseteq Events

Init ==
    /\ calls = 0 /\ sender = [s \in Senders |-> 0] /\ sent = <<>> /\ channel = <<>>
    /\ hand = [h \in Handlers |-> 0] /\ flushing = {} /\ processor = "loop"
    /\ stuck = FALSE /\ written = <<>> /\ stopping = NotYet /\ exited = FALSE
-----------------------------------------------------------------------------
Log(s) ==
    /\ sender[s] = 0 /\ s \notin flushing /\ calls < MaxEvents
    /\ calls' = calls + 1 /\ sender' = [sender EXCEPT ![s] = calls + 1]
    /\ UNCHANGED <<sent, channel, hand, flushing, processor, stuck, written, stopping, exited>>

\* The send waits for room; after a fatal event the sender flushes.
Send(s) ==
    /\ sender[s] # 0 /\ Len(channel) < BufferSize
    /\ channel' = Append(channel, sender[s]) /\ sent' = Append(sent, sender[s])
    /\ flushing' = IF sender[s] \in Fatals THEN flushing \cup {s} ELSE flushing
    /\ sender' = [sender EXCEPT ![s] = 0]
    /\ UNCHANGED <<calls, hand, processor, stuck, written, stopping, exited>>

Handles(h) == IF h = "processor" THEN processor # "ended" ELSE h \in flushing

\* The processor, or a flushing sender.
Receive(h) ==
    /\ Handles(h) /\ hand[h] = 0 /\ channel # <<>>
    /\ hand' = [hand EXCEPT ![h] = Head(channel)] /\ channel' = Tail(channel)
    /\ UNCHANGED <<calls, sender, sent, flushing, processor, stuck, written, stopping, exited>>

\* handleEvent: the backend writes; after a fatal event it ends the process.
Write(h) ==
    /\ hand[h] # 0 /\ ~stuck
    /\ written' = Append(written, hand[h]) /\ hand' = [hand EXCEPT ![h] = 0]
    /\ exited' = (hand[h] \in Fatals)
    /\ UNCHANGED <<calls, sender, sent, channel, flushing, processor, stuck, stopping>>

\* A write that finds the file full, or the hourly ticker.
Rotate ==
    /\ ~stuck /\ stuck' = TRUE
    /\ UNCHANGED <<calls, sender, sent, channel, hand, flushing, processor, written, stopping, exited>>

\* The sender's flush finds the channel empty, and Fatal exits.
FlushedFatal(s) ==
    /\ s \in flushing /\ hand[s] = 0 /\ channel = <<>>
    /\ exited' = TRUE
    /\ UNCHANGED <<calls, sender, sent, channel, hand, flushing, processor, stuck, written, stopping>>
-----------------------------------------------------------------------------
\* Once, on a signal; it waits until the processor has ended.
Stop ==
    /\ stopping = NotYet /\ stopping' = ToSet(sent)
    /\ UNCHANGED <<calls, sender, sent, channel, hand, flushing, processor, stuck, written, exited>>

\* Mutant: the channel is not flushed.
SeeStopAtOnce ==
    /\ processor = "loop" /\ hand["processor"] = 0 /\ stopping # NotYet
    /\ processor' = "ended"
    /\ UNCHANGED <<calls, sender, sent, channel, hand, flushing, stuck, written, stopping, exited>>

\* The select may prefer stopChan while there are events.
SeeStop ==
    /\ processor = "loop" /\ hand["processor"] = 0 /\ stopping # NotYet
    /\ processor' = "flush"
    /\ UNCHANGED <<calls, sender, sent, channel, hand, flushing, stuck, written, stopping, exited>>

flushEvents ==
    /\ processor = "flush" /\ hand["processor"] = 0 /\ channel = <<>>
    /\ processor' = "ended"
    /\ UNCHANGED <<calls, sender, sent, channel, hand, flushing, stuck, written, stopping, exited>>

Next ==
    /\ ~exited
    /\ \/ \E s \in Senders : Log(s) \/ Send(s) \/ FlushedFatal(s)
       \/ \E h \in Handlers : Receive(h) \/ Write(h)
       \/ Rotate \/ Stop \/ SeeStop \/ flushEvents
-----------------------------------------------------------------------------
InHand(Who) == {hand[h] : h \in Who} \ {0}

(* Stop returns, which the processor's end lets it do, with all that was   *)
(* sent before it written or in the hands of a sender of a fatal event;    *)
(* such a sender ends the process before its own event is written only if  *)
(* another goroutine has it in hand; and while nothing fatal was sent, the *)
(* file has the events in the order in which they were sent.               *)
StopFlushes ==
    /\ processor = "ended" => stopping \subseteq ToSet(written) \cup InHand(Senders)
    /\ exited => \E e \in Fatals : e \in ToSet(written) \cup InHand(Handlers)
    /\ IsPrefix(written, sent) \/ ToSet(sent) \cap Fatals # {}
    /\ Len(written) = Cardinality(ToSet(written))
=============================================================================
