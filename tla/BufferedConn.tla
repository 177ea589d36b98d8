---------------------------- MODULE BufferedConn ----------------------------
(***************************************************************************)
(* core/network/buffered_conn.go: Read, Peek, Reset and Close around one   *)
(* net.Conn.  The mutex is held while a call waits in Conn.Read, so at     *)
(* most one call is under way, and Close waits for it.  The peer sends the *)
(* bytes 1, 2, 3...; what Read hands out is compared with them.            *)
(*                                                                         *)
(* Its buffer is pkg/buffer/bytes_buffer.go: a slice, the position to read *)
(* from, and the position to write to.  A byte that nobody wrote is 0.     *)
(* Reading stops at the end of the slice, not where writing stopped.       *)
(* Numbers are written and read as fixed-width big-endian numbers, as      *)
(* varints and in zigzag code.  A byte has Bits + 1 bits: 8 in the code,   *)
(* where a word has 64 and a half-word 32.                                 *)
(***************************************************************************)
EXTENDS Integers, Sequences, SequencesExt

CONSTANTS
    Bits, Word, Half,
    Fixed,      \* the numbers written with a fixed width
    Size,       \* bufferSize
    Lengths,    \* of the slices given to Read, and the arguments of Peek
    MaxSent     \* bound: bytes of the peer
-----------------------------------------------------------------------------
(* BytesBuffer.                                                            *)

NewBytesBuffer(size) == [buf |-> [i \in 1..size |-> 0], rpos |-> 0, wpos |-> 0]

Cap(b) == Len(b.buf)
Remain(b) == b.wpos - b.rpos
Bytes(b) == SubSeq(b.buf, 1, b.wpos)
Reset(b) == [buf |-> b.buf, rpos |-> 0, wpos |-> 0]

\* Mutant: the new slice is filled from the reading position on.
GrowUnread(b, n) ==
    LET kept == SubSeq(b.buf, b.rpos + 1, b.wpos)
    IN [b EXCEPT !.buf = kept \o [i \in 1..(2 * Cap(b) + n - Len(kept)) |-> 0]]

Grow(b, n) == [b EXCEPT !.buf = Bytes(b) \o [i \in 1..(2 * Cap(b) + n - b.wpos) |-> 0]]

Write(b, data) ==
    LET n == Len(data)
        room == IF Cap(b) < b.wpos + n THEN Grow(b, n) ELSE b
        rest == SubSeq(room.buf, b.wpos + n + 1, Cap(room))
    IN [buf |-> Bytes(room) \o data \o rest, rpos |-> b.rpos, wpos |-> b.wpos + n]

\* Everything from the reading position to the end of the slice, read one by one.
Ahead(b) == SubSeq(b.buf, b.rpos + 1, Cap(b))
Smaller(m, n) == IF m < n THEN m ELSE n

\* The bytes that Read copies into a slice of length n, and the buffer after it.
ReadBytes(b, n) == SubSeq(Ahead(b), 1, Smaller(n, Len(Ahead(b))))
AfterRead(b, n) == [b EXCEPT !.rpos = @ + Len(ReadBytes(b, n))]
More == 2^Bits          \* 0x80
Byte == 2 * More
Kinds == {"uint16", "varint", "zigzag32", "zigzag64"}
Numbers(kind) == CASE kind = "uint16"   -> Fixed
                   [] kind = "zigzag32" -> 0..(2^Half - 1)
                   [] OTHER             -> 0..(2^Word - 1)

\* The groups of Bits bits, least first, all but the last with the flag.
Varint(u) ==
    LET last == CHOOSE l \in 1..(Word + 1) :
                    u < 2^(Bits * l) /\ \A m \in 1..(l - 1) : u >= 2^(Bits * m)
    IN [i \in 1..last |-> ((u \div 2^(Bits * (i - 1))) % More) + (IF i < last THEN More ELSE 0)]

\* The sign goes to the last bit; u stands for a number in two's complement.
Zigzag(u, w) == IF u >= 2^(w - 1) THEN 2^w - 1 - ((2 * u) % 2^w) ELSE 2 * u

\* Mutant: the complement of a negative number is forgotten.
UnzigzagUnsigned(x, w) == (x % 2^w) \div 2

Unzigzag(x, w) ==
    LET half == (x % 2^w) \div 2 IN IF x % 2 = 1 THEN 2^w - 1 - half ELSE half

\* WriteVarint writes byte by byte, and grows by one.
WriteAll(b, bytes) == FoldLeft(LAMBDA c, byte : Write(c, <<byte>>), b, bytes)

Written(b, kind, u) ==
    CASE kind = "uint16"   -> Write(b, <<u \div Byte, u % Byte>>)
      [] kind = "varint"   -> WriteAll(b, Varint(u))
      [] kind = "zigzag32" -> WriteAll(b, Varint(Zigzag(u, Half)))
      [] kind = "zigzag64" -> WriteAll(b, Varint(Zigzag(u, Word)))

Failed == -1

\* ReadVarint: up to the first byte without the flag, which must be one of the
\* first Groups; ReadByte fails at the end of the slice.
Groups == (Word + Bits - 1) \div Bits
VarintAhead(b) ==
    LET ahead == Ahead(b)
        ends == {i \in 1..Smaller(Groups, Len(ahead)) : ahead[i] < More}
    IN IF ends = {} THEN [u |-> Failed, n |-> Smaller(Groups, Len(ahead))]
       ELSE LET n == Min(ends)
                part(i) == (ahead[i] % More) * 2^(Bits * (i - 1))
            IN [u |-> FoldFunction(+, 0, [i \in 1..n |-> part(i)]) % 2^Word, n |-> n]

\* ReadUint16 looks at what was written, and moves only when it is enough.
Uint16Ahead(b) ==
    IF Remain(b) < 2 THEN [u |-> Failed, n |-> 0]
    ELSE [u |-> Ahead(b)[1] * Byte + Ahead(b)[2], n |-> 2]

Unzigzagged(read, w) == IF read.u = Failed THEN read ELSE [read EXCEPT !.u = Unzigzag(@, w)]

NumberAhead(b, kind) ==
    CASE kind = "uint16"   -> Uint16Ahead(b)
      [] kind = "varint"   -> VarintAhead(b)
      [] kind = "zigzag32" -> Unzigzagged(VarintAhead(b), Half)
      [] kind = "zigzag64" -> Unzigzagged(VarintAhead(b), Word)
-----------------------------------------------------------------------------
VARIABLES
    buffer,
    closed,
    call,       \* the call that waits in Conn.Read
    timed,      \* readTimeout > 0
    deadline,   \* of the net.Conn
    sent, fin,  \* the peer: bytes sent, and whether it will send no more
    taken,      \* the bytes that Conn.Read has returned
    got,        \* history: the stream up to here was handed out or reset
    right,      \* history: what Read handed out was the stream
    careless    \* history: a Read got more than was there, or asked for nothing

vars == <<buffer, closed, call, timed, deadline, sent, fin, taken, got, right, careless>>
peerVars == <<sent, fin>>
connVars == <<closed, timed>>

Released == NewBytesBuffer(0)
NoCall == [op |-> "none"]
Calls == {NoCall} \cup [op : {"direct", "fill", "peek"}, n : Lengths]

TypeOK ==
    /\ Cap(buffer) \in Nat /\ buffer.rpos \in 0..Cap(buffer) /\ buffer.wpos \in 0..Cap(buffer)
    /\ closed \in BOOLEAN /\ call \in Calls
    /\ timed \in BOOLEAN /\ deadline \in {"none", "armed", "passed"}
    /\ sent \in 0..MaxSent /\ fin \in BOOLEAN /\ taken \in 0..sent /\ got \in 0..sent
    /\ right \in BOOLEAN /\ careless \in BOOLEAN

Init ==
    /\ buffer = NewBytesBuffer(Size) /\ closed = FALSE /\ call = NoCall
    /\ timed = FALSE /\ deadline = "none"
    /\ sent = 0 /\ fin = FALSE /\ taken = 0
    /\ got = 0 /\ right = TRUE /\ careless = FALSE
-----------------------------------------------------------------------------
Stream(m, n) == [i \in 1..(n - m) |-> m + i]
Unlocked == call = NoCall /\ ~closed

\* Read returns these bytes; once they were wrong nothing more is compared.
HandOut(data) ==
    LET ok == right /\ got + Len(data) <= sent /\ data = Stream(got, got + Len(data))
    IN right' = ok /\ got' = IF ok THEN got + Len(data) ELSE got

\* From the buffer, if it has something: up to its end, not up to wpos.
ReadBuffered(n) ==
    /\ Unlocked /\ Remain(buffer) > 0 /\ n > 0
    /\ HandOut(ReadBytes(buffer, n)) /\ buffer' = AfterRead(buffer, n)
    /\ careless' = (careless \/ Len(ReadBytes(buffer, n)) > Remain(buffer))
    /\ UNCHANGED <<connVars, call, deadline, peerVars, taken>>

\* Mutant: the test whether the buffer holds something is missing.
ReadAlwaysWaits(n) ==
    /\ Unlocked
    /\ call' = [op |-> IF n >= Cap(buffer) THEN "direct" ELSE "fill", n |-> n]
    /\ buffer' = IF n >= Cap(buffer) THEN buffer ELSE Reset(buffer)
    /\ UNCHANGED <<connVars, deadline, peerVars, taken, got, right, careless>>

\* Else from the connection; a slice of length 0 comes here with bytes in the buffer.
ReadWaits(n) ==
    /\ Unlocked /\ (Remain(buffer) <= 0 \/ n = 0)
    /\ call' = [op |-> IF n >= Cap(buffer) THEN "direct" ELSE "fill", n |-> n]
    /\ buffer' = IF n >= Cap(buffer) THEN buffer ELSE Reset(buffer)
    /\ careless' = (careless \/ Remain(buffer) > 0)
    /\ UNCHANGED <<connVars, deadline, peerVars, taken, got, right>>

\* Conn.Read returns k bytes.
Arrives(op, k) ==
    /\ call.op = op /\ deadline # "passed"
    /\ k <= sent - taken /\ taken' = taken + k
    /\ UNCHANGED <<connVars, peerVars>>
Arrived(k) == Stream(taken, taken + k)

ReadDirect(k) ==
    /\ Arrives("direct", k) /\ k <= call.n
    /\ HandOut(Arrived(k)) /\ call' = NoCall
    /\ UNCHANGED <<buffer, deadline, careless>>

ReadFilled(k) ==
    /\ Arrives("fill", k) /\ k <= Cap(buffer)
    /\ LET filled == Write(buffer, Arrived(k)) IN
        /\ HandOut(ReadBytes(filled, call.n)) /\ buffer' = AfterRead(filled, call.n)
        /\ careless' = (careless \/ call.n > k)
    /\ call' = NoCall
    /\ UNCHANGED deadline

\* Peek returns at once when enough is there, and changes nothing.
PeekWaits(n) ==
    /\ Unlocked /\ Remain(buffer) < n
    /\ call' = [op |-> "peek", n |-> n]
    /\ deadline' = IF timed THEN "armed" ELSE deadline
    /\ UNCHANGED <<buffer, connVars, peerVars, taken, got, right, careless>>

PeekMore(k) ==
    /\ Arrives("peek", k) /\ k <= Cap(buffer)
    /\ buffer' = Write(buffer, Arrived(k))
    /\ IF Remain(buffer') >= call.n THEN call' = NoCall /\ UNCHANGED deadline
       ELSE UNCHANGED call /\ deadline' = IF timed THEN "armed" ELSE deadline
    /\ UNCHANGED <<got, right, careless>>

\* Conn.Read fails, at the end of the stream or at the deadline: it was never cleared.
CallFails ==
    /\ call # NoCall /\ (deadline = "passed" \/ (fin /\ taken = sent))
    /\ call' = NoCall
    /\ UNCHANGED <<buffer, connVars, deadline, peerVars, taken, got, right, careless>>
-----------------------------------------------------------------------------
ResetBuffer ==
    /\ Unlocked /\ buffer' = Reset(buffer) /\ got' = taken
    /\ UNCHANGED <<connVars, call, deadline, peerVars, taken, right, careless>>

SetReadTimeout(on) ==
    /\ call = NoCall /\ timed' = on
    /\ UNCHANGED <<buffer, closed, call, deadline, peerVars, taken, got, right, careless>>

\* The buffer goes back to the pool, and the pointer to it is nil from now on.
Close ==
    /\ Unlocked /\ closed' = TRUE /\ buffer' = Released
    /\ UNCHANGED <<timed, call, deadline, peerVars, taken, got, right, careless>>

DeadlinePasses ==
    /\ deadline = "armed" /\ deadline' = "passed"
    /\ UNCHANGED <<buffer, connVars, call, peerVars, taken, got, right, careless>>

PeerSends ==
    /\ ~fin /\ sent < MaxSent /\ sent' = sent + 1
    /\ UNCHANGED <<buffer, connVars, call, deadline, fin, taken, got, right, careless>>

PeerEnds ==
    /\ ~fin /\ fin' = TRUE
    /\ UNCHANGED <<buffer, connVars, call, deadline, sent, taken, got, right, careless>>

Next ==
    \/ \E n \in Lengths : ReadBuffered(n) \/ ReadWaits(n) \/ PeekWaits(n)
    \/ \E k \in 1..MaxSent : ReadDirect(k) \/ ReadFilled(k) \/ PeekMore(k)
    \/ \E on \in BOOLEAN : SetReadTimeout(on)
    \/ CallFails \/ ResetBuffer \/ Close \/ DeadlinePasses \/ PeerSends \/ PeerEnds

Spec == Init /\ [][Next]_vars
-----------------------------------------------------------------------------
(* While no Read got more than the buffer had, or asked for nothing, Read  *)
(* hands out the stream in order and the buffer holds the rest of what was *)
(* received: whatever Peeks let it grow, and whichever calls failed.       *)
StreamKept ==
    ~careless => right /\ (~closed => SubSeq(buffer.buf, buffer.rpos + 1, buffer.wpos)
                                      = Stream(got, taken))

(* A number written where everything was read comes back as it was         *)
(* written, and nothing is left of it: zigzag and varint codes undo each   *)
(* other at every width, whatever bytes of old the slice still holds, and  *)
(* a slice that must grow for it loses nothing.                            *)
NumbersComeBack ==
    ~closed /\ Remain(buffer) = 0 =>
        \A kind \in Kinds : \A u \in Numbers(kind) :
            LET b == Written(buffer, kind, u)
                read == NumberAhead(b, kind)
            IN read.u = u /\ b.rpos + read.n = b.wpos
=============================================================================
