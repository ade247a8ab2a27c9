----------------------------- MODULE OutputBuffers -----------------------------
(****************************************************************************)
(* The two bounded buffers for what a child process prints: the ring of     *)
(* ring_buffer.go keeps the end of the app-server's standard error for the  *)
(* diagnosis of a failure, the cappedWriter of threads_helpers.go keeps the *)
(* beginning of a diff.                                                     *)
(*                                                                          *)
(* A byte is its place in the output: the first is 1.  What a buffer has    *)
(* not stored yet is 0.                                                     *)
(****************************************************************************)
EXTENDS Integers

CONSTANTS
    RingSize,  \* newRingBuffer's size
    CapLimit,  \* cappedWriter.limit
    MaxWritten \* bound: bytes written

ASSUME BufferAssumption ==
    RingSize \in Nat \ {0} /\ CapLimit \in Nat \ {0} /\ MaxWritten \in Nat

VARIABLES
    written,   \* bytes printed so far
    data,      \* r.data
    stored,    \* len(r.data)
    full,      \* r.full
    pos,       \* r.pos
    head,      \* w.buf
    headLen,   \* w.buf.Len()
    truncated  \* w.truncated

ringVars == <<data, stored, full, pos>>
headVars == <<head, headLen, truncated>>
bufferVars == <<written, ringVars, headVars>>

BufferInit ==
    /\ written = 0
    /\ data = [i \in 0..RingSize - 1 |-> 0]
    /\ stored = 0 /\ full = FALSE /\ pos = 0
    /\ head = [i \in 0..CapLimit - 1 |-> 0]
    /\ headLen = 0 /\ truncated = FALSE

\* copy(d[at:], p), where p begins with the byte first and has n bytes.
Copy(d, at, n, first) ==
    [i \in DOMAIN d |-> IF at <= i /\ i < at + n THEN first + i - at ELSE d[i]]

\* The bytes copy moves: those that fit.
Least(a, b) == IF a <= b THEN a ELSE b

-----------------------------------------------------------------------------
(* ringBuffer.Write                                                         *)

Room == RingSize - stored

\* There is room for all of it.
Fill(n) ==
    /\ ~full /\ n <= Room
    /\ data' = Copy(data, stored, n, written + 1)
    /\ stored' = stored + n
    /\ full' = (stored' = RingSize)
    /\ pos' = IF full' THEN 0 ELSE pos

\* Where the rest goes on.  Mutant: where the write began.
WrapFromStored == IF stored < RingSize THEN stored ELSE 0
WrapFrom == 0

\* The ring mode: n bytes go over the oldest ones, from position at.
WrapData(d, at, n, first) ==
    LET end == Least(RingSize - at, n)
    IN  IF n >= RingSize
        THEN Copy(d, 0, RingSize, first + n - RingSize)
        ELSE Copy(Copy(d, at, end, first), 0, n - end, first + end)

WrapPos(at, n) ==
    LET end == Least(RingSize - at, n)
    IN  IF n >= RingSize \/ at + n = RingSize THEN 0
        ELSE IF end < n THEN n - end ELSE at + n

\* p fills the buffer, and its last n - Room bytes go round.
FillAndWrap(n) ==
    /\ ~full /\ n > Room
    /\ data' = WrapData(Copy(data, stored, Room, written + 1), WrapFrom,
                         n - Room, written + Room + 1)
    /\ pos' = WrapPos(WrapFrom, n - Room)
    /\ stored' = RingSize /\ full' = TRUE

Overwrite(n) ==
    /\ full
    /\ data' = WrapData(data, pos, n, written + 1)
    /\ pos' = WrapPos(pos, n)
    /\ UNCHANGED <<stored, full>>

RingWrite(n) == Fill(n) \/ FillAndWrap(n) \/ Overwrite(n)

\* ringBuffer.String: its byte i, of stored ones.
StringAt(i) ==
    IF ~full THEN data[i]
    ELSE IF pos + i < RingSize THEN data[pos + i] ELSE data[pos + i - RingSize]

-----------------------------------------------------------------------------
(* cappedWriter.Write                                                       *)

Remaining == CapLimit - headLen

\* Mutant: nothing is kept of a write that does not fit.
KeepsWhole(n) == IF n > Remaining THEN 0 ELSE n
KeepsOf(n) == Least(n, Remaining)

HeadWrite(n) ==
    /\ head' = Copy(head, headLen, KeepsOf(n), written + 1)
    /\ headLen' = headLen + KeepsOf(n)
    /\ truncated' = (truncated \/ n > Remaining)

\* The child prints n bytes, which both buffers are given.
Write(n) ==
    /\ written + n <= MaxWritten
    /\ RingWrite(n) /\ HeadWrite(n)
    /\ written' = written + n

BufferNext == \E n \in 1..MaxWritten : Write(n)

BufferSpec == BufferInit /\ [][BufferNext]_bufferVars

-----------------------------------------------------------------------------
\* "keeps the most recent N bytes", "in chronological order".
RingKeepsTail ==
    /\ stored = Least(written, RingSize)
    /\ \A i \in 0..stored - 1 : StringAt(i) = written - stored + 1 + i

\* The first bytes are kept, and truncated tells whether any were dropped.
HeadIsKept ==
    /\ headLen = Least(written, CapLimit)
    /\ \A i \in 0..headLen - 1 : head[i] = i + 1
    /\ truncated <=> written > CapLimit

\* Whatever the sizes of the writes, each buffer holds its end of the output.
OutputIsKept == RingKeepsTail /\ HeadIsKept
=============================================================================
