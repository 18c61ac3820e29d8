----------------------------- MODULE SerialLink -----------------------------
(***************************************************************************)
(* The serial line between the signing device (ref/, hal/) and the host    *)
(* script (sage-ref/KAT_test_Stream.py).                                   *)
(*                                                                         *)
(* Each direction is a FIFO queue that loses and reorders nothing.  What   *)
(* one call puts on the line is one item: the 0x00 byte of hal_putchar(0), *)
(* a printed line, the raw bytes of a matrix, the '1' of the host, a       *)
(* four-byte command code.  A line carries the sequence of matrices        *)
(* printed on it; a burst carries the matrices whose bytes it holds.       *)
(*                                                                         *)
(* Reads are framed by the READER, not by the item: the host's read(1)     *)
(* takes one byte of whatever comes first, its readline() everything up to *)
(* the next newline.  A stray 0x00 or a bitten-off digit ends up in the    *)
(* line, which is then no longer the hex text of a matrix.                 *)
(***************************************************************************)
EXTENDS Naturals, Sequences

CONSTANT Corrupt  \* a line of text that bytes.fromhex() refuses

\* Device to host: one 0x00 byte, a printed line.
Ready       == [kind |-> "ready", data |-> <<>>]
Line(ms)    == [kind |-> "line",  data |-> ms]

\* Host to device: raw matrix bytes, the '1', a command code.
Burst(ms)   == [kind |-> "burst", data |-> ms]
Ack         == [kind |-> "ack",   data |-> <<>>]
Code        == [kind |-> "code",  data |-> <<>>]

\* An item whose first field took in a foreign byte or lost one.
Garbled(item) ==
    [item EXCEPT !.data = IF @ = <<>> THEN @ ELSE <<Corrupt>> \o Tail(@)]

-----------------------------------------------------------------------------
\* dev.read(1): blocks until there is a byte and takes one.

CanReadByte(q) == q # <<>>

AfterReadByte(q) ==
    IF Head(q).kind = "ready" THEN Tail(q) ELSE <<Garbled(Head(q))>> \o Tail(q)

\* dev.readline(): blocks until there is a newline; 0x00 bytes before the
\* line are taken with it.

LineAt(q, p) == /\ q[p].kind = "line"
                /\ \A r \in 1..(p - 1) : q[r].kind # "line"

CanReadLine(q) == \E p \in 1..Len(q) : q[p].kind = "line"

LineEnd(q)  == CHOOSE p \in 1..Len(q) : LineAt(q, p)

LineRead(q) == IF LineEnd(q) = 1 THEN q[1] ELSE Garbled(q[LineEnd(q)])

AfterReadLine(q) == SubSeq(q, LineEnd(q) + 1, Len(q))

\* hal_getchar() and the read_stream loops on the device: they take exactly
\* the bytes they count, so an item is consumed whole iff it is the one the
\* loop was written for.

CanRecv(q, kind) == q # <<>> /\ Head(q).kind = kind

-----------------------------------------------------------------------------
\* What may be on the line while both sides keep in step: nothing, one '1',
\* the bytes of n matrices with or without the '1', a 0x00 byte, a line with
\* or without a 0x00 before it.  n = 0 leaves the number open.

Texts(P, n)  == {ms \in Seq(P) : n \in {0, Len(ms)}}
Bursts(P, n) == [kind : {"burst"}, data : Texts(P, n)]
Lines(P, n)  == [kind : {"line"}, data : Texts(P, n)]

IsEmpty(q)           == q = <<>>
IsAck(q)             == q = <<Ack>>
IsReady(q)           == q = <<Ready>>
IsBurst(q, P, n)     == \E p \in 1..Len(q) : q[p] \in Bursts(P, n) /\ q = <<q[p]>>
IsBurstAck(q, P, n)  == \E p \in 1..Len(q) : q[p] \in Bursts(P, n) /\ q = <<q[p], Ack>>
IsLine(q, P, n)      == \E p \in 1..Len(q) : q[p] \in Lines(P, n) /\ q = <<q[p]>>
IsReadyLine(q, P, n) == \E p \in 1..Len(q) : q[p] \in Lines(P, n) /\ q = <<Ready, q[p]>>
=============================================================================
