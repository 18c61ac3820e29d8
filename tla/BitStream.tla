------------------------------ MODULE BitStream ------------------------------
(***************************************************************************)
(* ref/bitstream.c, and the way keys, signatures and commitments go        *)
(* through it: blocks of fields of GFq_bits each, every block brought to a *)
(* whole byte with bs_finalize, in a buffer of just that many bytes that   *)
(* nobody has cleared (bs_buf of crypto_sign is on the stack), and read    *)
(* back in the same way.                                                   *)
(*                                                                         *)
(* A number is the set of its bits that are 1, counted from the lowest:    *)
(* "|" is the union, a mask an intersection, and a byte that is stored     *)
(* keeps the bits 0 to 7.                                                  *)
(***************************************************************************)
EXTENDS Integers, Sequences

CONSTANTS
    Shapes,     \* [bits, fields, blocks]: the streams to run
    Fills,      \* bytes that a buffer may hold before it is written
    Values(_)   \* Values(shape): the fields that are written

Byte == 0..7

\* A field narrower than a byte would be or-ed onto what is in the buffer; all
\* GFq_bits of params.h are wider.
ASSUME BitStreamAssumption ==
    /\ \A s \in Shapes :
           /\ s.bits \in Nat /\ s.bits >= 8 /\ {s.fields, s.blocks} \subseteq Nat \ {0}
           /\ Values(s) \subseteq SUBSET (0..(s.bits - 1))
    /\ Fills \subseteq SUBSET Byte

VARIABLES
    shape,
    pc,       \* "write" or "read"
    bs,       \* [data, byte_pos, bit_pos], bitstream_t with its buffer
    field,    \* fields done of the block
    refused,  \* some call has returned -1, which no caller looks at
    wrote, got
vars == <<shape, pc, bs, field, refused, wrote, got>>

CEILING(x, y) == (x + y - 1) \div y
Block   == CEILING(shape.fields * shape.bits, 8)
buf_len == shape.blocks * Block

-----------------------------------------------------------------------------
Shl(x, k) == {b + k : b \in x}
Shr(x, k) == {b - k : b \in {c \in x : c >= k}}

bs_init(buf) == [data |-> buf, byte_pos |-> 0, bit_pos |-> 0]

\* Mutant: a position on a byte boundary is moved as well.
bs_finalize_Always(s) == [s EXCEPT !.byte_pos = @ + 1, !.bit_pos = 0]

bs_finalize(s) == [s EXCEPT !.byte_pos = @ + (IF s.bit_pos > 0 THEN 1 ELSE 0), !.bit_pos = 0]

Exceeds(s, data_len) == s.byte_pos * 8 + s.bit_pos + data_len > buf_len * 8

\* A field in parts: the bits that complete the byte at hand, whole bytes, and
\* the bits left.
Start(s)    == s.byte_pos + (IF s.bit_pos > 0 THEN 1 ELSE 0)
HeadBits(s) == (8 - s.bit_pos) % 8
\* Mutant: "while (data_len > 8)".
WholeBytes_Strict(s, len) ==
    IF len = HeadBits(s) THEN 0 ELSE (len - HeadBits(s) - 1) \div 8
WholeBytes(s, len) == (len - HeadBits(s)) \div 8
TailBits(s, len)   == len - HeadBits(s) - 8 * WholeBytes(s, len)

\* Byte b of the buffer, with the parts of data in it.
\* Mutant: the last byte is or-ed onto what is there.
ByteWritten_OrTail(s, data, data_len, b) ==
    LET whole == Start(s) + WholeBytes(s, data_len)
        tail  == TailBits(s, data_len)
    IN IF b < Start(s) THEN IF b = s.byte_pos THEN s.data[b] \cup (Shl(data, s.bit_pos) \cap Byte)
                            ELSE s.data[b]
       ELSE IF b < whole THEN Shr(data, HeadBits(s) + 8 * (b - Start(s))) \cap Byte
       ELSE IF b = whole /\ tail > 0 THEN s.data[b] \cup (Shr(data, data_len - tail) \cap Byte)
       ELSE s.data[b]

ByteWritten(s, data, data_len, b) ==
    LET whole == Start(s) + WholeBytes(s, data_len)
        tail  == TailBits(s, data_len)
    IN IF b < Start(s) THEN IF b = s.byte_pos THEN s.data[b] \cup (Shl(data, s.bit_pos) \cap Byte)
                            ELSE s.data[b]
       ELSE IF b < whole THEN Shr(data, HeadBits(s) + 8 * (b - Start(s))) \cap Byte
       ELSE IF b = whole /\ tail > 0 THEN Shr(data, data_len - tail) \cap Byte
       ELSE s.data[b]

bs_write(s, data, data_len) ==
    IF Exceeds(s, data_len) THEN s
    ELSE IF s.bit_pos + data_len < 8
    THEN [s EXCEPT !.data[s.byte_pos] = @ \cup (Shl(data, s.bit_pos) \cap Byte),
                   !.bit_pos = @ + data_len]
    ELSE [data     |-> [b \in DOMAIN s.data |-> ByteWritten(s, data, data_len, b)],
          byte_pos |-> Start(s) + WholeBytes(s, data_len),
          bit_pos  |-> TailBits(s, data_len)]

\* What a read that is not refused returns.
\* Mutant: what follows the field in its last byte is read with it.
FieldAt_NoMask(s, data_len) ==
    LET whole == WholeBytes(s, data_len)
        tail  == TailBits(s, data_len)
    IN (IF s.bit_pos > 0 THEN Shr(s.data[s.byte_pos], s.bit_pos) ELSE {})
       \cup (UNION {Shl(s.data[Start(s) + k], HeadBits(s) + 8 * k) : k \in 0..(whole - 1)})
       \cup (IF tail > 0 THEN Shl(s.data[Start(s) + whole], data_len - tail) ELSE {})

FieldAt(s, data_len) ==
    LET whole == WholeBytes(s, data_len)
        tail  == TailBits(s, data_len)
    IN (IF s.bit_pos > 0 THEN Shr(s.data[s.byte_pos], s.bit_pos) ELSE {})
       \cup (UNION {Shl(s.data[Start(s) + k], HeadBits(s) + 8 * k) : k \in 0..(whole - 1)})
       \cup (IF tail > 0 THEN Shl(s.data[Start(s) + whole] \cap 0..(tail - 1), data_len - tail) ELSE {})

\* -1, as the uint32_t that bs_read returns.
AllOnes == 0..31

bs_read(s, data_len) ==
    IF Exceeds(s, data_len) THEN [ret |-> AllOnes, bs |-> s]
    ELSE IF s.bit_pos + data_len < 8
    THEN [ret |-> Shr(s.data[s.byte_pos], s.bit_pos) \cap 0..(data_len - 1),
          bs  |-> [s EXCEPT !.bit_pos = @ + data_len]]
    ELSE [ret |-> FieldAt(s, data_len),
          bs  |-> [s EXCEPT !.byte_pos = Start(s) + WholeBytes(s, data_len),
                            !.bit_pos  = TailBits(s, data_len)]]

-----------------------------------------------------------------------------
\* The callers.

Write ==
    /\ pc = "write" /\ field < shape.fields
    /\ \E v \in Values(shape) :
        /\ bs' = bs_write(bs, v, shape.bits)
        /\ wrote' = Append(wrote, v)
    /\ refused' = (refused \/ Exceeds(bs, shape.bits))
    /\ field' = field + 1
    /\ UNCHANGED <<shape, pc, got>>

Read ==
    /\ pc = "read" /\ field < shape.fields
    /\ bs' = bs_read(bs, shape.bits).bs
    /\ got' = Append(got, bs_read(bs, shape.bits).ret)
    /\ refused' = (refused \/ Exceeds(bs, shape.bits))
    /\ field' = field + 1
    /\ UNCHANGED <<shape, pc, wrote>>

All       == shape.blocks * shape.fields
Processed == IF pc = "write" THEN wrote ELSE got

EndBlock ==
    /\ field = shape.fields
    /\ bs' = bs_finalize(bs)
    /\ field' = IF Len(Processed) < All THEN 0 ELSE field + 1
    /\ UNCHANGED <<shape, pc, refused, wrote, got>>

\* The writer is done; the reader takes the buffer from its start.
Reopen ==
    /\ pc = "write" /\ field = shape.fields + 1
    /\ pc' = "read"
    /\ bs' = bs_init(bs.data)
    /\ field' = 0
    /\ UNCHANGED <<shape, refused, wrote, got>>

Done == pc = "read" /\ field = shape.fields + 1 /\ UNCHANGED vars

Init ==
    /\ shape \in Shapes /\ pc = "write"
    /\ \E fill \in Fills : bs = bs_init([b \in 0..(buf_len - 1) |-> fill])
    /\ field = 0 /\ refused = FALSE /\ wrote = <<>> /\ got = <<>>

Next == Write \/ Read \/ EndBlock \/ Reopen \/ Done

Spec == Init /\ [][Next]_vars

-----------------------------------------------------------------------------
\* The encoding that is meant: field f of block q from bit At(q, f) on, lowest bit
\* first, zeros after the last field of a block.
At(q, f)    == q * Block * 8 + f * shape.bits
Nth(q, f)   == q * shape.fields + f + 1
BitOf(o) ==
    \E q \in 0..(shape.blocks - 1), f \in 0..(shape.fields - 1) :
        /\ Nth(q, f) <= Len(wrote)
        /\ At(q, f) <= o /\ o < At(q, f) + shape.bits
        /\ o - At(q, f) \in wrote[Nth(q, f)]
Encoded(b) == {j \in Byte : BitOf(8 * b + j)}

TypeOK ==
    /\ shape \in Shapes
    /\ pc \in {"write", "read"} /\ field \in 0..(shape.fields + 1)
    /\ bs.data \in [0..(buf_len - 1) -> SUBSET Byte]
    /\ bs.byte_pos \in 0..buf_len /\ bs.bit_pos \in Byte
    /\ wrote \in Seq(SUBSET (0..(shape.bits - 1)))

\* CEILING over the blocks is enough: no call is refused, and what is written
\* and read ends with the buffer.
Fits ==
    /\ ~refused
    /\ field = shape.fields + 1 => bs.byte_pos = buf_len /\ bs.bit_pos = 0

\* The bytes written so far are a function of the fields alone.  What was in the
\* buffer shows nowhere, the rest of the last byte of a block included: signer
\* and opener hash these bytes.
Packed ==
    LET upto == IF pc = "read" THEN buf_len ELSE Start(bs)
    IN \A b \in 0..(upto - 1) : bs.data[b] = Encoded(b)

\* What is read is what was written.
RoundTrip == got = SubSeq(wrote, 1, Len(got))
=============================================================================
