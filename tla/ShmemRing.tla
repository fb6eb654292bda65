----------------------------- MODULE ShmemRing -----------------------------
(***************************************************************************)
(* simrs-transport-shmem: the byte ring between a terminal and a card.     *)
(* Messages are framed by a two-byte little-endian length.  The indices    *)
(* are u32 values that wrap and are masked on access.                      *)
(***************************************************************************)
EXTENDS Integers, Sequences

CONSTANTS
    RingSize,         \* ring_size, a power of two
    IndexMod,         \* 2^32: indices are u32
    ByteMod,          \* 2^8: base of the length prefix
    OutMax            \* MSG_PAYLOAD_MAX, size of a reader's buffer

ASSUME RingAssumption ==
    /\ RingSize \in Nat \ {0} /\ IndexMod \in Nat \ 0 .. 2 /\ ByteMod \in Nat \ {0}
    /\ OutMax \in Nat
    /\ IndexMod % RingSize = 0
    /\ RingSize <= ByteMod * ByteMod     \* RING_SIZE_MAX

Cells == 0 .. RingSize - 1
Index == 0 .. IndexMod - 1

\* Mutant: the index is not wrapped.
Advance_unwrapped(idx, n) == idx + n
Advance(idx, n) == (idx + n) % IndexMod

\* head - tail wraps as a u32 and is masked.
ring_readable(head, tail) == ((head - tail) % IndexMod) % RingSize

\* Mutant: no byte is kept free, so a full ring looks empty.
ring_writable_full(head, tail) == RingSize - ring_readable(head, tail)
\* One byte stays free, to tell a full ring from an empty one.
ring_writable(head, tail) == RingSize - 1 - ring_readable(head, tail)

Frame(data) == <<Len(data) % ByteMod, Len(data) \div ByteMod>> \o data
FitsRing(head, tail, data) == Len(Frame(data)) <= ring_writable(head, tail)

\* The ring after ring_write has put the frame at head.
ring_write(ring, head, data) ==
    [c \in Cells |-> LET i == (c - head) % RingSize
                     IN IF i < Len(Frame(data)) THEN Frame(data)[i + 1] ELSE ring[c]]

Byte(ring, idx) == ring[idx % RingSize]
FrameLen(ring, tail) == 2 + Byte(ring, tail) + ByteMod * Byte(ring, tail + 1)

\* ring_read finds a whole frame, and the reader's buffer is large enough.
CanRead(ring, head, tail) ==
    /\ ring_readable(head, tail) >= 2
    /\ FrameLen(ring, tail) <= ring_readable(head, tail)
    /\ FrameLen(ring, tail) - 2 <= OutMax

\* The payload that ring_read copies out, and the tail it returns.
ReadPayload(ring, tail) == [i \in 1 .. FrameLen(ring, tail) - 2 |-> Byte(ring, tail + 1 + i)]
NewTail(ring, tail) == Advance(tail, FrameLen(ring, tail))

\* All the messages between tail and head, oldest first.
Unread(ring, head, tail) ==
    LET from[n \in Cells] ==     \* the messages in the last n bytes before head
          IF n < 2 \/ FrameLen(ring, head - n) > n THEN <<>>
          ELSE <<ReadPayload(ring, head - n)>> \o from[n - FrameLen(ring, head - n)]
    IN from[ring_readable(head, tail)]
=============================================================================
