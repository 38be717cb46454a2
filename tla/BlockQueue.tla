----------------------------- MODULE BlockQueue -----------------------------
(***************************************************************************)
(* The two loops that copy bytes out of BlockStream's queue of blocks, as  *)
(* operators: the one that takes the bytes, in the four versions of the    *)
(* code, and the one that only looks.  A block is a sequence of bytes, the *)
(* bytes are positive numbers.                                             *)
(***************************************************************************)
EXTENDS Integers, SequencesExt

Prefix(block, n) == SubSeq(block, 1, n)
Suffix(block, n) == SubSeq(block, n + 1, Len(block))
Least(a, b) == IF a < b THEN a ELSE b

\* The block that does not fit is cut in two.
CutBlock(r, block, len) ==
    IF r.pos = len THEN [r EXCEPT !.rest = Append(@, block)]
    ELSE IF len - r.pos < Len(block)
    THEN [pos |-> len,
          data |-> Append(r.data, Prefix(block, len - r.pos)),
          rest |-> <<Suffix(block, len - r.pos)>>]
    ELSE [r EXCEPT !.pos = @ + Len(block), !.data = Append(@, block)]

\* The first `len` bytes of the queue q as blocks, and the blocks that remain.
Cut(q, len) ==
    LET after[i \in 0..Len(q)] ==
          IF i = 0 THEN [pos |-> 0, data |-> <<>>, rest |-> <<>>]
          ELSE CutBlock(after[i - 1], q[i], len)
    IN after[Len(q)]

\* What is no byte: a place of the caller's buffer that nothing was copied to,
\* and the code's -1 or 0 for a byte that is not there.
NoByte == 0

\* memcpy of n bytes of the block from `offset` on to position pos of a
\* buffer.  A length below zero is a huge one once it is unsigned.
Copy(r, pos, block, offset, n) ==
    [r EXCEPT !.data = [i \in DOMAIN @ |-> IF i \in pos + 1 .. pos + n
                                           THEN block[offset + i - pos] ELSE @[i]],
              !.fault = @ \/ n < 0]

\* Mutant: the part of the last block is one byte short.
PeekBlockShort(r, block, len, offset) ==
    IF r.pos >= len THEN r
    ELSE IF offset + len - r.pos < Len(block)
    THEN [Copy(r, r.pos, block, offset, len - r.pos - offset - 1) EXCEPT !.pos = len]
    ELSE [Copy(r, r.pos, block, offset, Len(block) - offset) EXCEPT !.pos = @ + Len(block)]

\* The offset is applied in every block, and subtracted from what the last
\* one should give.
PeekBlock(r, block, len, offset) ==
    IF r.pos >= len THEN r
    ELSE IF offset + len - r.pos < Len(block)
    THEN [Copy(r, r.pos, block, offset, len - r.pos - offset) EXCEPT !.pos = len]
    ELSE [Copy(r, r.pos, block, offset, Len(block) - offset) EXCEPT !.pos = @ + Len(block)]

BlockQueuePeekBytes(q, len, offset) ==
    LET after[i \in 0..Len(q)] ==
          IF i = 0 THEN [pos |-> 0, fault |-> FALSE, data |-> [j \in 1..len |-> NoByte]]
          ELSE PeekBlock(after[i - 1], q[i], len, offset)
    IN after[Len(q)]
=============================================================================
