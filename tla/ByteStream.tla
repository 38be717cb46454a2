----------------------------- MODULE ByteStream -----------------------------
(***************************************************************************)
(* What the byte stream of a download promises its two sides: the bytes    *)
(* come out in the order in which they went in, however they were cut into *)
(* blocks, and a call that finds nothing waits until there is something or *)
(* the stream has ended.  There are no blocks here and no counter.         *)
(***************************************************************************)
EXTENDS Integers, Sequences

VARIABLES bytes,  \* what was put and not taken yet
          ended,  \* no call waits any more
          out     \* the answer of the last call: <<bytes>>, or <<>> when it has none

vars == <<bytes, ended, out>>

Init == bytes = <<>> /\ ended = FALSE /\ out = <<>>

Piece(first, n) == SubSeq(bytes, first, first + n - 1)
From(first) == SubSeq(bytes, first, Len(bytes))

\* A call may look at the stream.
Ready == bytes # <<>> \/ ended

Put ==
    /\ Len(bytes') > Len(bytes)
    /\ bytes = SubSeq(bytes', 1, Len(bytes))
    /\ out' = <<>>
    /\ UNCHANGED ended

PutBack ==
    /\ Len(bytes') > Len(bytes)
    /\ bytes = SubSeq(bytes', Len(bytes') - Len(bytes) + 1, Len(bytes'))
    /\ out' = <<>>
    /\ UNCHANGED ended

Take(n) ==
    /\ Ready
    /\ out' = <<Piece(1, n)>>
    /\ bytes' = From(n + 1)
    /\ UNCHANGED ended

Look(first, n) ==
    /\ Ready
    /\ out' = <<Piece(first, n)>>
    /\ UNCHANGED <<bytes, ended>>

\* What is no byte.
NoByte == 0

\* A single byte that is not there is answered for at once.
Miss ==
    /\ out' = <<<<NoByte>>>>
    /\ UNCHANGED <<bytes, ended>>

\* Bytes are thrown away without being looked at; this never waits.
Drop(n) ==
    /\ out' = <<>>
    /\ bytes' = From(n + 1)
    /\ UNCHANGED ended

SetEnd ==
    /\ ended' \in BOOLEAN
    /\ out' = <<>>
    /\ UNCHANGED bytes

Next ==
    \/ Put
    \/ PutBack
    \/ \E n \in 0..Len(bytes) :
        \/ Take(n)
        \/ Drop(n)
        \/ \E first \in 1..Len(bytes) + 1 - n : Look(first, n)
    \/ Miss
    \/ SetEnd

Spec == Init /\ [][Next]_vars
=============================================================================
