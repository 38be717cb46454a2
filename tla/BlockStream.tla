---------------------------- MODULE BlockStream -----------------------------
(***************************************************************************)
(* BlockStream with the monitor SyncedBlockStream around it: the bytes of  *)
(* a download, kept as a queue of blocks together with a count of them.    *)
(* Calls of any size cut and join the blocks.  A byte is a number, and the *)
(* bytes that go in are numbered in turn, so that order and loss show.     *)
(*                                                                         *)
(* One call is one step, because each holds the mutex from its first to    *)
(* its last line; a call that would wait is not enabled (what the waiting  *)
(* itself may do wrong is in DownloadChunk).                               *)
(***************************************************************************)
EXTENDS BlockQueue

CONSTANTS MaxBytes,  \* bound of the model: bytes that go into the stream
          MaxBlock   \* bound of the model: bytes of a block that goes in

ASSUME StreamAssumption == MaxBytes \in Nat /\ MaxBlock \in Nat \ {0}

-----------------------------------------------------------------------------

VARIABLES blockqueue,
          length,
          eos,
          out,   \* the answer of the last call: <<bytes>>, or <<>> when it has none
          last   \* number of the last byte that went in

stream == <<blockqueue, length>>
vars == <<stream, eos, out, last>>

Init ==
    /\ blockqueue = <<>>
    /\ length = 0
    /\ eos = FALSE
    /\ out = <<>>
    /\ last = 0

Returns(data) == out' = <<data>>
ReturnsVoid == out' = <<>>

\* A new block of n bytes.
NewBlock(n) == [i \in 1..n |-> last + i]

Push(n) ==
    /\ n \in 1..MaxBytes - last
    /\ length' = length + n
    /\ last' = last + n
    /\ ReturnsVoid
    /\ UNCHANGED eos

PushBack(n) == Push(n) /\ blockqueue' = Append(blockqueue, NewBlock(n))
PushFront(n) == Push(n) /\ blockqueue' = <<NewBlock(n)>> \o blockqueue

\* while (length == 0 && !eos) is over.
Awake == length > 0 \/ eos

Keeps == UNCHANGED <<eos, last>>

\* What a call answers at the end of the stream, and what the calls do that
\* only look.
Nothing == Returns(<<>>) /\ UNCHANGED stream

TakeBytes(len) ==
    /\ blockqueue' = Cut(blockqueue, len).rest
    /\ length' = length - len
    /\ Returns(FlattenSeq(Cut(blockqueue, len).data))

\* Of the two GetBytes this one gives what there is, ...
GetBytes(len) ==
    /\ Awake
    /\ IF length = 0 THEN Nothing ELSE TakeBytes(Least(len, length))
    /\ Keeps

\* ... and this one NULL when there is not enough, as GetBlocks does, which
\* moves the blocks to a stream of their own.
GetBlock(len) ==
    /\ Awake
    /\ IF length = 0 \/ length < len THEN Nothing ELSE TakeBytes(len)
    /\ Keeps

ToBlock ==
    /\ Awake
    /\ IF length = 0 THEN Nothing ELSE TakeBytes(length)
    /\ Keeps

PeekBytes(len) ==
    /\ Awake
    /\ Returns(BlockQueuePeekBytes(blockqueue, Least(len, length), 0).data)
    /\ UNCHANGED stream
    /\ Keeps

\* Mutant: the count forgets the block.
GetFrontUncounted ==
    /\ Awake
    /\ IF length = 0 THEN Nothing
       ELSE /\ Returns(Head(blockqueue))
            /\ blockqueue' = Tail(blockqueue)
            /\ UNCHANGED length
    /\ Keeps

GetFront ==
    /\ Awake
    /\ IF length = 0 THEN Nothing
       ELSE /\ Returns(Head(blockqueue))
            /\ length' = length - Len(Head(blockqueue))
            /\ blockqueue' = Tail(blockqueue)
    /\ Keeps

PeekFront ==
    /\ Awake
    /\ Returns(IF length = 0 THEN <<>> ELSE Head(blockqueue))
    /\ UNCHANGED stream
    /\ Keeps

\* Waits while there are fewer bytes than `position`: for the byte right after
\* the last one it does not wait, and finds none.
ByteAt(position) ==
    /\ length >= position \/ eos
    /\ Returns(IF position < length THEN <<FlattenSeq(blockqueue)[position + 1]>>
               ELSE <<NoByte>>)
    /\ UNCHANGED stream
    /\ Keeps

\* Nothing below waits.

PopAndDeleteFront ==
    /\ blockqueue # <<>>
    /\ length' = length - Len(Head(blockqueue))
    /\ blockqueue' = Tail(blockqueue)
    /\ ReturnsVoid
    /\ Keeps

EraseFront(len) ==
    /\ LET n == Least(len, length) IN
          /\ blockqueue' = Cut(blockqueue, n).rest
          /\ length' = length - n
    /\ ReturnsVoid
    /\ Keeps

Clear ==
    /\ blockqueue' = <<>>
    /\ length' = 0
    /\ ReturnsVoid
    /\ Keeps

SetEOS(value) ==
    /\ eos' = value
    /\ ReturnsVoid
    /\ UNCHANGED <<stream, last>>

-----------------------------------------------------------------------------

Next ==
    \/ \E n \in 1..MaxBlock : PushBack(n) \/ PushFront(n)
    \/ \E len \in 0..MaxBytes :
        \/ GetBytes(len)
        \/ GetBlock(len)
        \/ PeekBytes(len)
        \/ EraseFront(len)
        \/ ByteAt(len)
    \/ ToBlock
    \/ GetFront
    \/ PeekFront
    \/ PopAndDeleteFront
    \/ Clear
    \/ \E value \in BOOLEAN : SetEOS(value)

Spec == Init /\ [][Next]_vars

-----------------------------------------------------------------------------
(* Properties *)

\* Every variable has its type; no block is empty and none longer than what
\* goes in, whatever was cut.
TypeOK ==
    /\ blockqueue \in Seq(Seq(1..last))
    /\ \A i \in DOMAIN blockqueue : Len(blockqueue[i]) \in 1..MaxBlock
    /\ length \in 0..last
    /\ eos \in BOOLEAN
    /\ out \in Seq(Seq(0..last)) /\ Len(out) <= 1
    /\ last \in 0..MaxBytes

\* The count that all the waiting depends on is the number of bytes in the
\* blocks, after any sequence of calls that cut, join and drop them.
LengthCounts == length = Len(FlattenSeq(blockqueue))

Bytes == INSTANCE ByteStream WITH bytes <- FlattenSeq(blockqueue), ended <- eos

\* The blocks implement a stream of bytes: whatever the calls and their sizes,
\* bytes come out in order, once, and a call answers only when it may.
ImplementsByteStream == Bytes!Spec
=============================================================================
