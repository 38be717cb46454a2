--------------------------- MODULE SegmentReader ----------------------------
(***************************************************************************)
(* How the bytes of the segments reach libav: MediaObjectDecoder::Read on  *)
(* the streams that the download threads fill.  A decoder first looks at   *)
(* the initialisation segment, which it shares with the other decoders of  *)
(* its representation and must leave as it is, and then reads its own      *)
(* media segment.  Decoder n is created when decoder n - 1 is done with    *)
(* its segment, whatever the downloads have got to.                        *)
(*                                                                         *)
(* A stream is its queue of blocks, with the calls of BlockStream.  What   *)
(* libav asks for, and when it has seen enough to be initialised, is       *)
(* libav's affair: any size of AskSizes, any time after its first bytes.   *)
(***************************************************************************)
EXTENDS BlockQueue

CONSTANTS Count,      \* decoders, one per media segment
          BLOCKSIZE,  \* AbstractChunk: bytes of a read from the connection
          AskSizes,   \* sizes of a read by libav: bufferSize of LibavDecoder,
                      \* or more when it wants more at once
          MaxInit,    \* bound of the model: bytes of the init segment
          MaxMedia    \* bound of the model: bytes of a media segment

Decoders == 1..Count
Sources == 0..Count  \* 0 is the init segment

ASSUME ReaderAssumption ==
    /\ Count \in Nat \ {0}
    /\ BLOCKSIZE \in Nat \ {0}
    /\ AskSizes \subseteq Nat \ {0}
    /\ MaxInit \in Nat /\ MaxMedia \in Nat

VARIABLES initSegment,         \* there is one: it is NULL with BaseUrls
          size,                \* bytes the connection has for each segment
          pushed,              \* bytes its download thread has pushed
          blockqueues,         \* the blocks of each stream
          streamEnded,         \* the end of each stream is set
          decoderInitialized,
          initSegmentOffset,
          pc,                  \* where each decoder is
          buffer               \* history: what libav was given

streamVars == <<size, pushed, blockqueues, streamEnded>>
decoderVars == <<decoderInitialized, initSegmentOffset, pc, buffer>>
readerVars == <<initSegment, streamVars, decoderVars>>

\* The bytes first..last of a segment.  No two segments share one.
Content(s, first, last) ==
    [i \in 1 .. last - first + 1 |-> i + first + s * (MaxInit + MaxMedia + 1)]

ReaderInit ==
    /\ initSegment \in BOOLEAN
    /\ size \in {f \in [Sources -> 0..MaxInit + MaxMedia] :
                    f[0] <= MaxInit /\ \A d \in Decoders : f[d] <= MaxMedia}
    /\ pushed = [s \in Sources |-> 0]
    /\ blockqueues = [s \in Sources |-> <<>>]
    /\ streamEnded = [s \in Sources |-> FALSE]
    /\ decoderInitialized = [d \in Decoders |-> FALSE]
    /\ initSegmentOffset = [d \in Decoders |-> 0]
    /\ pc = [d \in Decoders |-> "none"]
    /\ buffer = [d \in Decoders |-> <<>>]

-----------------------------------------------------------------------------
(* DownloadExternalConnection, one thread for each segment *)

\* The connection fills the block as far as it has bytes.
PushBlock(s) ==
    /\ ~streamEnded[s] /\ pushed[s] < size[s]
    /\ LET n == Least(BLOCKSIZE, size[s] - pushed[s]) IN
          /\ pushed' = [pushed EXCEPT ![s] = @ + n]
          /\ blockqueues' = [blockqueues EXCEPT ![s] =
                                Append(@, Content(s, pushed[s] + 1, pushed[s] + n))]
    /\ UNCHANGED <<initSegment, size, streamEnded, decoderVars>>

\* The loop is over when the connection has no more.  A media segment in the
\* queue may also be aborted, after any block.
SetStreamEOS(s) ==
    /\ ~streamEnded[s] /\ (pushed[s] = size[s] \/ (s \in Decoders /\ pushed[s] > 0))
    /\ streamEnded' = [streamEnded EXCEPT ![s] = TRUE]
    /\ UNCHANGED <<initSegment, size, pushed, blockqueues, decoderVars>>

\* A download makes progress, and nobody aborts it.
Download(s) == PushBlock(s) \/ (pushed[s] = size[s] /\ SetStreamEOS(s))

-----------------------------------------------------------------------------
(* MediaObjectDecoder *)

Goto(d, place) == pc' = [pc EXCEPT ![d] = place]
Length(s) == Len(FlattenSeq(blockqueues[s]))

\* DASHManager::CreateAVDecoder; LibavDecoder::Init begins to read.
Create(d) ==
    /\ pc[d] = "none"
    /\ d = 1 \/ (d > 1 /\ pc[d - 1] = "ended")
    /\ Goto(d, "read")
    /\ UNCHANGED <<initSegment, streamVars, decoderInitialized, initSegmentOffset, buffer>>

\* LibavDecoder::Init has returned true.
Initialize(d) ==
    /\ pc[d] = "read" /\ ~decoderInitialized[d] /\ buffer[d] # <<>>
    /\ decoderInitialized' = [decoderInitialized EXCEPT ![d] = TRUE]
    /\ UNCHANGED <<initSegment, streamVars, initSegmentOffset, pc, buffer>>

\* Mutant: the end of the init segment is no reason to go on.
AwaitInitByte(d) == initSegmentOffset[d] < Length(0)

\* while ((length == 0 || offset >= length) && !eos) of PeekBytes.
AwaitInit(d) == initSegmentOffset[d] < Length(0) \/ streamEnded[0]

\* What PeekBytes says it has peeked.
Amount(offset, len) ==
    LET n == Least(len, Length(0)) IN
    IF offset >= Length(0) THEN 0
    ELSE IF offset + n > Length(0) THEN Length(0) - offset ELSE n

\* Mutant: the init segment is read, not peeked.
PeekInitSegmentAway(d, len) ==
    LET ret == Least(len, Length(0)) IN
    /\ AwaitInit(d)
    /\ IF ret = 0 THEN Goto(d, "media") /\ UNCHANGED <<buffer, blockqueues>>
       ELSE /\ buffer' = [buffer EXCEPT ![d] = @ \o FlattenSeq(Cut(blockqueues[0], ret).data)]
            /\ blockqueues' = [blockqueues EXCEPT ![0] = Cut(@, ret).rest]
            /\ UNCHANGED pc
    /\ initSegmentOffset' = [initSegmentOffset EXCEPT ![d] = @ + ret]
    /\ UNCHANGED <<initSegment, size, pushed, streamEnded, decoderInitialized>>

\* initSegment->Peek.  libav is given as many bytes as the call says; a copy
\* of a huge length ends the process.
PeekInitSegment(d, len) ==
    LET offset == initSegmentOffset[d]
        ret    == Amount(offset, len)
        peeked == BlockQueuePeekBytes(blockqueues[0], ret, offset)
    IN
    /\ AwaitInit(d)
    /\ Goto(d, IF ret = 0 THEN "media" ELSE IF peeked.fault THEN "crashed" ELSE "read")
    /\ buffer' = [buffer EXCEPT ![d] = @ \o peeked.data]
    /\ initSegmentOffset' = [initSegmentOffset EXCEPT ![d] = @ + ret]
    /\ UNCHANGED <<initSegment, streamVars, decoderInitialized>>

\* The first half of MediaObjectDecoder::Read.
ReadInitSegment(d, len) ==
    /\ pc[d] = "read"
    /\ ~decoderInitialized[d] /\ initSegment
    /\ PeekInitSegment(d, len)

\* Mutant: the end of the stream is taken for granted.
AwaitMediaNot(d) == TRUE

\* while (length == 0 && !eos) of GetBytes.
AwaitMedia(d) == Length(d) > 0 \/ streamEnded[d]

\* The other half.  No bytes are the end of the file for libav.
ReadMediaSegment(d, len) ==
    /\ \/ pc[d] = "read" /\ (decoderInitialized[d] \/ ~initSegment)
       \/ pc[d] = "media"
    /\ AwaitMedia(d)
    /\ LET n == Least(len, Length(d)) IN
          /\ blockqueues' = [blockqueues EXCEPT ![d] = Cut(@, n).rest]
          /\ buffer' = [buffer EXCEPT ![d] = @ \o FlattenSeq(Cut(blockqueues[d], n).data)]
          /\ Goto(d, IF n = 0 THEN "ended" ELSE "read")
    /\ UNCHANGED <<initSegment, size, pushed, streamEnded, decoderInitialized, initSegmentOffset>>

Read(d) == \E len \in AskSizes : ReadInitSegment(d, len) \/ ReadMediaSegment(d, len)

-----------------------------------------------------------------------------

ReaderNext ==
    \/ \E s \in Sources : PushBlock(s) \/ SetStreamEOS(s)
    \/ \E d \in Decoders : Create(d) \/ Initialize(d) \/ Read(d)

ReaderSpec == ReaderInit /\ [][ReaderNext]_readerVars

\* Downloads go on (DownloadChunk: DownloadEnds), and libav reads until it is
\* told the end.
Fairness ==
    /\ \A s \in Sources : WF_readerVars(Download(s))
    /\ \A d \in Decoders : WF_readerVars(Create(d)) /\ WF_readerVars(Read(d))

FairReaderSpec == ReaderSpec /\ Fairness

-----------------------------------------------------------------------------
(* Properties *)

InitContent == IF initSegment THEN Content(0, 1, size[0]) ELSE <<>>

\* Every variable has its type; a decoder's offset stays within the init
\* segment, and no copy runs away.
ReaderTypeOK ==
    /\ initSegment \in BOOLEAN
    /\ pushed \in [Sources -> Nat] /\ \A s \in Sources : pushed[s] <= size[s]
    /\ \A s \in Sources : Length(s) <= pushed[s]
    /\ streamEnded \in [Sources -> BOOLEAN]
    /\ decoderInitialized \in [Decoders -> BOOLEAN]
    /\ initSegmentOffset \in [Decoders -> 0..size[0]]
    /\ pc \in [Decoders -> {"none", "read", "media", "ended"}]

\* What InitThenMedia and EndIsTheEnd rest on, because Peek does not give what
\* its callers expect of an offset (see PeeksFromItsOffset): the init segment is
\* a single block, and libav asks for that much.  Both are 32768 bytes.
InitFitsOneRead == MaxInit <= BLOCKSIZE /\ \A len \in AskSizes : MaxInit <= len

\* However downloads, abort and several decoders interleave, libav is given
\* the init segment and then the media segment, from their first byte on,
\* nothing left out, nothing twice and nothing of another segment.
InitThenMedia ==
    \A d \in Decoders :
        IsPrefix(buffer[d], InitContent \o Content(d, 1, size[d]))

\* A decoder that was told the end was given all that was downloaded.
EndIsTheEnd ==
    \A d \in Decoders :
        pc[d] = "ended" =>
            streamEnded[d] /\ buffer[d] = InitContent \o Content(d, 1, pushed[d])

\* Every decoder comes to the end of its segment.
DecodersEnd == <>(\A d \in Decoders : pc[d] = "ended")

\* IDownloadableChunk.h on Peek: `offset` is "the offset to start with", and the
\* result the "amount of data that has been peeked".  What a decoder was given
\* for its first initSegmentOffset bytes is the beginning of the init segment.
PeeksFromItsOffset ==
    \A d \in Decoders :
        SubSeq(buffer[d], 1, initSegmentOffset[d]) = Content(0, 1, initSegmentOffset[d])
=============================================================================
