----------------------- MODULE PlaybackSessionProofs -----------------------
(***************************************************************************)
(* Theorems about PlaybackSession, for streams of any length and segment   *)
(* buffers of any capacity.  The inductive invariant numbers everything:   *)
(* the downloads and the queue by the segments that were accepted, the     *)
(* decoders by the segments that were taken from it, and it says that one  *)
(* thread at most is at the end of the chain of decoders.                  *)
(***************************************************************************)
EXTENDS PlaybackSession, TLAPS

(* Where the GUI thread, the buffering thread and a decoder's thread can be. *)
StopPlaces == {"stopDecoder", "joinDecoder", "clear", "stopped"}
ActivePlaces == {"getFront", "new", "open", "decode", "decoded", "notify"}

PlacesOK ==
    /\ pc[Gui] \in {"idle", "getFront", "new", "open", "setRun", "setRunning", "started",
                    "notStopped", "stopReceiver", "closeQueue", "joinBuffering"} \cup StopPlaces
    /\ pc[Buffering] \in {"none", "init", "next", "check", "push", "wait", "setEOS", "done"}
    /\ \A n \in Segments : pc[n] \in {"none", "setRun", "done"} \cup ActivePlaces
    /\ \A n \in Segments : pc[n] = "none" <=> n \notin threadHandle
    /\ pc[Gui] = "idle" => threadHandle = {} /\ accepted = 0 /\ pc[Buffering] = "none"
    /\ pc[Gui] \in StopPlaces => pc[Buffering] = "done"
    /\ pc[Gui] = "stopped" => queue = <<>>

(* The last segment that was taken from the queue, until the queue is cleared. *)
Front == accepted - Len(queue)

(* Segments are accepted, downloaded and queued in the order of their numbers; *)
(* a segment is accepted when all the earlier ones have been downloaded.       *)
Numbering ==
    /\ pc[Buffering] \in {"none", "init", "next", "wait"} => segmentNumber = accepted
    /\ pc[Buffering] \in {"check", "push"} => segmentNumber = accepted + 1
    /\ pc[Buffering] \in {"setEOS", "done"} => segmentNumber \in {accepted, accepted + 1}
    /\ 1..accepted \subseteq started /\ started \subseteq 1..(accepted + 1)
    /\ pc[Buffering] = "push" => segmentNumber \in started
    /\ \A n \in 1..accepted : n \in ended \/ (pc[Buffering] = "wait" /\ n = accepted)
    /\ Len(queue) <= accepted
    /\ \A i \in 1..Len(queue) : queue[i] = Front + i

(* The decoder whose thread t is; the GUI thread comes before the first. *)
Number(t) == IF t = Gui THEN 0 ELSE t

Active(t) == pc[t] \in ActivePlaces

(* Only the last thread of the chain takes segments and creates decoders. *)
Chain ==
    /\ \A s, t \in Decoding : Active(s) /\ Active(t) => s = t
    /\ \A n \in threadHandle : 1..n \subseteq threadHandle
    /\ \A t \in Decoding : Active(t) =>
          /\ threadHandle = 1..Number(t)
          /\ pc[t] \in {"new", "open"} => taken[t] = Number(t) + 1 /\ taken[t] \in Segments
          /\ pc[Gui] # "stopped" =>
                Front = IF pc[t] \in {"new", "open"} THEN Number(t) + 1 ELSE Number(t)

(* The last segment taken is known to a thread, and its decoder to the manager. *)
Known ==
    /\ pc[Buffering] # "done" => Front = 0 \/ \E t \in Decoding : taken[t] = Front
    /\ \A t \in Decoding : \/ taken[t] \in {NoDecoder, Number(t) + 1}
                           \/ t = Gui /\ pc[Gui] \in {"joinDecoder", "clear", "stopped"}
    /\ isRunning \/ pc[Gui] \in {"open", "setRun", "setRunning", "stopReceiver", "closeQueue",
                                "joinBuffering", "stopDecoder"}
          => mediaObjectDecoder # NoDecoder

IInv ==
    /\ TypeOK
    /\ PlacesOK
    /\ Numbering
    /\ Chain
    /\ Known
    /\ BoundedAhead

-----------------------------------------------------------------------------

USE DEF Goto, Step, vars, queueVars, receiverVars, managerVars, decoderVars, historyVars,
        Threads, Decoding

(* Threads of different kinds are different threads. *)
LEMMA Distinct ==
    /\ Gui # Buffering /\ Gui \notin Segments /\ Buffering \notin Segments
    /\ NoDecoder \notin Segments
    /\ SegmentCount \in Nat /\ Capacity \in Nat \ {0}
    BY SessionAssumption

-----------------------------------------------------------------------------
(* Types *)

QueueType ==
    /\ queue \in Seq(Segments) /\ Len(queue) <= Capacity
    /\ accepted \in 0..SegmentCount
    /\ closed \in BOOLEAN
    /\ blocked \in [Threads -> {"put", "get", "nothing"}]

ReceiverType ==
    /\ isBuffering \in BOOLEAN
    /\ segmentNumber \in 0..SegmentCount
    /\ started \subseteq Segments
    /\ ended \subseteq started

DecoderType ==
    /\ isRunning \in BOOLEAN
    /\ mediaObjectDecoder \in Segments \cup {NoDecoder}
    /\ run \in [Segments -> BOOLEAN]
    /\ threadHandle \subseteq Segments
    /\ taken \in [Decoding -> Segments \cup {NoDecoder}]
    /\ flushed \subseteq threadHandle
    /\ failed \in BOOLEAN
    /\ early \in BOOLEAN

PlaceType == pc \in [Threads -> Places]

LEMMA TypeParts == TypeOK <=> QueueType /\ ReceiverType /\ DecoderType /\ PlaceType
    BY DEF TypeOK, QueueType, ReceiverType, DecoderType, PlaceType

(* What a step leaves of the queue. *)
LEMMA QueueSteps ==
    ASSUME [Next]_vars
    PROVE  \/ UNCHANGED queueVars
           \/ PushBack \/ SetEOSAtEnd \/ CloseQueue \/ Clear
           \/ \E t \in Decoding : GetFront(t)
<1>1. ASSUME NEW n \in Segments, DownloadEnds(n) \/ Decode(n) \/ DecodeFails(n)
      PROVE  UNCHANGED queueVars
    BY <1>1 DEF DownloadEnds, Decode, LeaveLoop, Flush, OnDecodingFinished, DecodeFails
<1>2. ASSUME NEW t \in Decoding, CreateAVDecoder(t) \/ StartDecoderFails(t), ~GetFront(t)
      PROVE  UNCHANGED queueVars
    BY <1>2 DEF CreateAVDecoder, NewDecoder, CreateDecoderThread, SetRun, StartDecoderFails
<1>3. CASE Start \/ StartReceiverFails \/ Stop
    BY <1>3 DEF Start, StartReceiver, SetRunning, StartReceiverFails, Stop, StopUnstarted,
                StopRunning, FinishStop, StopReceiver, JoinBuffering, StopDecoder, JoinDecoder
<1>4. CASE DoBuffering
    BY <1>4 DEF DoBuffering, GetNextSegment, DownloadInitSegment, StartDownload, WaitFinished
<1>5. QED
    BY <1>1, <1>2, <1>3, <1>4 DEF Next

LEMMA QueueTypeStep == TypeOK /\ Numbering /\ [Next]_vars => QueueType'
<1> SUFFICES ASSUME QueueType, ReceiverType, Numbering, [Next]_vars PROVE QueueType'
    BY TypeParts
<1> USE Distinct DEF QueueType
<1>1. CASE UNCHANGED queueVars
    BY <1>1
<1>2. CASE PushBack
    <2>1. blocked' \in [Threads -> {"put", "get", "nothing"}]
        BY <1>2 DEF PushBack, Queue!PutBlocks, Queue!PutAccepted, Queue!PutRefused,
                    Queue!Block, Queue!Return
    <2>2. CASE Queue!PutAccepted(Buffering)
        <3>1. accepted + 1 \in Segments /\ accepted + 1 \in 0..SegmentCount
            BY <1>2 DEF PushBack, Numbering, ReceiverType, Segments
        <3>2. /\ Append(queue, accepted + 1) \in Seq(Segments)
              /\ Len(Append(queue, accepted + 1)) = Len(queue) + 1
            BY <3>1
        <3>3. QED
            BY <2>1, <2>2, <3>1, <3>2 DEF Queue!PutAccepted
    <2>3. CASE Queue!PutBlocks(Buffering) \/ Queue!PutRefused(Buffering)
        BY <2>1, <2>3 DEF Queue!PutBlocks, Queue!PutRefused
    <2>4. QED
        BY <1>2, <2>2, <2>3 DEF PushBack
<1>3. ASSUME NEW t \in Decoding, GetFront(t) PROVE QueueType'
    <2>1. blocked' \in [Threads -> {"put", "get", "nothing"}]
        BY <1>3 DEF GetFront, Queue!GetBlocks, Queue!GetHead, Queue!GetNothing,
                    Queue!Block, Queue!Return
    <2>2. queue # <<>> => Tail(queue) \in Seq(Segments) /\ Len(Tail(queue)) = Len(queue) - 1
        OBVIOUS
    <2>3. queue' \in Seq(Segments) /\ Len(queue') <= Capacity
        <3>1. queue' = queue \/ (queue # <<>> /\ queue' = Tail(queue))
            BY <1>3 DEF GetFront, Queue!GetBlocks, Queue!GetHead, Queue!GetNothing
        <3>2. CASE queue' = queue
            BY <3>2
        <3>3. CASE queue # <<>> /\ queue' = Tail(queue)
            <4>1. Len(queue) \in Nat /\ Capacity \in Nat
                BY SessionAssumption
            <4>2. Len(Tail(queue)) <= Capacity
                BY <2>2, <3>3, <4>1
            <4> QED
                BY <2>2, <3>3, <4>2
        <3> QED
            BY <3>1, <3>2, <3>3
    <2>4. UNCHANGED <<accepted, closed>>
        BY <1>3 DEF GetFront, Queue!GetBlocks, Queue!GetHead, Queue!GetNothing
    <2>5. QED
        BY <2>1, <2>3, <2>4
<1>4. CASE SetEOSAtEnd \/ CloseQueue
    BY <1>4 DEF SetEOSAtEnd, CloseQueue, SetEOS, Queue!Close
<1>5. CASE Clear
    BY <1>5 DEF Clear
<1>6. QED
    BY <1>1, <1>2, <1>3, <1>4, <1>5, QueueSteps

LEMMA ReceiverTypeStep == TypeOK /\ Numbering /\ [Next]_vars => ReceiverType'
<1> SUFFICES ASSUME QueueType, ReceiverType, Numbering, [Next]_vars PROVE ReceiverType'
    BY TypeParts
<1> USE DEF ReceiverType
<1>1. CASE UNCHANGED receiverVars
    BY <1>1
<1>2. Queued \subseteq started
    <2>1. ASSUME NEW i \in 1..Len(queue) PROVE queue[i] \in 1..accepted
        BY <2>1 DEF Numbering, Front, QueueType
    <2>2. QED
        BY <2>1 DEF Queued, Numbering
<1>3. CASE SetEOSAtEnd \/ CloseQueue
    BY <1>2, <1>3 DEF SetEOSAtEnd, CloseQueue, SetEOS
<1>4. CASE GetNextSegment
    BY <1>4, Distinct DEF GetNextSegment
<1>5. CASE StartDownload
    <2>1. segmentNumber \in Segments
        BY <1>5 DEF StartDownload, Numbering, QueueType, Segments
    <2>2. QED
        BY <1>5, <2>1 DEF StartDownload
<1>6. ASSUME NEW n \in Segments, DownloadEnds(n) PROVE ReceiverType'
    BY <1>6 DEF DownloadEnds
<1>7. CASE StartReceiver \/ StopReceiver
    BY <1>7 DEF StartReceiver, StopReceiver
<1>8. ASSUME NEW t \in Decoding, CreateAVDecoder(t) \/ StartDecoderFails(t) PROVE UNCHANGED receiverVars
    BY <1>8 DEF CreateAVDecoder, GetFront, NewDecoder, CreateDecoderThread, SetRun,
                StartDecoderFails
<1>9. ASSUME NEW n \in Segments, Decode(n) \/ DecodeFails(n) PROVE UNCHANGED receiverVars
    BY <1>9 DEF Decode, LeaveLoop, Flush, OnDecodingFinished, DecodeFails
<1>10. CASE SetRunning \/ StartReceiverFails \/ StopUnstarted \/ StopRunning \/ JoinBuffering
            \/ StopDecoder \/ JoinDecoder \/ Clear
    BY <1>1, <1>10 DEF SetRunning, StartReceiverFails, StopUnstarted, StopRunning, JoinBuffering,
                       StopDecoder, JoinDecoder, Clear
<1>11. CASE DownloadInitSegment \/ PushBack \/ WaitFinished
    BY <1>1, <1>11 DEF DownloadInitSegment, PushBack, WaitFinished
<1>12. QED
    BY <1>1, <1>3, <1>4, <1>5, <1>6, <1>7, <1>8, <1>9, <1>10, <1>11
    DEF Next, Start, Stop, FinishStop, DoBuffering

LEMMA PlaceTypeStep == TypeOK /\ [Next]_vars => PlaceType'
<1> SUFFICES ASSUME PlaceType, [Next]_vars PROVE PlaceType'
    BY TypeParts
<1> USE DEF PlaceType, Places
<1>1. CASE UNCHANGED vars
    BY <1>1
<1>2. CASE DoBuffering
    BY <1>2 DEF DoBuffering, GetNextSegment, DownloadInitSegment, StartDownload, PushBack,
                WaitFinished, SetEOSAtEnd
<1>3. ASSUME NEW n \in Segments, DownloadEnds(n) \/ Decode(n) \/ DecodeFails(n) PROVE PlaceType'
    BY <1>3 DEF DownloadEnds, Decode, LeaveLoop, Flush, OnDecodingFinished, DecodeFails
<1>4. ASSUME NEW t \in Decoding, CreateAVDecoder(t) \/ StartDecoderFails(t) PROVE PlaceType'
    BY <1>4 DEF CreateAVDecoder, GetFront, NewDecoder, CreateDecoderThread, SetRun,
                StartDecoderFails, CreateFails
<1>5. CASE Start \/ StartReceiverFails
    BY <1>5 DEF Start, StartReceiver, SetRunning, StartReceiverFails
<1>6. CASE Stop
    BY <1>6 DEF Stop, StopUnstarted, StopRunning, FinishStop, StopReceiver, CloseQueue,
                JoinBuffering, StopDecoder, JoinDecoder, Clear
<1>7. QED
    BY <1>1, <1>2, <1>3, <1>4, <1>5, <1>6 DEF Next

LEMMA DecoderTypeStep ==
    TypeOK /\ PlacesOK /\ Chain /\ Known /\ [Next]_vars => DecoderType'
<1> SUFFICES ASSUME QueueType, DecoderType, PlaceType, PlacesOK, Chain, Known, [Next]_vars
             PROVE  DecoderType'
    BY TypeParts
<1> USE Distinct DEF DecoderType
<1>1. CASE UNCHANGED vars
    BY <1>1
<1>2. CASE DoBuffering
    BY <1>2 DEF DoBuffering, GetNextSegment, DownloadInitSegment, StartDownload, PushBack,
                WaitFinished, SetEOSAtEnd, SetEOS
<1>3. ASSUME NEW n \in Segments, DownloadEnds(n) PROVE DecoderType'
    BY <1>3 DEF DownloadEnds
<1>4. ASSUME NEW n \in Segments, LeaveLoop(n) \/ OnDecodingFinished(n) \/ DecodeFails(n)
      PROVE  DecoderType'
    <2>1. early' \in BOOLEAN
        BY <1>4 DEF LeaveLoop, OnDecodingFinished, DecodeFails, ReadsRun
    <2>2. QED
        BY <1>4, <2>1 DEF LeaveLoop, OnDecodingFinished, DecodeFails
<1>5. ASSUME NEW n \in Segments, Flush(n) PROVE DecoderType'
    <2>1. early' \in BOOLEAN
        BY <1>5 DEF Flush, ReadsRun
    <2>2. n \in threadHandle
        BY <1>5 DEF Flush, PlacesOK
    <2>3. QED
        BY <1>5, <2>1, <2>2 DEF Flush
<1>6. ASSUME NEW t \in Decoding, GetFront(t) PROVE DecoderType'
    <2>1. taken' \in [Decoding -> Segments \cup {NoDecoder}]
        <3>1. queue # <<>> => Head(queue) \in Segments
            BY DEF QueueType
        <3>2. QED
            BY <1>6, <3>1 DEF GetFront, Queue!GetHead
    <2>2. QED
        BY <1>6, <2>1 DEF GetFront
<1>7. ASSUME NEW t \in Decoding, NewDecoder(t) \/ SetRun(t) \/ StartDecoderFails(t)
      PROVE  DecoderType'
    BY <1>7 DEF NewDecoder, SetRun, StartDecoderFails
<1>8. ASSUME NEW t \in Decoding, CreateDecoderThread(t) PROVE DecoderType'
    <2>1. taken[t] \in Segments
        BY <1>8 DEF CreateDecoderThread, Chain, Active, ActivePlaces
    <2>2. QED
        BY <1>8, <2>1 DEF CreateDecoderThread
<1>9. CASE Start \/ StartReceiverFails
    BY <1>9 DEF Start, StartReceiver, SetRunning, StartReceiverFails
<1>10. CASE StopUnstarted \/ StopRunning \/ StopReceiver \/ CloseQueue \/ JoinBuffering
            \/ JoinDecoder \/ Clear
    BY <1>10 DEF StopUnstarted, StopRunning, StopReceiver, CloseQueue, JoinBuffering,
                 JoinDecoder, Clear, SetEOS
<1>11. CASE StopDecoder
    BY <1>11 DEF StopDecoder
<1>12. QED
    BY <1>1, <1>2, <1>3, <1>4, <1>5, <1>6, <1>7, <1>8, <1>9, <1>10, <1>11
    DEF Next, Stop, FinishStop, Decode, CreateAVDecoder

LEMMA TypeStep == TypeOK /\ PlacesOK /\ Numbering /\ Chain /\ Known /\ [Next]_vars => TypeOK'
<1> SUFFICES ASSUME TypeOK, PlacesOK, Numbering, Chain, Known, [Next]_vars PROVE TypeOK'
    OBVIOUS
<1>1. QueueType' /\ ReceiverType' /\ DecoderType' /\ PlaceType'
    BY QueueTypeStep, ReceiverTypeStep, DecoderTypeStep, PlaceTypeStep
<1>2. QED
    BY <1>1 DEF TypeOK, QueueType, ReceiverType, DecoderType, PlaceType

-----------------------------------------------------------------------------
(* Where the threads can be *)

LEMMA PlacesStep ==
    TypeOK /\ PlacesOK /\ Numbering /\ Chain /\ Known /\ [Next]_vars => PlacesOK'
<1> SUFFICES ASSUME PlaceType, DecoderType, PlacesOK, Numbering, Chain, Known, [Next]_vars
             PROVE  PlacesOK'
    BY TypeParts
<1> USE Distinct DEF PlaceType, PlacesOK, StopPlaces, ActivePlaces
<1>1. CASE UNCHANGED vars
    BY <1>1
<1>2. CASE DoBuffering
    <2>1. /\ UNCHANGED threadHandle
          /\ \A t \in Decoding : pc'[t] = pc[t]
          /\ pc[Buffering] \notin {"none", "done"}
          /\ pc'[Buffering] \in {"init", "next", "check", "push", "wait", "setEOS", "done"}
        BY <1>2 DEF DoBuffering, GetNextSegment, DownloadInitSegment, StartDownload, PushBack,
                    WaitFinished, SetEOSAtEnd, SetEOS
    <2>2. QED
        BY <2>1
<1>3. ASSUME NEW n \in Segments, DownloadEnds(n) PROVE PlacesOK'
    BY <1>3 DEF DownloadEnds
<1>4. ASSUME NEW n \in Segments, Decode(n) \/ DecodeFails(n) PROVE PlacesOK'
    BY <1>4 DEF Decode, LeaveLoop, Flush, OnDecodingFinished, DecodeFails
<1>5. ASSUME NEW t \in Decoding, GetFront(t) PROVE PlacesOK'
    <2>1. /\ UNCHANGED <<accepted, threadHandle>> /\ (queue = <<>> => queue' = <<>>)
          /\ pc' = pc \/ pc' = [pc EXCEPT ![t] = "new"]
                      \/ pc' = [pc EXCEPT ![t] = IF t = Gui THEN "started" ELSE "done"]
          /\ pc[t] = "getFront"
        BY <1>5 DEF GetFront, CreateFails, Queue!GetBlocks, Queue!GetHead, Queue!GetNothing
    <2>2. QED
        BY <2>1
<1>6. ASSUME NEW t \in Decoding, NewDecoder(t) \/ SetRun(t) \/ StartDecoderFails(t)
      PROVE  PlacesOK'
    BY <1>6 DEF NewDecoder, SetRun, StartDecoderFails, CreateFails
<1>7. ASSUME NEW t \in Decoding, CreateDecoderThread(t) PROVE PlacesOK'
    <2>1. /\ pc[t] = "open" /\ threadHandle = 1..Number(t)
          /\ taken[t] \in Segments /\ taken[t] = Number(t) + 1
        BY <1>7 DEF CreateDecoderThread, Chain, Active
    <2>2. taken[t] \notin threadHandle /\ taken[t] # t
        BY <2>1 DEF Number, Segments
    <2>3. /\ pc' = [pc EXCEPT ![t] = "setRun", ![taken[t]] = "decode"]
          /\ threadHandle' = threadHandle \cup {taken[t]}
          /\ UNCHANGED queueVars
        BY <1>7 DEF CreateDecoderThread
    <2>4. /\ pc'[taken[t]] = "decode" /\ pc'[t] = "setRun"
          /\ \A u \in Threads : u # t /\ u # taken[t] => pc'[u] = pc[u]
        BY <2>1, <2>2, <2>3
    <2>5. pc'[Buffering] = pc[Buffering] /\ pc'[Gui] \in {pc[Gui], "setRun"}
        BY <2>1, <2>4
    <2>6. \A n \in Segments : /\ pc'[n] \in {pc[n], "setRun", "decode"}
                              /\ pc'[n] = "none" <=> n \notin threadHandle'
        BY <2>1, <2>2, <2>3, <2>4
    <2>7. pc[Gui] # "idle"
        BY <2>1
    <2>8. QED
        BY <2>3, <2>5, <2>6, <2>7
<1>8. CASE StartReceiver
    BY <1>8 DEF StartReceiver
<1>9. CASE SetRunning \/ StartReceiverFails
    BY <1>9 DEF SetRunning, StartReceiverFails
<1>10. CASE StopUnstarted \/ StopRunning \/ StopReceiver \/ CloseQueue \/ JoinBuffering
    BY <1>10 DEF StopUnstarted, StopRunning, StopReceiver, CloseQueue, JoinBuffering, SetEOS
<1>11. CASE StopDecoder \/ JoinDecoder \/ Clear
    BY <1>11 DEF StopDecoder, JoinDecoder, Clear
<1>12. QED
    BY <1>1, <1>2, <1>3, <1>4, <1>5, <1>6, <1>7, <1>8, <1>9, <1>10, <1>11
    DEF Next, Start, Stop, FinishStop, CreateAVDecoder

-----------------------------------------------------------------------------
(* How the segments are numbered *)

(* The queue keeps its numbering at a put, and loses the front at a get. *)
LEMMA QueueNumbers ==
    ASSUME QueueType, Numbering
    PROVE  /\ LET q == Append(queue, accepted + 1) IN
                 /\ Len(q) = Len(queue) + 1
                 /\ \A i \in 1..Len(q) : q[i] = Front + i
           /\ queue # <<>> =>
                 LET q == Tail(queue) IN
                 /\ Head(queue) = Front + 1
                 /\ Len(q) = Len(queue) - 1 /\ Len(queue) > 0
                 /\ \A i \in 1..Len(q) : q[i] = Front + 1 + i
<1> USE DEF QueueType, Numbering, Front
<1>1. queue \in Seq(Segments) /\ accepted \in Nat /\ Len(queue) \in Nat
    OBVIOUS
<1>2. /\ Len(Append(queue, accepted + 1)) = Len(queue) + 1
      /\ \A i \in 1..Len(queue) : Append(queue, accepted + 1)[i] = queue[i]
      /\ Append(queue, accepted + 1)[Len(queue) + 1] = accepted + 1
    BY <1>1
<1>3. ASSUME queue # <<>>
      PROVE  /\ Len(queue) > 0 /\ Head(queue) = queue[1]
             /\ Len(Tail(queue)) = Len(queue) - 1
             /\ \A i \in 1..Len(Tail(queue)) : Tail(queue)[i] = queue[i + 1]
    BY <1>1, <1>3
<1>4. ASSUME NEW i \in 1..Len(queue) + 1 PROVE Append(queue, accepted + 1)[i] = Front + i
    <2>1. CASE i \in 1..Len(queue)
        BY <1>2, <2>1
    <2>2. CASE i = Len(queue) + 1
        BY <1>1, <1>2, <2>2
    <2>3. QED
        BY <1>1, <2>1, <2>2
<1>5. ASSUME queue # <<>>, NEW i \in 1..Len(queue) - 1 PROVE Tail(queue)[i] = Front + 1 + i
    <2>1. i + 1 \in 1..Len(queue)
        BY <1>1
    <2>2. Tail(queue)[i] = queue[i + 1]
        BY <1>1, <1>3, <1>5
    <2>3. QED
        BY <1>1, <2>1, <2>2
<1>6. queue # <<>> => Head(queue) = Front + 1
    BY <1>1, <1>3
<1>7. QED
    BY <1>1, <1>2, <1>3, <1>4, <1>5, <1>6

LEMMA NumberingStep ==
    TypeOK /\ PlacesOK /\ Numbering /\ Chain /\ [Next]_vars => Numbering'
<1> SUFFICES ASSUME QueueType, ReceiverType, PlaceType, PlacesOK, Numbering, Chain, [Next]_vars
             PROVE  Numbering'
    BY TypeParts
<1>0. /\ accepted \in Nat /\ Len(queue) \in Nat /\ segmentNumber \in Nat
      /\ 1..accepted \subseteq started /\ started \subseteq 1..(accepted + 1)
    BY DEF QueueType, ReceiverType, Numbering
<1> USE Distinct DEF PlaceType
<1>1. ASSUME UNCHANGED <<queue, accepted, started, segmentNumber>>, ended \subseteq ended',
             pc'[Buffering] = pc[Buffering]
      PROVE  Numbering'
    BY <1>1 DEF Numbering, Front
<1>2. CASE UNCHANGED vars
    BY <1>1, <1>2
<1>3. CASE GetNextSegment \/ DownloadInitSegment \/ WaitFinished
    <2>1. /\ UNCHANGED <<queue, accepted, started, ended>>
          /\ \/ /\ pc[Buffering] = "next" /\ pc'[Buffering] = "check"
                /\ segmentNumber' = segmentNumber + 1
             \/ /\ pc[Buffering] = "next" /\ pc'[Buffering] = "setEOS"
                /\ segmentNumber' = segmentNumber
             \/ /\ pc[Buffering] = "init" /\ pc'[Buffering] = "next"
                /\ segmentNumber' = segmentNumber
             \/ /\ pc[Buffering] = "wait" /\ pc'[Buffering] = "next"
                /\ segmentNumber' = segmentNumber /\ segmentNumber \in ended
        BY <1>3 DEF GetNextSegment, DownloadInitSegment, WaitFinished
    <2>2. QED
        BY <1>0, <2>1 DEF Numbering, Front
<1>4. CASE StartDownload
    <2>1. /\ UNCHANGED <<queue, accepted, segmentNumber, ended>> /\ pc[Buffering] = "check"
          /\ \/ pc'[Buffering] = "push" /\ started' = started \cup {segmentNumber}
             \/ pc'[Buffering] = "setEOS" /\ started' = started
        BY <1>4 DEF StartDownload
    <2>2. segmentNumber = accepted + 1 /\ \A n \in 1..accepted : n \in ended
        BY <2>1 DEF Numbering
    <2>3. 1..accepted \subseteq started' /\ started' \subseteq 1..(accepted + 1)
        <3>1. accepted + 1 \in 1..(accepted + 1)
            BY <1>0
        <3>2. started' \in {started, started \cup {accepted + 1}}
            BY <2>1, <2>2
        <3>3. QED
            BY <1>0, <3>1, <3>2
    <2>4. Len(queue') <= accepted' /\ \A i \in 1..Len(queue') : queue'[i] = Front' + i
        BY <2>1 DEF Numbering, Front
    <2>5. QED
        BY <2>1, <2>2, <2>3, <2>4 DEF Numbering
<1>5. CASE PushBack
    <2>1. UNCHANGED <<segmentNumber, started, ended>> /\ pc[Buffering] = "push"
        BY <1>5 DEF PushBack
    <2>2. CASE /\ queue' = Append(queue, accepted + 1) /\ accepted' = accepted + 1
               /\ pc'[Buffering] = "wait"
        <3>1. Front' = Front
            BY <1>0, <2>2, QueueNumbers DEF Front
        <3>2. Len(queue') <= accepted' /\ \A i \in 1..Len(queue') : queue'[i] = Front' + i
            <4>1. /\ Len(queue') = Len(queue) + 1
                  /\ \A i \in 1..Len(queue') : queue'[i] = Front + i
                BY <2>2, QueueNumbers
            <4>2. QED
                BY <1>0, <2>2, <3>1, <4>1 DEF Numbering
        <3>3. 1..accepted' \subseteq started' /\ started' \subseteq 1..(accepted' + 1)
            BY <1>0, <2>1, <2>2 DEF Numbering
        <3>4. \A n \in 1..accepted' : n \in ended' \/ n = accepted'
            BY <1>0, <2>1, <2>2 DEF Numbering
        <3>5. segmentNumber' = accepted'
            BY <2>1, <2>2 DEF Numbering
        <3>6. QED
            BY <2>2, <3>2, <3>3, <3>4, <3>5 DEF Numbering
    <2>3. CASE UNCHANGED <<queue, accepted>> /\ pc'[Buffering] \in {"push", "done"}
        BY <1>0, <2>1, <2>3 DEF Numbering, Front
    <2>4. QED
        BY <1>5, <2>2, <2>3 DEF PushBack, Queue!PutBlocks, Queue!PutAccepted, Queue!PutRefused
<1>6. CASE SetEOSAtEnd
    <2>1. /\ UNCHANGED <<queue, accepted, started, segmentNumber>> /\ ended \subseteq ended'
          /\ pc[Buffering] = "setEOS" /\ pc'[Buffering] = "done"
        BY <1>6 DEF SetEOSAtEnd, SetEOS, Queue!Close
    <2>2. QED
        BY <2>1 DEF Numbering, Front
<1>7. ASSUME NEW n \in Segments, DownloadEnds(n) PROVE Numbering'
    BY <1>1, <1>7 DEF DownloadEnds
<1>8. ASSUME NEW n \in Segments, Decode(n) \/ DecodeFails(n) PROVE Numbering'
    BY <1>1, <1>8 DEF Decode, LeaveLoop, Flush, OnDecodingFinished, DecodeFails
<1>9. ASSUME NEW t \in Decoding, GetFront(t) PROVE Numbering'
    <2>1. UNCHANGED <<accepted, started, segmentNumber, ended>> /\ pc'[Buffering] = pc[Buffering]
        BY <1>9 DEF GetFront, CreateFails, Queue!GetBlocks, Queue!GetHead, Queue!GetNothing
    <2>2. CASE queue # <<>> /\ queue' = Tail(queue)
        <3>1. /\ Len(queue') = Len(queue) - 1
              /\ \A i \in 1..Len(queue') : queue'[i] = Front + 1 + i
            BY <2>2, QueueNumbers
        <3>2. Front' = Front + 1
            BY <1>0, <2>1, <3>1 DEF Front
        <3>3. Len(queue') <= accepted' /\ \A i \in 1..Len(queue') : queue'[i] = Front' + i
            BY <1>0, <2>1, <3>1, <3>2 DEF Numbering
        <3>4. QED
            BY <2>1, <3>3 DEF Numbering
    <2>3. CASE queue' = queue
        BY <1>1, <2>1, <2>3
    <2>4. QED
        BY <1>9, <2>2, <2>3 DEF GetFront, Queue!GetBlocks, Queue!GetHead, Queue!GetNothing
<1>10. ASSUME NEW t \in Decoding, NewDecoder(t) \/ SetRun(t) \/ StartDecoderFails(t)
       PROVE  Numbering'
    BY <1>1, <1>10 DEF NewDecoder, SetRun, StartDecoderFails, CreateFails
<1>11. ASSUME NEW t \in Decoding, CreateDecoderThread(t) PROVE Numbering'
    <2>1. pc[t] = "open" /\ taken[t] \in Segments
        BY <1>11 DEF CreateDecoderThread, Chain, Active, ActivePlaces
    <2>2. pc'[Buffering] = pc[Buffering]
        BY <1>11, <2>1 DEF CreateDecoderThread
    <2>3. QED
        BY <1>1, <1>11, <2>2 DEF CreateDecoderThread
<1>12. CASE StartReceiver
    <2>1. /\ UNCHANGED <<queue, accepted, started, ended, segmentNumber>>
          /\ pc[Buffering] = "none" /\ pc'[Buffering] = "init"
        BY <1>12 DEF StartReceiver, PlacesOK
    <2>2. QED
        BY <2>1 DEF Numbering, Front
<1>13. CASE SetRunning \/ StartReceiverFails \/ StopUnstarted \/ StopRunning \/ StopReceiver
            \/ JoinBuffering \/ StopDecoder \/ JoinDecoder
    BY <1>1, <1>13 DEF SetRunning, StartReceiverFails, StopUnstarted, StopRunning, StopReceiver,
                       JoinBuffering, StopDecoder, JoinDecoder
<1>14. CASE CloseQueue
    BY <1>1, <1>14 DEF CloseQueue, SetEOS, Queue!Close
<1>15. CASE Clear
    <2>1. /\ UNCHANGED <<accepted, started, ended, segmentNumber>> /\ queue' = <<>>
          /\ pc'[Buffering] = pc[Buffering]
        BY <1>15 DEF Clear
    <2>2. Len(queue') = 0
        BY <2>1
    <2>3. QED
        BY <1>0, <2>1, <2>2 DEF Numbering
<1>16. QED
    BY <1>2, <1>3, <1>4, <1>5, <1>6, <1>7, <1>8, <1>9, <1>10, <1>11, <1>12, <1>13, <1>14, <1>15
    DEF Next, Start, Stop, FinishStop, DoBuffering, CreateAVDecoder

-----------------------------------------------------------------------------
(* The chain of decoders *)

(* A put does not move the front. *)
LEMMA FrontAtPut == ASSUME TypeOK, PushBack PROVE Front' = Front
<1>1. queue \in Seq(Segments) /\ accepted \in Nat
    BY Distinct DEF TypeOK
<1>2. Len(Append(queue, accepted + 1)) = Len(queue) + 1 /\ Len(queue) \in Nat
    BY <1>1
<1>3. \/ UNCHANGED <<queue, accepted>>
      \/ queue' = Append(queue, accepted + 1) /\ accepted' = accepted + 1
    BY DEF PushBack, Queue!PutBlocks, Queue!PutAccepted, Queue!PutRefused
<1>4. QED
    BY <1>1, <1>2, <1>3 DEF Front

(* Steps at which the chain does not grow. *)
LEMMA ChainFrame ==
    ASSUME Chain, UNCHANGED threadHandle,
           \A t \in Decoding : Active(t)' =>
              /\ Active(t)
              /\ pc'[t] \in {"new", "open"} <=> pc[t] \in {"new", "open"}
              /\ taken'[t] = taken[t],
           pc'[Gui] # "stopped" => pc[Gui] # "stopped" /\ Front' = Front
    PROVE  Chain'
    BY DEF Chain

LEMMA ChainStep ==
    TypeOK /\ PlacesOK /\ Numbering /\ Chain /\ [Next]_vars => Chain'
<1> SUFFICES ASSUME TypeOK, PlacesOK, Numbering, Chain, [Next]_vars PROVE Chain'
    OBVIOUS
<1>0. PlaceType /\ QueueType /\ DecoderType
    BY TypeParts
<1> USE Distinct DEF PlaceType, Active, ActivePlaces
<1>1. CASE UNCHANGED vars
    BY <1>1, ChainFrame DEF Front
<1>2. CASE DoBuffering
    <2>1. /\ UNCHANGED <<threadHandle, taken>>
          /\ \A t \in Decoding : pc'[t] = pc[t]
        BY <1>0, <1>2 DEF DoBuffering, GetNextSegment, DownloadInitSegment, StartDownload, PushBack,
                    WaitFinished, SetEOSAtEnd, SetEOS
    <2>2. PushBack \/ UNCHANGED <<queue, accepted>>
        BY <1>2 DEF DoBuffering, GetNextSegment, DownloadInitSegment, StartDownload,
                    WaitFinished, SetEOSAtEnd, SetEOS, Queue!Close
    <2>3. Front' = Front
        BY <2>2, FrontAtPut DEF Front
    <2>4. QED
        BY <2>1, <2>3, ChainFrame
<1>3. ASSUME NEW n \in Segments, DownloadEnds(n) PROVE Chain'
    BY <1>3, ChainFrame DEF DownloadEnds, Front
<1>4. ASSUME NEW n \in Segments, Decode(n) \/ DecodeFails(n) PROVE Chain'
    <2>1. /\ UNCHANGED <<threadHandle, taken, queue, accepted>>
          /\ pc[n] \in {"decode", "decoded", "notify"}
          /\ pc'[n] \in {"decoded", "notify", "getFront", "done"}
          /\ \A u \in Decoding : u # n => pc'[u] = pc[u]
        BY <1>0, <1>4 DEF Decode, LeaveLoop, Flush, OnDecodingFinished, DecodeFails
    <2>2. QED
        BY <2>1, ChainFrame DEF Front
<1>5. ASSUME NEW t \in Decoding, GetFront(t) PROVE Chain'
    <2>1. /\ pc[t] = "getFront" /\ UNCHANGED <<threadHandle, accepted>>
        BY <1>5 DEF GetFront, Queue!GetBlocks, Queue!GetHead, Queue!GetNothing
    <2>2. CASE /\ queue # <<>> /\ queue' = Tail(queue)
               /\ taken' = [taken EXCEPT ![t] = Head(queue)] /\ pc' = [pc EXCEPT ![t] = "new"]
        <3>1. pc[Gui] # "stopped" /\ Active(t)
            BY <2>1, <2>2 DEF PlacesOK
        <3>2. Front = Number(t) /\ threadHandle = 1..Number(t)
            BY <2>1, <3>1 DEF Chain
        <3>3. /\ Head(queue) = Front + 1 /\ Len(queue') = Len(queue) - 1
              /\ Head(queue) \in Segments
            BY <1>0, <2>2, QueueNumbers DEF QueueType
        <3>4. Front' = Front + 1
            BY <1>0, <2>1, <3>3 DEF Front, QueueType
        <3>5. /\ pc'[t] = "new" /\ taken'[t] = Number(t) + 1 /\ taken'[t] \in Segments
              /\ \A u \in Decoding : u # t => ~Active(u)'
            BY <1>0, <2>1, <2>2, <3>1, <3>2, <3>3 DEF Chain, DecoderType
        <3>6. ASSUME NEW u \in Decoding, Active(u)'
              PROVE  /\ u = t /\ threadHandle' = 1..Number(u)
                     /\ pc'[u] \in {"new", "open"}
                     /\ taken'[u] = Number(u) + 1 /\ taken'[u] \in Segments
                     /\ Front' = Number(u) + 1
            BY <2>1, <3>2, <3>4, <3>5, <3>6
        <3>7. \A n \in threadHandle' : 1..n \subseteq threadHandle'
            BY <2>1 DEF Chain
        <3>8. QED
            BY <3>6, <3>7 DEF Chain
    <2>3. CASE /\ UNCHANGED <<queue, taken>>
               /\ pc' = pc \/ pc' = [pc EXCEPT ![t] = IF t = Gui THEN "started" ELSE "done"]
        BY <1>0, <2>1, <2>3, ChainFrame DEF Front
    <2>4. QED
        BY <1>5, <2>2, <2>3
        DEF GetFront, CreateFails, Queue!GetBlocks, Queue!GetHead, Queue!GetNothing
<1>6. ASSUME NEW t \in Decoding, NewDecoder(t) \/ SetRun(t) \/ StartDecoderFails(t)
      PROVE  Chain'
    <2>1. /\ UNCHANGED <<threadHandle, taken, queue, accepted>>
          /\ pc[t] \in {"new", "open", "setRun"}
          /\ \/ pc[t] = "new" /\ pc'[t] = "open"
             \/ pc'[t] \in {"started", "done", "setRunning"}
          /\ \A u \in Decoding : u # t => pc'[u] = pc[u]
        BY <1>0, <1>6 DEF NewDecoder, SetRun, StartDecoderFails, CreateFails
    <2>2. QED
        BY <2>1, ChainFrame DEF Front
<1>7. ASSUME NEW t \in Decoding, CreateDecoderThread(t) PROVE Chain'
    <2>1. /\ pc[t] = "open" /\ threadHandle = 1..Number(t)
          /\ taken[t] \in Segments /\ taken[t] = Number(t) + 1
          /\ pc[Gui] # "stopped" => Front = Number(t) + 1
        BY <1>7 DEF CreateDecoderThread, Chain
    <2>2. taken[t] # t /\ Number(taken[t]) = taken[t] /\ Number(t) \in Nat
        BY <2>1 DEF Number, Segments
    <2>3. /\ pc' = [pc EXCEPT ![t] = "setRun", ![taken[t]] = "decode"]
          /\ threadHandle' = threadHandle \cup {taken[t]}
          /\ UNCHANGED <<queueVars, taken>>
        BY <1>7 DEF CreateDecoderThread
    <2>4. /\ pc'[taken[t]] = "decode" /\ pc'[t] = "setRun"
          /\ \A u \in Threads : u # t /\ u # taken[t] => pc'[u] = pc[u]
        BY <1>0, <2>1, <2>2, <2>3
    <2>5. \A u \in Decoding : Active(u)' => u = taken[t]
        BY <2>1, <2>4 DEF Chain
    <2>6. threadHandle' = 1..taken[t]
        BY <2>1, <2>2, <2>3
    <2>7. pc'[Gui] # "stopped" => pc[Gui] # "stopped"
        BY <2>1, <2>4
    <2>8. taken[t] \in Nat /\ \A n \in 1..taken[t] : 1..n \subseteq 1..taken[t]
        BY <2>1 DEF Segments
    <2>9. ASSUME NEW u \in Decoding, Active(u)'
          PROVE  /\ u = taken[t] /\ threadHandle' = 1..Number(u)
                 /\ pc'[u] \notin {"new", "open"}
                 /\ pc'[Gui] # "stopped" => Front' = Number(u)
        BY <2>1, <2>2, <2>3, <2>4, <2>5, <2>6, <2>7, <2>9 DEF Front
    <2>10. QED
        BY <2>6, <2>8, <2>9 DEF Chain
<1>8. CASE StartReceiver
    <2>1. /\ pc[Gui] = "idle" /\ pc' = [pc EXCEPT ![Gui] = "getFront", ![Buffering] = "init"]
          /\ UNCHANGED <<queueVars, threadHandle>>
        BY <1>8 DEF StartReceiver
    <2>2. threadHandle = {} /\ accepted = 0 /\ Len(queue) = 0
        BY <1>0, <2>1 DEF PlacesOK, Numbering, QueueType
    <2>3. \A u \in Decoding : Active(u)' => u = Gui
        BY <1>0, <2>1, <2>2 DEF PlacesOK
    <2>4. pc'[Gui] = "getFront" /\ threadHandle' = 1..Number(Gui) /\ Front' = 0
        BY <1>0, <2>1, <2>2 DEF Number, Front
    <2>5. QED
        BY <2>1, <2>2, <2>3, <2>4 DEF Chain, Number
<1>9. CASE SetRunning \/ StartReceiverFails \/ StopUnstarted \/ StopRunning \/ StopReceiver
           \/ CloseQueue \/ JoinBuffering \/ JoinDecoder
    <2>1. /\ UNCHANGED <<threadHandle, taken, queue, accepted>>
          /\ pc'[Gui] \notin ActivePlaces /\ pc[Gui] # "stopped"
          /\ \A u \in Decoding : u # Gui => pc'[u] = pc[u]
        BY <1>0, <1>9 DEF SetRunning, StartReceiverFails, StopUnstarted, StopRunning, StopReceiver,
                       CloseQueue, JoinBuffering, JoinDecoder, SetEOS, Queue!Close
    <2>2. QED
        BY <2>1, ChainFrame DEF Front
<1>10. CASE StopDecoder \/ Clear
    <2>1. /\ UNCHANGED <<threadHandle, accepted>>
          /\ pc'[Gui] \notin ActivePlaces /\ pc[Gui] # "stopped"
          /\ \A u \in Decoding : u # Gui => pc'[u] = pc[u] /\ taken'[u] = taken[u]
          /\ pc'[Gui] # "stopped" => queue' = queue
        BY <1>0, <1>10 DEF StopDecoder, Clear, DecoderType
    <2>2. QED
        BY <2>1, ChainFrame DEF Front
<1>11. QED
    BY <1>1, <1>2, <1>3, <1>4, <1>5, <1>6, <1>7, <1>8, <1>9, <1>10
    DEF Next, Start, Stop, FinishStop, CreateAVDecoder

-----------------------------------------------------------------------------
(* Who knows the front, and how far the downloads are ahead of it *)

LEMMA KnownStep ==
    TypeOK /\ PlacesOK /\ Numbering /\ Chain /\ Known /\ [Next]_vars => Known'
<1> SUFFICES ASSUME TypeOK, PlacesOK, Numbering, Chain, Known, [Next]_vars PROVE Known'
    OBVIOUS
<1>0. PlaceType /\ QueueType /\ DecoderType
    BY TypeParts
<1> USE Distinct DEF PlaceType, StopPlaces
<1>1. ASSUME UNCHANGED <<taken, isRunning, mediaObjectDecoder>>,
             pc'[Gui] = pc[Gui], Front' = Front, pc'[Buffering] # "done" => pc[Buffering] # "done"
      PROVE  Known'
    BY <1>1 DEF Known
<1>2. CASE UNCHANGED vars
    BY <1>1, <1>2 DEF Front
<1>3. CASE DoBuffering
    <2>1. /\ UNCHANGED <<taken, isRunning, mediaObjectDecoder>> /\ pc'[Gui] = pc[Gui]
          /\ pc[Buffering] # "done"
        BY <1>0, <1>3 DEF DoBuffering, GetNextSegment, DownloadInitSegment, StartDownload,
                PushBack, WaitFinished, SetEOSAtEnd, SetEOS
    <2>2. PushBack \/ UNCHANGED <<queue, accepted>>
        BY <1>3 DEF DoBuffering, GetNextSegment, DownloadInitSegment, StartDownload,
                    WaitFinished, SetEOSAtEnd, SetEOS, Queue!Close
    <2>3. Front' = Front
        BY <2>2, FrontAtPut DEF Front
    <2>4. QED
        BY <1>1, <2>1, <2>3
<1>4. ASSUME NEW n \in Segments, DownloadEnds(n) \/ Decode(n) \/ DecodeFails(n) PROVE Known'
    BY <1>0, <1>1, <1>4 DEF DownloadEnds, Decode, LeaveLoop, Flush, OnDecodingFinished,
                            DecodeFails, Front
<1>5. ASSUME NEW t \in Decoding, GetFront(t) PROVE Known'
    <2>1. /\ pc[t] = "getFront"
          /\ UNCHANGED <<isRunning, mediaObjectDecoder, accepted>>
          /\ pc'[Gui] = pc[Gui] \/ (pc[Gui] = "getFront" /\ pc'[Gui] \in {"new", "started"})
          /\ pc'[Buffering] = pc[Buffering]
        BY <1>0, <1>5 DEF GetFront, CreateFails, Queue!GetBlocks, Queue!GetHead, Queue!GetNothing
    <2>2. isRunning' \/ pc'[Gui] \in {"open", "setRun", "setRunning", "stopReceiver",
                                      "closeQueue", "joinBuffering", "stopDecoder"}
            => mediaObjectDecoder' # NoDecoder
        BY <2>1 DEF Known
    <2>3. CASE queue # <<>> /\ queue' = Tail(queue) /\ taken' = [taken EXCEPT ![t] = Head(queue)]
        <3>1. Active(t) /\ pc[Gui] # "stopped"
            BY <2>1, <2>3 DEF Active, ActivePlaces, PlacesOK
        <3>2. Front = Number(t)
            BY <2>1, <3>1 DEF Chain
        <3>3. /\ Head(queue) = Front + 1 /\ Len(queue') = Len(queue) - 1
              /\ Head(queue) \in Segments
            BY <1>0, <2>3, QueueNumbers DEF QueueType
        <3>4. Front' = Front + 1
            BY <1>0, <2>1, <3>3 DEF Front, QueueType
        <3>5. taken'[t] = Front' /\ taken'[t] = Number(t) + 1
            BY <1>0, <2>3, <3>2, <3>3, <3>4 DEF DecoderType
        <3>6. \A u \in Decoding : u # t => taken'[u] = taken[u]
            BY <1>0, <2>3 DEF DecoderType
        <3>7. \A u \in Decoding : \/ taken'[u] \in {NoDecoder, Number(u) + 1}
                                  \/ u = Gui /\ pc'[Gui] \in {"joinDecoder", "clear", "stopped"}
            BY <2>1, <3>5, <3>6 DEF Known
        <3>8. QED
            BY <2>2, <3>5, <3>7 DEF Known
    <2>4. CASE UNCHANGED <<queue, taken>>
        BY <2>1, <2>2, <2>4 DEF Known, Front
    <2>5. QED
        BY <1>5, <2>3, <2>4 DEF GetFront, Queue!GetBlocks, Queue!GetHead, Queue!GetNothing
<1>6. ASSUME NEW t \in Decoding, NewDecoder(t) PROVE Known'
    <2>1. taken[t] # NoDecoder
        BY <1>6 DEF NewDecoder, Chain, Active, ActivePlaces
    <2>2. /\ mediaObjectDecoder' = taken[t]
          /\ UNCHANGED <<queue, accepted, taken>>
          /\ pc'[Gui] = pc[Gui] \/ (pc'[Gui] = "open" /\ pc[Gui] = "new")
          /\ pc'[Buffering] = pc[Buffering]
        BY <1>0, <1>6 DEF NewDecoder
    <2>3. QED
        BY <2>1, <2>2 DEF Known, Front
<1>7. ASSUME NEW t \in Decoding, CreateDecoderThread(t) \/ SetRun(t) \/ StartDecoderFails(t)
      PROVE  Known'
    <2>1. pc[t] = "open" => taken[t] \in Segments
        BY <1>7 DEF Chain, Active, ActivePlaces
    <2>2. /\ UNCHANGED <<mediaObjectDecoder, isRunning, queue, accepted, taken>>
          /\ \/ pc'[Gui] = pc[Gui]
             \/ (pc[Gui] \in {"open", "setRun"} /\ pc'[Gui] \in {"setRun", "setRunning", "started"})
          /\ pc'[Buffering] = pc[Buffering]
        BY <1>0, <1>7, <2>1 DEF CreateDecoderThread, SetRun, StartDecoderFails, CreateFails
    <2>3. QED
        BY <2>2 DEF Known, Front
<1>8. CASE StartReceiver
    <2>1. Front = 0
        BY <1>0, <1>8 DEF StartReceiver, PlacesOK, Numbering, Front, QueueType
    <2>2. /\ UNCHANGED <<mediaObjectDecoder, isRunning, queue, accepted, taken>>
          /\ pc'[Gui] = "getFront" /\ pc[Gui] = "idle"
        BY <1>0, <1>8 DEF StartReceiver
    <2>3. QED
        BY <2>1, <2>2 DEF Known, Front
<1>9. CASE SetRunning \/ StartReceiverFails \/ StopUnstarted \/ StopRunning \/ StopReceiver
           \/ CloseQueue \/ JoinBuffering
    <2>1. /\ UNCHANGED <<mediaObjectDecoder, queue, accepted, taken>>
          /\ pc'[Buffering] = pc[Buffering]
          /\ pc[Gui] \notin StopPlaces
          /\ pc'[Gui] \notin {"open", "setRun", "setRunning"}
          /\ \/ pc'[Gui] \in {"started", "notStopped"} /\ isRunning' = isRunning
             \/ pc[Gui] = "setRunning"
             \/ isRunning
             \/ /\ pc[Gui] \in {"stopReceiver", "closeQueue", "joinBuffering"}
                /\ isRunning' = isRunning
        BY <1>0, <1>9 DEF SetRunning, StartReceiverFails, StopUnstarted, StopRunning, StopReceiver,
                       CloseQueue, JoinBuffering, SetEOS, Queue!Close
    <2>2. QED
        BY <2>1 DEF Known, Front
<1>10. CASE StopDecoder \/ JoinDecoder \/ Clear
    <2>1. /\ UNCHANGED <<mediaObjectDecoder, isRunning>>
          /\ pc[Buffering] = "done" /\ pc'[Buffering] = "done"
          /\ pc[Gui] \in StopPlaces /\ pc'[Gui] \in {"joinDecoder", "clear", "stopped"}
          /\ \A u \in Decoding : u # Gui => taken'[u] = taken[u]
        BY <1>0, <1>10 DEF StopDecoder, JoinDecoder, Clear, PlacesOK, DecoderType
    <2>2. QED
        BY <2>1 DEF Known
<1>11. QED
    BY <1>2, <1>3, <1>4, <1>5, <1>6, <1>7, <1>8, <1>9, <1>10
    DEF Next, Start, Stop, FinishStop, CreateAVDecoder

LEMMA BoundedStep ==
    TypeOK /\ PlacesOK /\ Numbering /\ Chain /\ Known /\ BoundedAhead /\ [Next]_vars
        => BoundedAhead'
<1> SUFFICES ASSUME TypeOK, PlacesOK, Numbering, Chain, Known, BoundedAhead, [Next]_vars
             PROVE  BoundedAhead'
    OBVIOUS
<1>0. PlaceType /\ QueueType /\ DecoderType /\ ReceiverType
    BY TypeParts
<1> USE Distinct DEF PlaceType
<1>1. CASE UNCHANGED <<started, taken>>
    BY <1>1 DEF BoundedAhead
<1>2. CASE StartDownload
    <2>1. /\ pc[Buffering] = "check" /\ UNCHANGED taken
          /\ started' \subseteq started \cup {segmentNumber} /\ segmentNumber = accepted + 1
        BY <1>2 DEF StartDownload, Numbering
    <2>2. segmentNumber = Front + Len(queue) + 1 /\ Len(queue) \in 0..Capacity
        BY <1>0, <2>1 DEF Front, QueueType
    <2>3. \/ segmentNumber <= Capacity + 1
          \/ \E t \in Decoding : taken[t] # NoDecoder /\ segmentNumber <= taken[t] + Capacity + 1
        <3>1. CASE Front = 0
            BY <2>2, <3>1
        <3>2. ASSUME Front # 0, NEW t \in Decoding, taken[t] = Front
              PROVE  taken[t] # NoDecoder /\ segmentNumber <= taken[t] + Capacity + 1
            <4>1. Front \in Segments
                BY <1>0, <2>1, <2>2, <3>2 DEF Front, Numbering, QueueType, Segments
            <4>2. QED
                BY <2>2, <3>2, <4>1 DEF Segments
        <3>3. QED
            BY <2>1, <3>1, <3>2 DEF Known
    <2>4. QED
        BY <2>1, <2>3 DEF BoundedAhead
<1>3. ASSUME NEW s \in Decoding, UNCHANGED started, taken'[s] \in Segments,
             taken[s] # NoDecoder => taken[s] <= taken'[s],
             \A u \in Decoding : u # s => taken'[u] = taken[u]
      PROVE  BoundedAhead'
    <2> SUFFICES ASSUME NEW n \in started', ~(n <= Capacity + 1)
                 PROVE  \E t \in Decoding : taken'[t] # NoDecoder /\ n <= taken'[t] + Capacity + 1
        BY DEF BoundedAhead
    <2>1. PICK t \in Decoding : taken[t] # NoDecoder /\ n <= taken[t] + Capacity + 1
        BY <1>3 DEF BoundedAhead
    <2>2. CASE t # s
        BY <1>3, <2>1, <2>2
    <2>3. CASE t = s
        <3>1. taken[s] \in Nat /\ taken'[s] \in Nat /\ n \in Nat
            BY <1>0, <1>3, <2>1, <2>3 DEF DecoderType, Segments, ReceiverType
        <3>2. taken'[s] # NoDecoder /\ n <= taken'[s] + Capacity + 1
            BY <1>3, <2>1, <2>3, <3>1
        <3>3. QED
            BY <3>2
    <2>4. QED
        BY <2>2, <2>3
<1>4. ASSUME NEW t \in Decoding, GetFront(t) PROVE BoundedAhead'
    <2>1. pc[t] = "getFront" /\ UNCHANGED started
        BY <1>4 DEF GetFront
    <2>2. CASE queue # <<>> /\ taken' = [taken EXCEPT ![t] = Head(queue)]
        <3>1. Active(t) /\ pc[Gui] # "stopped"
            BY <2>1, <2>2 DEF Active, ActivePlaces, PlacesOK
        <3>2. Front = Number(t) /\ Head(queue) = Front + 1 /\ Head(queue) \in Segments
            BY <1>0, <2>1, <2>2, <3>1, QueueNumbers DEF Chain, QueueType
        <3>3. taken'[t] = Number(t) + 1 /\ taken'[t] \in Segments
            BY <1>0, <2>2, <3>2 DEF DecoderType
        <3>4. taken[t] \in {NoDecoder, Number(t) + 1}
            BY <2>1 DEF Known
        <3>5. QED
            BY <1>0, <1>3, <2>1, <2>2, <3>3, <3>4 DEF DecoderType, Segments
    <2>3. QED
        BY <1>1, <1>4, <2>1, <2>2 DEF GetFront, Queue!GetHead
<1>5. CASE StopDecoder
    <2>1. taken' = [taken EXCEPT ![Gui] = mediaObjectDecoder] /\ UNCHANGED started
          /\ pc[Gui] = "stopDecoder"
        BY <1>5 DEF StopDecoder
    <2>2. mediaObjectDecoder \in Segments
        BY <1>0, <2>1 DEF Known, DecoderType
    <2>3. taken[Gui] # NoDecoder => taken[Gui] <= mediaObjectDecoder
        BY <2>1, <2>2 DEF Known, Number, Segments
    <2>4. QED
        BY <1>0, <1>3, <2>1, <2>2, <2>3 DEF DecoderType
<1>6. CASE GetNextSegment \/ DownloadInitSegment \/ PushBack \/ WaitFinished \/ SetEOSAtEnd
    BY <1>1, <1>6 DEF GetNextSegment, DownloadInitSegment, PushBack, WaitFinished, SetEOSAtEnd,
                      SetEOS
<1>7. ASSUME NEW n \in Segments, DownloadEnds(n) \/ Decode(n) \/ DecodeFails(n)
      PROVE  BoundedAhead'
    BY <1>1, <1>7 DEF DownloadEnds, Decode, LeaveLoop, Flush, OnDecodingFinished, DecodeFails
<1>8. ASSUME NEW t \in Decoding, NewDecoder(t) \/ SetRun(t) \/ StartDecoderFails(t)
                                 \/ CreateDecoderThread(t)
       PROVE  BoundedAhead'
    BY <1>1, <1>8 DEF NewDecoder, SetRun, StartDecoderFails, CreateDecoderThread
<1>9. CASE StartReceiver \/ SetRunning \/ StartReceiverFails \/ StopUnstarted \/ StopRunning
           \/ StopReceiver \/ CloseQueue \/ JoinBuffering \/ JoinDecoder \/ Clear
    BY <1>1, <1>9 DEF StartReceiver, SetRunning, StartReceiverFails, StopUnstarted, StopRunning,
                   StopReceiver, CloseQueue, JoinBuffering, JoinDecoder, Clear, SetEOS
<1>10. CASE UNCHANGED vars
    BY <1>1, <1>10
<1>11. QED
    BY <1>2, <1>4, <1>5, <1>6, <1>7, <1>8, <1>9, <1>10
    DEF Next, Start, Stop, FinishStop, DoBuffering, CreateAVDecoder

-----------------------------------------------------------------------------
(* The inductive invariant, and what it implies *)

LEMMA InitInvariant == Init => IInv
<1> SUFFICES ASSUME Init PROVE IInv
    OBVIOUS
<1> USE Distinct
<1>1. /\ pc \in [Threads -> Places] /\ pc[Gui] = "idle" /\ pc[Buffering] = "none"
      /\ \A n \in Segments : pc[n] = "none"
    BY DEF Init, Places
<1>2. /\ queue = <<>> /\ accepted = 0 /\ closed = FALSE /\ threadHandle = {}
      /\ segmentNumber = 0 /\ started = {} /\ ended = {}
      /\ \A t \in Decoding : taken[t] = NoDecoder
    BY DEF Init, Queue!Init
<1>3. queue \in Seq(Segments) /\ Len(queue) = 0 /\ 1..0 = {}
    BY <1>2
<1>4. accepted = 0 /\ closed \in BOOLEAN /\ segmentNumber = 0
    BY <1>2
<1>5. QueueType
    <2>1. blocked \in [Threads -> {"put", "get", "nothing"}]
        <3>1. blocked = [t \in {Buffering} \cup Decoding \cup {Gui} |-> "nothing"]
            BY DEF Init, Queue!Init, Queue!Callers
        <3>2. QED
            BY <3>1
    <2>2. accepted \in 0..SegmentCount /\ Len(queue) <= Capacity
        BY <1>3, <1>4
    <2>3. QED
        BY <1>3, <1>4, <2>1, <2>2 DEF QueueType
<1>6. ReceiverType
    <2>1. isBuffering \in BOOLEAN
        BY DEF Init
    <2>2. started \subseteq Segments /\ ended \subseteq started
        BY <1>2
    <2>3. segmentNumber \in 0..SegmentCount
        BY <1>4
    <2>4. QED
        BY <2>1, <2>2, <2>3 DEF ReceiverType
<1>7. DecoderType
    BY DEF Init, DecoderType
<1>8. TypeOK
    BY <1>1, <1>5, <1>6, <1>7, TypeParts DEF PlaceType
<1>9. PlacesOK
    BY <1>1, <1>2 DEF PlacesOK, StopPlaces
<1>10. Numbering
    BY <1>1, <1>2, <1>3 DEF Numbering
<1>11. Chain
    BY <1>1, <1>2 DEF Chain, Active, ActivePlaces
<1>12. Known
    <2>1. ~isRunning
        BY DEF Init
    <2>2. Front = 0
        BY <1>3, <1>4 DEF Front
    <2>3. QED
        BY <1>1, <1>2, <2>1, <2>2 DEF Known
<1>13. BoundedAhead
    BY <1>2 DEF BoundedAhead
<1>14. QED
    BY <1>8, <1>9, <1>10, <1>11, <1>12, <1>13 DEF IInv

LEMMA InductiveInvariant == Spec => []IInv
<1>1. IInv /\ [Next]_vars => IInv'
    BY TypeStep, PlacesStep, NumberingStep, ChainStep, KnownStep, BoundedStep DEF IInv
<1>2. QED
    BY InitInvariant, <1>1, PTL DEF Spec

(* Types: the queue never exceeds its capacity, no segment number is past   *)
(* the end, only downloads that were begun end, and only decoders whose     *)
(* thread was created decode to the end.                                    *)
THEOREM TypeCorrect == Spec => []TypeOK
<1>1. IInv => TypeOK
    BY DEF IInv
<1>2. QED
    BY <1>1, InductiveInvariant, PTL

(* The chain of MediaObjectDecoders, each created by its predecessor's own   *)
(* thread, skips no segment, and none decodes while an earlier one still may *)
(* add frames: the frames reach the frame buffer in the order of the stream. *)
THEOREM DecodedInOrderAlways == Spec => []DecodedInOrder
<1>1. IInv => DecodedInOrder
    <2> SUFFICES ASSUME IInv, NEW m \in threadHandle, NEW n \in threadHandle, m < n
                 PROVE  pc[m] \notin {"decode", "decoded", "notify"}
        BY DEF IInv, Chain, DecodedInOrder
    <2>1. m \in Segments /\ n \in Segments
        BY DEF IInv, TypeOK
    <2>2. Active(m) => n \in 1..m
        BY <2>1, Distinct DEF IInv, Chain, Number
    <2>3. QED
        BY <2>1, <2>2 DEF Active, ActivePlaces, Segments
<1>2. QED
    BY <1>1, InductiveInvariant, PTL

(* DoBuffering never starts a download more than the capacity of the segment *)
(* buffer, and the one segment that waits at it, ahead of the last segment a *)
(* decoder was created for.                                                  *)
THEOREM BoundedAheadAlways == Spec => []BoundedAhead
<1>1. IInv => BoundedAhead
    BY DEF IInv
<1>2. QED
    BY <1>1, InductiveInvariant, PTL

(* When DASHManager::Stop has returned, the segment buffer is empty, the     *)
(* buffering thread is gone, one decoder's thread at most is still at work,  *)
(* and the one download that may go on is of the segment that was refused.   *)
THEOREM StopLeavesLittleAlways == Spec => []StopLeavesLittle
<1>1. IInv => StopLeavesLittle
    <2> SUFFICES ASSUME IInv, pc[Gui] = "stopped"
                 PROVE  /\ queue = <<>> /\ pc[Buffering] = "done"
                        /\ \A m, n \in Live : pc[m] # "setRun" /\ pc[n] # "setRun" => m = n
                        /\ started \ ended \subseteq {accepted + 1}
        BY DEF StopLeavesLittle
    <2>1. queue = <<>> /\ pc[Buffering] = "done"
        BY DEF IInv, PlacesOK, StopPlaces
    <2>2. ASSUME NEW m \in Live, NEW n \in Live, pc[m] # "setRun", pc[n] # "setRun"
          PROVE  m = n
        <3>1. m \in threadHandle /\ n \in threadHandle /\ m \in Segments /\ n \in Segments
            BY DEF Live, IInv, TypeOK
        <3>2. pc[m] \in ActivePlaces /\ pc[n] \in ActivePlaces
            BY <2>2, <3>1 DEF Live, IInv, PlacesOK
        <3>3. \A s, t \in Decoding : Active(s) /\ Active(t) => s = t
            BY DEF IInv, Chain
        <3>4. QED
            BY <3>1, <3>2, <3>3 DEF Active
    <2>3. started \ ended \subseteq {accepted + 1}
        <3>1. accepted \in Nat /\ started \subseteq 1..(accepted + 1)
            BY Distinct DEF IInv, TypeOK, Numbering
        <3>2. \A n \in 1..accepted : n \in ended
            BY <2>1 DEF IInv, Numbering
        <3>3. ASSUME NEW n \in started, n \notin ended PROVE n = accepted + 1
            BY <3>1, <3>2, <3>3
        <3>4. QED
            BY <3>3
    <2>4. QED
        BY <2>1, <2>2, <2>3
<1>2. QED
    BY <1>1, InductiveInvariant, PTL
=============================================================================
