-------------------------- MODULE PlaybackSession --------------------------
(***************************************************************************)
(* One stream played from Start to Stop: DASHManager, DASHReceiver and the *)
(* chain of MediaObjectDecoders, around the queue of segments.             *)
(*                                                                         *)
(* The GUI thread starts the buffering thread and creates the first        *)
(* decoder; each decoder's own thread, when its segment is decoded,        *)
(* creates the next one.  The GUI thread stops it all.  The queue is       *)
(* SegmentQueue, which MediaObjectBuffer implements; a download is begun   *)
(* and at some time has ended, which is what DownloadChunk shows of it.    *)
(* Segment n is the n-th to be buffered, decoder n decodes segment n, and  *)
(* thread n is its thread.                                                 *)
(***************************************************************************)
EXTENDS Naturals, Sequences, FiniteSets

CONSTANTS Gui,           \* the thread that calls Start and Stop
          Buffering,     \* the thread of DoBuffering
          SegmentCount,  \* representationStream->GetSize()
          Capacity,      \* maxcapacity of the segment buffer
          NoDecoder      \* a mediaObjectDecoder that is NULL

Segments == 1..SegmentCount

ASSUME SessionAssumption ==
    /\ SegmentCount \in Nat
    /\ Capacity \in Nat \ {0}
    /\ Gui # Buffering
    /\ {Gui, Buffering, NoDecoder} \cap Segments = {}

VARIABLES queue, accepted, closed, blocked,  \* the queue of segments
          isBuffering,         \* DASHReceiver
          segmentNumber,       \* DASHReceiver: segments made so far
          started,             \* downloads begun
          ended,               \* downloads that reached their end
          isRunning,           \* DASHManager
          mediaObjectDecoder,  \* DASHManager: the decoder it knows
          run,                 \* MediaObjectDecoder::run
          threadHandle,        \* decoders whose thread was created
          pc,                  \* where each thread is
          taken,               \* the segment each thread last took
          flushed,             \* history: decoders that decoded to the end
          failed,              \* history: a thread or decoder failed to start
          early                \* history: run or isRunning was read before it was set

queueVars    == <<queue, accepted, closed, blocked>>
receiverVars == <<isBuffering, segmentNumber, started, ended>>
managerVars  == <<isRunning, mediaObjectDecoder>>
decoderVars  == <<run, threadHandle, taken, flushed>>
historyVars  == <<failed, early>>
vars == <<queueVars, receiverVars, managerVars, decoderVars, pc, historyVars>>

Threads == {Gui, Buffering} \cup Segments
Decoding == {Gui} \cup Segments

Queue == INSTANCE SegmentQueue
            WITH Producers <- {Buffering}, Consumers <- Decoding, Controllers <- {Gui}

Queued == {queue[i] : i \in 1..Len(queue)}

\* The constructor of MediaObjectDecoder leaves run uninitialised.
Init ==
    /\ Queue!Init
    /\ isBuffering = FALSE
    /\ segmentNumber = 0
    /\ started = {}
    /\ ended = {}
    /\ isRunning = FALSE
    /\ mediaObjectDecoder = NoDecoder
    /\ run \in [Segments -> BOOLEAN]
    /\ threadHandle = {}
    /\ pc = [t \in Threads |-> IF t = Gui THEN "idle" ELSE "none"]
    /\ taken = [t \in Decoding |-> NoDecoder]
    /\ flushed = {}
    /\ failed = FALSE
    /\ early = FALSE

Goto(t, place) == pc' = [pc EXCEPT ![t] = place]
Step(t, from, to) == pc[t] = from /\ Goto(t, to)

-----------------------------------------------------------------------------
(* DASHReceiver::DoBuffering, with GetNextSegment *)

GetNextSegment ==
    /\ pc[Buffering] = "next"
    /\ IF segmentNumber < SegmentCount
       THEN segmentNumber' = segmentNumber + 1 /\ Goto(Buffering, "check")
       ELSE Goto(Buffering, "setEOS") /\ UNCHANGED segmentNumber
    /\ UNCHANGED <<queueVars, isBuffering, started, ended, managerVars, decoderVars, historyVars>>

\* The init segment first; it is no concern of the queue.
DownloadInitSegment ==
    /\ Step(Buffering, "init", "next")
    /\ UNCHANGED <<queueVars, receiverVars, managerVars, decoderVars, historyVars>>

StartDownload ==
    /\ pc[Buffering] = "check"
    /\ IF isBuffering
       THEN started' = started \cup {segmentNumber} /\ Goto(Buffering, "push")
       ELSE Goto(Buffering, "setEOS") /\ UNCHANGED started
    /\ UNCHANGED <<queueVars, isBuffering, segmentNumber, ended, managerVars, decoderVars,
                   historyVars>>

\* Mutant: a full queue is no reason to wait.
PushBackUnbounded ==
    /\ pc[Buffering] = "push"
    /\ \/ Queue!PutAccepted(Buffering)
       \/ Len(queue) >= Capacity /\ UNCHANGED queueVars
    /\ Goto(Buffering, "wait")
    /\ UNCHANGED <<receiverVars, managerVars, decoderVars, historyVars>>

PushBack ==
    /\ pc[Buffering] = "push"
    /\ \/ Queue!PutBlocks(Buffering) /\ UNCHANGED pc
       \/ Queue!PutAccepted(Buffering) /\ Goto(Buffering, "wait")
       \/ Queue!PutRefused(Buffering) /\ Goto(Buffering, "done")
    /\ UNCHANGED <<receiverVars, managerVars, decoderVars, historyVars>>

\* WaitFinished, and the observers that hear of the segment.
WaitFinished ==
    /\ segmentNumber \in ended
    /\ Step(Buffering, "wait", "next")
    /\ UNCHANGED <<queueVars, receiverVars, managerVars, decoderVars, historyVars>>

\* SetEOS aborts what is queued and returns when those downloads have ended.
SetEOS(t) ==
    /\ Queue!Close
    /\ ended' = ended \cup Queued
    /\ UNCHANGED <<isBuffering, segmentNumber, started, managerVars, decoderVars, historyVars>>

SetEOSAtEnd == Step(Buffering, "setEOS", "done") /\ SetEOS(Buffering)

DoBuffering ==
    \/ DownloadInitSegment
    \/ GetNextSegment
    \/ StartDownload
    \/ PushBack
    \/ WaitFinished
    \/ SetEOSAtEnd

\* The network delivers, or gives up.
DownloadEnds(n) ==
    /\ n \in started \ ended
    /\ ended' = ended \cup {n}
    /\ UNCHANGED <<queueVars, isBuffering, segmentNumber, started, managerVars, decoderVars,
                   pc, historyVars>>

-----------------------------------------------------------------------------
(* CreateAVDecoder, in the GUI thread and then in each decoder's thread *)

\* The GUI thread returns from Start; a decoder's thread comes to its end.
CreateFails(t) == Goto(t, IF t = Gui THEN "started" ELSE "done")

GetFront(t) ==
    /\ pc[t] = "getFront"
    /\ \/ Queue!GetBlocks(t) /\ UNCHANGED <<pc, taken>>
       \/ /\ Queue!GetHead(t)
          /\ taken' = [taken EXCEPT ![t] = Head(queue)]
          /\ Goto(t, "new")
       \/ Queue!GetNothing(t) /\ CreateFails(t) /\ UNCHANGED taken
    /\ UNCHANGED <<receiverVars, managerVars, run, threadHandle, flushed, historyVars>>

NewDecoder(t) ==
    /\ Step(t, "new", "open")
    /\ mediaObjectDecoder' = taken[t]
    /\ UNCHANGED <<queueVars, receiverVars, isRunning, decoderVars, historyVars>>

\* LibavDecoder::Init reads the head of the segment; then the thread is created.
CreateDecoderThread(t) ==
    /\ pc[t] = "open"
    /\ threadHandle' = threadHandle \cup {taken[t]}
    /\ pc' = [pc EXCEPT ![t] = "setRun", ![taken[t]] = "decode"]
    /\ UNCHANGED <<queueVars, receiverVars, managerVars, run, taken, flushed, historyVars>>

\* Init fails, or the thread is not created.
StartDecoderFails(t) ==
    /\ pc[t] = "open"
    /\ CreateFails(t)
    /\ failed' = TRUE
    /\ UNCHANGED <<queueVars, receiverVars, managerVars, decoderVars, early>>

\* Mutant: a decoder goes on after it created its successor.
SetRunAndDecode(t) ==
    /\ Step(t, "setRun", IF t = Gui THEN "setRunning" ELSE "decode")
    /\ run' = [run EXCEPT ![taken[t]] = TRUE]
    /\ UNCHANGED <<queueVars, receiverVars, managerVars, threadHandle, taken, flushed, historyVars>>

\* Mutant: run is never set.
SetRunForgotten(t) ==
    /\ Step(t, "setRun", IF t = Gui THEN "setRunning" ELSE "done")
    /\ UNCHANGED <<queueVars, receiverVars, managerVars, decoderVars, historyVars>>

SetRun(t) ==
    /\ Step(t, "setRun", IF t = Gui THEN "setRunning" ELSE "done")
    /\ run' = [run EXCEPT ![taken[t]] = TRUE]
    /\ UNCHANGED <<queueVars, receiverVars, managerVars, threadHandle, taken, flushed, historyVars>>

CreateAVDecoder(t) ==
    \/ GetFront(t)
    \/ NewDecoder(t)
    \/ CreateDecoderThread(t)
    \/ SetRun(t)

-----------------------------------------------------------------------------
(* MediaObjectDecoder::Decode, the thread of decoder n *)

\* run is read between the creation of the thread and the assignment.
ReadsRun(n) ==
    early' = (early \/ \E t \in Decoding : pc[t] = "setRun" /\ taken[t] = n /\ ~run[n])

\* Mutant: the end of the segment does not end the loop.
LeaveLoopOnStop(n) ==
    /\ ~run[n]
    /\ Step(n, "decode", "decoded")
    /\ ReadsRun(n)
    /\ UNCHANGED <<queueVars, receiverVars, managerVars, decoderVars, failed>>

\* The loop ends when run is false or the segment has no more to decode.
LeaveLoop(n) ==
    /\ ~run[n] \/ n \in ended
    /\ Step(n, "decode", "decoded")
    /\ ReadsRun(n)
    /\ UNCHANGED <<queueVars, receiverVars, managerVars, decoderVars, failed>>

DecodeFails(n) ==
    /\ Step(n, "decode", "decoded")
    /\ UNCHANGED <<queueVars, receiverVars, managerVars, decoderVars, historyVars>>

\* run is read again.
Flush(n) ==
    /\ Step(n, "decoded", IF run[n] THEN "notify" ELSE "done")
    /\ flushed' = IF run[n] THEN flushed \cup {n} ELSE flushed
    /\ ReadsRun(n)
    /\ UNCHANGED <<queueVars, receiverVars, managerVars, run, threadHandle, taken, failed>>

OnDecodingFinished(n) ==
    /\ Step(n, "notify", IF isRunning THEN "getFront" ELSE "done")
    /\ early' = (early \/ pc[Gui] \in {"setRun", "setRunning"})
    /\ UNCHANGED <<queueVars, receiverVars, managerVars, decoderVars, failed>>

Decode(n) == LeaveLoop(n) \/ Flush(n) \/ OnDecodingFinished(n)

-----------------------------------------------------------------------------
(* DASHManager::Start and Stop, in the GUI thread *)

StartReceiver ==
    /\ pc[Gui] = "idle"
    /\ isBuffering' = TRUE
    /\ pc' = [pc EXCEPT ![Gui] = "getFront", ![Buffering] = "init"]
    /\ UNCHANGED <<queueVars, segmentNumber, started, ended, managerVars, decoderVars, historyVars>>

StartReceiverFails ==
    /\ Step(Gui, "idle", "started")
    /\ failed' = TRUE
    /\ UNCHANGED <<queueVars, receiverVars, managerVars, decoderVars, early>>

SetRunning ==
    /\ Step(Gui, "setRunning", "started")
    /\ isRunning' = TRUE
    /\ UNCHANGED <<queueVars, receiverVars, mediaObjectDecoder, decoderVars, historyVars>>

Start == StartReceiver \/ SetRunning

\* A manager that never got to run is not stopped.
StopUnstarted ==
    /\ ~isRunning
    /\ Step(Gui, "started", "notStopped")
    /\ UNCHANGED <<queueVars, receiverVars, managerVars, decoderVars, historyVars>>

StopRunning ==
    /\ isRunning
    /\ isRunning' = FALSE
    /\ Step(Gui, "started", "stopReceiver")
    /\ UNCHANGED <<queueVars, receiverVars, mediaObjectDecoder, decoderVars, historyVars>>

StopReceiver ==
    /\ Step(Gui, "stopReceiver", "closeQueue")
    /\ isBuffering' = FALSE
    /\ UNCHANGED <<queueVars, segmentNumber, started, ended, managerVars, decoderVars, historyVars>>

\* Mutant: the buffering thread is left where it waits.
CloseQueueForgotten ==
    /\ Step(Gui, "closeQueue", "joinBuffering")
    /\ UNCHANGED <<queueVars, receiverVars, managerVars, decoderVars, historyVars>>

CloseQueue == Step(Gui, "closeQueue", "joinBuffering") /\ SetEOS(Gui)

\* Mutant: the buffering thread is not joined.
JoinBufferingForgotten ==
    /\ Step(Gui, "joinBuffering", "stopDecoder")
    /\ UNCHANGED <<queueVars, receiverVars, managerVars, decoderVars, historyVars>>

JoinBuffering ==
    /\ pc[Buffering] = "done"
    /\ Step(Gui, "joinBuffering", "stopDecoder")
    /\ UNCHANGED <<queueVars, receiverVars, managerVars, decoderVars, historyVars>>

\* MediaObjectDecoder::Stop of the decoder the manager knows now.
StopDecoder ==
    /\ pc[Gui] = "stopDecoder"
    /\ LET d == mediaObjectDecoder IN
          /\ taken' = [taken EXCEPT ![Gui] = d]
          /\ run' = [run EXCEPT ![d] = FALSE]
          /\ Goto(Gui, IF run[d] /\ d \in threadHandle THEN "joinDecoder" ELSE "clear")
    /\ UNCHANGED <<queueVars, receiverVars, managerVars, threadHandle, flushed, historyVars>>

JoinDecoder ==
    /\ Step(Gui, "joinDecoder", "clear")
    /\ pc[taken[Gui]] = "done"
    /\ UNCHANGED <<queueVars, receiverVars, managerVars, decoderVars, historyVars>>

Clear ==
    /\ Step(Gui, "clear", "stopped")
    /\ queue' = <<>>
    /\ UNCHANGED <<accepted, closed, blocked, receiverVars, managerVars, decoderVars, historyVars>>

FinishStop ==
    \/ StopReceiver
    \/ CloseQueue
    \/ JoinBuffering
    \/ StopDecoder
    \/ JoinDecoder
    \/ Clear

Stop == StopUnstarted \/ StopRunning \/ FinishStop

-----------------------------------------------------------------------------

Next ==
    \/ Start
    \/ StartReceiverFails
    \/ Stop
    \/ DoBuffering
    \/ \E n \in Segments : DownloadEnds(n) \/ Decode(n) \/ DecodeFails(n)
    \/ \E t \in Decoding : CreateAVDecoder(t) \/ StartDecoderFails(t)

Spec == Init /\ [][Next]_vars

\* Threads are scheduled and downloads end (NdnTransfer: DownloadReturns).
\* The user need not press Stop, but a Stop that has begun goes on.
Fairness ==
    /\ WF_vars(Start)
    /\ WF_vars(FinishStop)
    /\ WF_vars(DoBuffering)
    /\ \A n \in Segments : WF_vars(DownloadEnds(n)) /\ WF_vars(Decode(n))
    /\ \A t \in Decoding : WF_vars(CreateAVDecoder(t))

FairSpec == Spec /\ Fairness

-----------------------------------------------------------------------------
(* Properties *)

Places == {"idle", "none", "init", "next", "check", "push", "wait", "setEOS", "getFront",
           "new", "open", "setRun", "setRunning", "started", "decode", "decoded", "notify", "done",
           "notStopped", "stopReceiver", "closeQueue", "joinBuffering", "stopDecoder",
           "joinDecoder", "clear", "stopped"}

\* Every variable has its type.
TypeOK ==
    /\ queue \in Seq(Segments) /\ Len(queue) <= Capacity
    /\ accepted \in 0..SegmentCount
    /\ closed \in BOOLEAN
    /\ blocked \in [Threads -> {"put", "get", "nothing"}]
    /\ isBuffering \in BOOLEAN
    /\ segmentNumber \in 0..SegmentCount
    /\ started \subseteq Segments
    /\ ended \subseteq started
    /\ isRunning \in BOOLEAN
    /\ mediaObjectDecoder \in Segments \cup {NoDecoder}
    /\ run \in [Segments -> BOOLEAN]
    /\ threadHandle \subseteq Segments
    /\ pc \in [Threads -> Places]
    /\ taken \in [Decoding -> Segments \cup {NoDecoder}]
    /\ flushed \subseteq threadHandle
    /\ failed \in BOOLEAN
    /\ early \in BOOLEAN

Live == {n \in threadHandle : pc[n] # "done"}

\* Frames reach the frame buffer in the order of the segments: a decoder runs
\* only when every earlier decoder has left its decoding loop, and no segment
\* is skipped.
DecodedInOrder ==
    /\ \A n \in threadHandle : 1..n \subseteq threadHandle
    /\ \A m, n \in threadHandle : m < n => pc[m] \notin {"decode", "decoded", "notify"}

\* The download side never runs further ahead of the decoders than the segment
\* buffer allows: what it holds, and the one segment that waits to be pushed.
BoundedAhead ==
    \A n \in started :
        \/ n <= Capacity + 1
        \/ \E t \in Decoding : taken[t] # NoDecoder /\ n <= taken[t] + Capacity + 1

\* What a Stop that returned leaves behind: no queued segment, at most one
\* decoder that decodes or is yet to be created, and at most one download, of
\* the segment that the closed queue refused.
StopLeavesLittle ==
    pc[Gui] = "stopped" =>
        /\ queue = <<>>
        /\ pc[Buffering] = "done"
        /\ \A m, n \in Live : pc[m] # "setRun" /\ pc[n] # "setRun" => m = n
        /\ started \ ended \subseteq {accepted + 1}

\* A Stop that began returns, wherever it found the other threads.
StopReturns == pc[Gui] = "stopReceiver" ~> pc[Gui] = "stopped"

\* After Stop every thread of the session comes to its end by itself.
SessionDrains ==
    pc[Gui] = "stopped" ~> pc[Buffering] = "done" /\ Live = {} /\ started = ended

\* A session that runs, that nothing fails in and that nobody stops, decodes
\* every segment, unless a decoder's thread was so fast that it read run or
\* isRunning before its creator had set it: then the playback ends in silence.
PlaysEverySegment ==
    isRunning ~> flushed = Segments \/ failed \/ early \/ ~isRunning
=============================================================================
