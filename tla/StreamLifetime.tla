--------------------------- MODULE StreamLifetime ---------------------------
(***************************************************************************)
(* The life of a MultimediaStream: MultimediaManager creates it, starts a  *)
(* thread that renders its frames, stops both and deletes it, and may do   *)
(* so again.  The decoders push frames into the frame buffer, the renderer *)
(* takes them.  What is deleted with the stream (the frame buffer, the     *)
(* DASHManager, the receiver with its connection) must not be in use.      *)
(*                                                                         *)
(* The frame buffer is a SegmentQueue (Buffer<T> is the monitor of         *)
(* MediaObjectBuffer without downloads to abort).  Of the segment buffer   *)
(* only the numbers count.  Decoder n decodes the n-th segment, FrameCount *)
(* frames and one more when it is flushed, and creates decoder n + 1;      *)
(* PlaybackSession has the exact steps of that, with the assignments of    *)
(* run and isRunning that come too late.                                   *)
(***************************************************************************)
EXTENDS Naturals, Sequences, FiniteSets

CONSTANTS SegmentCount,    \* representationStream->GetSize()
          SegmentCapacity, \* SEGMENTBUFFER_SIZE
          FrameCapacity,   \* frameBufferSize
          FrameCount,      \* frames of a segment
          Gui,             \* the thread of the user interface
          Renderer,        \* the thread of RenderVideo
          MaxSessions      \* bound of the model: how often Start is pressed

Decoders == 1..SegmentCount

ASSUME LifetimeAssumption ==
    /\ SegmentCount \in Nat /\ FrameCount \in Nat
    /\ SegmentCapacity \in Nat \ {0} /\ FrameCapacity \in Nat \ {0}
    /\ Gui # Renderer /\ {Gui, Renderer} \cap Decoders = {}
    /\ MaxSessions \in Nat

VARIABLES frames, accepted, framesEOS, blocked,  \* the frame buffer
          samplesEOS,        \* the sample buffer has no capacity and this flag
          made, got,         \* segments pushed into and taken from their buffer
          segmentsEOS,
          isBuffering, buffering,  \* the buffering thread: its flag and its place
          orphan,            \* the download of a segment that the buffer refused
          isRunning, mediaObjectDecoder,  \* DASHManager
          run, left,         \* of each decoder; left: frames of its segment to come
          known,             \* the decoder that Stop found
          isStarted, isVideoRendering,    \* MultimediaManager
          pc,                \* where each thread is
          frame,             \* RenderVideo has a frame
          muxed,             \* the segments hold audio too
          sessions,          \* history: how often Start was pressed
          failed,            \* history: a decoder could not be started
          late,              \* history: Stop found a decoder under construction
          full,              \* history: Stop found the segment buffer full
          leftover           \* what used the stream when it was deleted

frameVars    == <<frames, accepted, framesEOS, blocked>>
segmentVars  == <<made, got, segmentsEOS>>
receiverVars == <<segmentVars, isBuffering, buffering, orphan>>
decoderVars  == <<isRunning, mediaObjectDecoder, run, left, known>>
managerVars  == <<isStarted, isVideoRendering, frame, muxed, sessions>>
historyVars  == <<failed, late, full, leftover>>
vars == <<frameVars, samplesEOS, receiverVars, decoderVars, managerVars, pc, historyVars>>

Threads == {Gui, Renderer} \cup Decoders

Frames == INSTANCE SegmentQueue
            WITH Capacity <- FrameCapacity, queue <- frames, closed <- framesEOS,
                 Producers <- Decoders, Consumers <- {Renderer}, Controllers <- {Gui}

Queued == made - got

Goto(t, place) == pc' = [pc EXCEPT ![t] = place]
Step(t, from, to) == pc[t] = from /\ Goto(t, to)

Init ==
    /\ frames = <<>> /\ accepted = 0 /\ framesEOS = FALSE
    /\ blocked = [t \in Threads |-> "nothing"]
    /\ samplesEOS = FALSE
    /\ made = 0 /\ got = 0 /\ segmentsEOS = FALSE
    /\ isBuffering = FALSE /\ buffering = "none" /\ orphan = FALSE
    /\ isRunning = FALSE /\ mediaObjectDecoder = 0 /\ known = 0
    /\ run = [n \in Decoders |-> FALSE]
    /\ left = [n \in Decoders |-> FrameCount]
    /\ failed = FALSE /\ late = FALSE /\ full = FALSE
    /\ isStarted = FALSE /\ isVideoRendering = FALSE
    /\ pc = [t \in Threads |-> IF t = Gui THEN "idle" ELSE "none"]
    /\ frame = FALSE
    /\ muxed \in BOOLEAN
    /\ sessions = 0
    /\ leftover = {}

-----------------------------------------------------------------------------
(* DASHReceiver: the buffering thread, and the download it may leave behind *)

NextSegment ==
    /\ buffering = "next"
    /\ IF isBuffering /\ made < SegmentCount
       THEN buffering' = "push" /\ UNCHANGED segmentsEOS
       ELSE buffering' = "done" /\ segmentsEOS' = TRUE
    /\ UNCHANGED <<frameVars, samplesEOS, made, got, isBuffering, orphan, decoderVars,
                   managerVars, pc, historyVars>>

\* PushBack waits for room, or for the end; then it refuses.
PushSegment ==
    /\ buffering = "push"
    /\ \/ /\ Queued < SegmentCapacity
          /\ made' = made + 1 /\ buffering' = "next" /\ UNCHANGED orphan
       \/ /\ Queued >= SegmentCapacity /\ segmentsEOS
          /\ orphan' = TRUE /\ buffering' = "done" /\ UNCHANGED made
    /\ UNCHANGED <<frameVars, samplesEOS, got, segmentsEOS, isBuffering, decoderVars,
                   managerVars, pc, historyVars>>

DoBuffering == NextSegment \/ PushSegment

OrphanEnds ==
    /\ orphan /\ orphan' = FALSE
    /\ UNCHANGED <<frameVars, samplesEOS, segmentVars, isBuffering, buffering, decoderVars,
                   managerVars, pc, historyVars>>

-----------------------------------------------------------------------------
(* The decoders *)

\* The head of the segment buffer becomes the segment of a new decoder.
TakeSegment(t) ==
    /\ Queued > 0
    /\ got' = got + 1
    /\ mediaObjectDecoder' = mediaObjectDecoder + 1

NoSegment == Queued = 0 /\ segmentsEOS

\* A decoder under construction: by the GUI thread or by its predecessor.
Building == {t \in Threads : pc[t] \in {"create", "open"}}

CreateAVDecoder(n) ==
    /\ pc[n] = "create"
    /\ \/ TakeSegment(n) /\ Goto(n, "open")
       \/ NoSegment /\ Goto(n, "done") /\ UNCHANGED <<got, mediaObjectDecoder>>
    /\ UNCHANGED <<frameVars, samplesEOS, made, segmentsEOS, isBuffering, buffering, orphan,
                   isRunning, run, left, known, managerVars, historyVars>>

\* MediaObjectDecoder::Start of the decoder that was created last.
StartDecoder(t, next) ==
    /\ pc[t] = "open"
    /\ pc' = [pc EXCEPT ![t] = next, ![mediaObjectDecoder] = "decode"]
    /\ run' = [run EXCEPT ![mediaObjectDecoder] = TRUE]

StartSuccessor(n) ==
    /\ StartDecoder(n, "done")
    /\ UNCHANGED <<frameVars, samplesEOS, receiverVars, isRunning, mediaObjectDecoder, left,
                   known, managerVars, historyVars>>

StartSuccessorFails(n) ==
    /\ Step(n, "open", "done")
    /\ failed' = TRUE
    /\ UNCHANGED <<frameVars, samplesEOS, receiverVars, decoderVars, managerVars, late, full,
                   leftover>>

\* Decode: the next frame, or the last one that Flush brings out, after all the
\* others or after an error, which ends the loop as the end of the segment does.
DecodeFrame(n) ==
    /\ run[n]
    /\ \/ left[n] > 0 /\ Step(n, "decode", "addFrame")
       \/ Step(n, "decode", "flush")
    /\ UNCHANGED <<frameVars, samplesEOS, receiverVars, decoderVars, managerVars, historyVars>>

LeaveLoop(n) ==
    /\ ~run[n]
    /\ Step(n, "decode", "done")
    /\ UNCHANGED <<frameVars, samplesEOS, receiverVars, decoderVars, managerVars, historyVars>>

\* AddFrame: PushBack on the frame buffer.  Nobody looks at what it returns: a
\* frame that was refused is lost.
Pushes(n) == Frames!PutBlocks(n) /\ UNCHANGED pc

AddFrame(n) ==
    /\ pc[n] = "addFrame"
    /\ \/ Pushes(n) /\ UNCHANGED left
       \/ /\ Frames!PutReturns(n)
          /\ left' = [left EXCEPT ![n] = left[n] - 1]
          /\ Goto(n, IF muxed THEN "addSamples" ELSE "decode")
    /\ UNCHANGED <<samplesEOS, receiverVars, isRunning, mediaObjectDecoder, run, known,
                   managerVars, historyVars>>

\* AddSamples: the sample buffer of a video stream has room for nothing.
AddSamples(n) ==
    /\ samplesEOS
    /\ Step(n, "addSamples", "decode")
    /\ UNCHANGED <<frameVars, samplesEOS, receiverVars, decoderVars, managerVars, historyVars>>

\* Mutant: what the decoder still holds is dropped.
FlushDropped(n) ==
    /\ Step(n, "flush", "notify")
    /\ UNCHANGED <<frameVars, samplesEOS, receiverVars, decoderVars, managerVars, historyVars>>

Flush(n) ==
    /\ pc[n] = "flush"
    /\ \/ Pushes(n)
       \/ Frames!PutReturns(n) /\ Goto(n, "notify")
    /\ UNCHANGED <<samplesEOS, receiverVars, decoderVars, managerVars, historyVars>>

OnDecodingFinished(n) ==
    /\ Step(n, "notify", IF isRunning THEN "create" ELSE "done")
    /\ UNCHANGED <<frameVars, samplesEOS, receiverVars, decoderVars, managerVars, historyVars>>

Decode(n) ==
    \/ DecodeFrame(n)
    \/ LeaveLoop(n)
    \/ AddFrame(n)
    \/ AddSamples(n)
    \/ Flush(n)
    \/ OnDecodingFinished(n)
    \/ CreateAVDecoder(n)
    \/ StartSuccessor(n)

-----------------------------------------------------------------------------
(* RenderVideo *)

GetFrame ==
    /\ pc[Renderer] = "getFrame"
    /\ \/ Frames!GetBlocks(Renderer) /\ UNCHANGED <<pc, frame>>
       \/ Frames!GetHead(Renderer) /\ frame' = TRUE /\ Goto(Renderer, "test")
       \/ Frames!GetNothing(Renderer) /\ frame' = FALSE /\ Goto(Renderer, "test")
    /\ UNCHANGED <<samplesEOS, receiverVars, decoderVars, isStarted, isVideoRendering, muxed,
                   sessions, historyVars>>

\* The frame is shown and deleted; without one the thread asks again.  A frame
\* that it held when rendering ended is lost.
ShowFrame ==
    /\ Step(Renderer, "test", IF isVideoRendering THEN "getFrame" ELSE "done")
    /\ frame' = FALSE
    /\ UNCHANGED <<frameVars, samplesEOS, receiverVars, decoderVars, isStarted,
                   isVideoRendering, muxed, sessions, historyVars>>

RenderVideo == GetFrame \/ ShowFrame

-----------------------------------------------------------------------------
(* MultimediaManager::Start, in the thread of the user interface *)

\* The members of a stream that was just constructed.
NewStream ==
    /\ frames' = <<>> /\ accepted' = 0 /\ framesEOS' = FALSE
    /\ blocked' = [t \in Threads |-> "nothing"]
    /\ samplesEOS' = FALSE
    /\ made' = 0 /\ got' = 0 /\ segmentsEOS' = FALSE
    /\ isBuffering' = FALSE /\ buffering' = "none" /\ orphan' = FALSE
    /\ isRunning' = FALSE /\ mediaObjectDecoder' = 0 /\ known' = 0
    /\ run' = [n \in Decoders |-> FALSE]
    /\ left' = [n \in Decoders |-> FrameCount]
    /\ failed' = FALSE /\ late' = FALSE /\ full' = FALSE

\* What the last stream left is gone with it.
InitVideoRendering ==
    /\ sessions < MaxSessions /\ leftover = {}
    /\ sessions' = sessions + 1
    /\ pc[Gui] = "idle"
    /\ pc' = [t \in Threads |-> IF t = Gui THEN "start" ELSE "none"]
    /\ NewStream
    /\ UNCHANGED <<isStarted, isVideoRendering, frame, muxed, leftover>>

StartReceiver ==
    /\ Step(Gui, "start", "create")
    /\ isBuffering' = TRUE /\ buffering' = "next"
    /\ UNCHANGED <<frameVars, samplesEOS, segmentVars, orphan, decoderVars, managerVars,
                   historyVars>>

\* The interface waits until the first segment has begun to arrive.
CreateFirst ==
    /\ pc[Gui] = "create"
    /\ \/ TakeSegment(Gui) /\ Goto(Gui, "open")
       \/ NoSegment /\ Goto(Gui, "startRenderer") /\ UNCHANGED <<got, mediaObjectDecoder>>
    /\ UNCHANGED <<frameVars, samplesEOS, made, segmentsEOS, isBuffering, buffering, orphan,
                   isRunning, run, left, known, managerVars, historyVars>>

StartFirst ==
    /\ StartDecoder(Gui, "startRenderer")
    /\ isRunning' = TRUE
    /\ UNCHANGED <<frameVars, samplesEOS, receiverVars, mediaObjectDecoder, left, known,
                   managerVars, historyVars>>

\* The manager does not run, and nobody looks at what Start returned.
StartFirstFails ==
    /\ Step(Gui, "open", "startRenderer")
    /\ failed' = TRUE
    /\ UNCHANGED <<frameVars, samplesEOS, receiverVars, decoderVars, managerVars, late, full,
                   leftover>>

StartVideoRenderingThread ==
    /\ pc[Gui] = "startRenderer"
    /\ pc' = [pc EXCEPT ![Gui] = "playing", ![Renderer] = "getFrame"]
    /\ isVideoRendering' = TRUE /\ isStarted' = TRUE
    /\ UNCHANGED <<frameVars, samplesEOS, receiverVars, decoderVars, frame, muxed, sessions,
                   historyVars>>

FinishStart ==
    \/ StartReceiver
    \/ CreateFirst
    \/ StartFirst
    \/ StartVideoRenderingThread

-----------------------------------------------------------------------------
(* MultimediaManager::Stop; Start calls it too, when isStarted *)

\* Mutant: the sample buffer is forgotten.
StopStreamVideoOnly ==
    /\ isStarted
    /\ Step(Gui, "playing", "stopManager")
    /\ Frames!Close
    /\ UNCHANGED <<samplesEOS, receiverVars, decoderVars, managerVars, historyVars>>

\* MultimediaStream::Stop begins by releasing the decoders and the renderer.
StopStream ==
    /\ isStarted
    /\ Step(Gui, "playing", "stopManager")
    /\ Frames!Close
    /\ samplesEOS' = TRUE
    /\ UNCHANGED <<receiverVars, decoderVars, managerVars, historyVars>>

\* DASHManager::Stop, which does nothing when Start had failed.
StopUnstarted ==
    /\ ~isRunning
    /\ Step(Gui, "stopManager", "clearFrames")
    /\ UNCHANGED <<frameVars, samplesEOS, receiverVars, decoderVars, managerVars, historyVars>>

StopReceiver ==
    /\ isRunning
    /\ Step(Gui, "stopManager", "joinBuffering")
    /\ isRunning' = FALSE /\ isBuffering' = FALSE /\ segmentsEOS' = TRUE
    /\ full' = (Queued = SegmentCapacity)
    /\ UNCHANGED <<frameVars, samplesEOS, made, got, buffering, orphan, mediaObjectDecoder, run,
                   left, known, managerVars, failed, late, leftover>>

JoinBuffering ==
    /\ buffering = "done"
    /\ Step(Gui, "joinBuffering", "stopDecoder")
    /\ UNCHANGED <<frameVars, samplesEOS, receiverVars, decoderVars, managerVars, historyVars>>

\* MediaObjectDecoder::Stop of the decoder that was created last.
StopDecoder ==
    /\ Step(Gui, "stopDecoder", IF run[mediaObjectDecoder] THEN "joinDecoder" ELSE "clear")
    /\ run' = [run EXCEPT ![mediaObjectDecoder] = FALSE]
    /\ known' = mediaObjectDecoder
    /\ late' = (Building # {})
    /\ UNCHANGED <<frameVars, samplesEOS, receiverVars, isRunning, mediaObjectDecoder, left,
                   managerVars, failed, full, leftover>>

\* Mutant: nobody waits for the decoder.
JoinDecoderForgotten ==
    /\ Step(Gui, "joinDecoder", "clear")
    /\ UNCHANGED <<frameVars, samplesEOS, receiverVars, decoderVars, managerVars, historyVars>>

JoinDecoder ==
    /\ Step(Gui, "joinDecoder", "clear")
    /\ pc[known] = "done"
    /\ UNCHANGED <<frameVars, samplesEOS, receiverVars, decoderVars, managerVars, historyVars>>

ClearSegments ==
    /\ Step(Gui, "clear", "clearFrames")
    /\ got' = made
    /\ UNCHANGED <<frameVars, samplesEOS, made, segmentsEOS, isBuffering, buffering, orphan,
                   decoderVars, managerVars, historyVars>>

\* The frames are deleted, and the renderer is told to end.
ClearFrames ==
    /\ Step(Gui, "clearFrames", "joinRenderer")
    /\ frames' = <<>>
    /\ isVideoRendering' = FALSE
    /\ UNCHANGED <<accepted, framesEOS, blocked, samplesEOS, receiverVars, decoderVars, isStarted,
                   frame, muxed, sessions, historyVars>>

\* The threads that use the stream, besides the one that deletes it.
InUse ==
    (IF buffering \in {"next", "push"} THEN {"buffering"} ELSE {})
    \cup (IF orphan THEN {"download"} ELSE {})
    \cup (IF \E n \in Decoders : pc[n] \notin {"none", "done"} THEN {"decoder"} ELSE {})
    \cup (IF pc[Renderer] \notin {"none", "done"} THEN {"renderer"} ELSE {})

\* The renderer is joined, the stream deleted.
DeleteStream ==
    /\ pc[Renderer] = "done"
    /\ Step(Gui, "joinRenderer", "idle")
    /\ isStarted' = FALSE
    /\ leftover' = InUse
    /\ UNCHANGED <<frameVars, samplesEOS, receiverVars, decoderVars, isVideoRendering, frame,
                   muxed, sessions, failed, late, full>>

FinishStop ==
    \/ StopUnstarted
    \/ StopReceiver
    \/ JoinBuffering
    \/ StopDecoder
    \/ JoinDecoder
    \/ ClearSegments
    \/ ClearFrames
    \/ DeleteStream

-----------------------------------------------------------------------------

Next ==
    \/ InitVideoRendering
    \/ FinishStart
    \/ StartFirstFails
    \/ StopStream
    \/ FinishStop
    \/ RenderVideo
    \/ DoBuffering
    \/ OrphanEnds
    \/ \E n \in Decoders : Decode(n) \/ StartSuccessorFails(n)

Spec == Init /\ [][Next]_vars

\* Threads are scheduled.  Nobody has to press Start or Stop, but what was
\* pressed goes on.
Fairness ==
    /\ WF_vars(FinishStart) /\ WF_vars(FinishStop)
    /\ WF_vars(RenderVideo) /\ WF_vars(DoBuffering)
    /\ \A n \in Decoders : WF_vars(Decode(n))

FairSpec == Spec /\ Fairness

-----------------------------------------------------------------------------
(* Properties *)

GuiPlaces == {"idle", "start", "create", "open", "startRenderer", "playing", "stopManager",
              "joinBuffering", "stopDecoder", "joinDecoder", "clear", "clearFrames",
              "joinRenderer"}
DecoderPlaces == {"none", "decode", "addFrame", "addSamples", "flush", "notify", "create",
                  "open", "done"}
RendererPlaces == {"none", "getFrame", "test", "done"}

\* Every variable has its type.
TypeOK ==
    /\ frames \in Seq(Nat) /\ Len(frames) <= FrameCapacity
    /\ accepted \in Nat /\ framesEOS \in BOOLEAN
    /\ blocked \in [Threads -> {"put", "get", "nothing"}]
    /\ {samplesEOS, segmentsEOS, isBuffering, orphan, isRunning, isStarted, isVideoRendering,
        frame, muxed, failed, late, full} \subseteq BOOLEAN
    /\ made \in 0..SegmentCount /\ got \in 0..made /\ Queued <= SegmentCapacity
    /\ buffering \in {"none", "next", "push", "done"}
    /\ mediaObjectDecoder \in 0..got /\ known \in 0..mediaObjectDecoder
    /\ run \in [Decoders -> BOOLEAN] /\ left \in [Decoders -> 0..FrameCount]
    /\ pc[Gui] \in GuiPlaces /\ pc[Renderer] \in RendererPlaces
    /\ pc \in [Threads -> GuiPlaces \cup DecoderPlaces \cup RendererPlaces]
    /\ \A n \in Decoders : pc[n] \in DecoderPlaces
    /\ sessions \in 0..MaxSessions
    /\ leftover \subseteq {"buffering", "download", "decoder", "renderer"}

\* When StopVideo deletes the stream, nothing uses it any more, but for three
\* cases that the code leaves open: Stop found a decoder under construction,
\* which it does not know; the full segment buffer refused a segment whose
\* download goes on; or the first decoder had failed, and the buffering thread
\* was never stopped.
NothingLeftBehind ==
    /\ "renderer" \notin leftover
    /\ "decoder" \in leftover => late
    /\ "download" \in leftover => full
    /\ "buffering" \in leftover => failed /\ mediaObjectDecoder = 1

\* Stop returns, wherever it found the decoders, the renderer and the buffering
\* thread: also when a decoder waits for room that nobody will ever make.
StreamStops == pc[Gui] = "stopManager" ~> pc[Gui] = "idle"

\* Every frame of every segment.
AllFrames == SegmentCount * (FrameCount + 1)

\* An error has ended the decoding of a segment.
Damaged == \E n \in Decoders : left[n] > 0 /\ pc[n] \notin {"none", "decode", "addFrame", "addSamples"}

\* A stream that plays, has no sound in its segments, is decoded without an
\* error and is not stopped, shows every frame of every segment, those that only
\* the flush brings out included.
ShowsEveryFrame ==
    pc[Gui] = "playing" ~>
        \/ pc[Gui] # "playing" \/ muxed \/ failed \/ Damaged
        \/ accepted = AllFrames /\ frames = <<>> /\ ~frame
=============================================================================
