------------------------ MODULE StreamLifetimeProofs ------------------------
(***************************************************************************)
(* Theorems about StreamLifetime, for any number of sessions, of segments  *)
(* and of frames, and any capacity of the two buffers.  The inductive      *)
(* invariant says which decoders can be alive, what is true of them and of *)
(* the buffering thread before Stop finds them and after, and what the     *)
(* three flags (late, full, failed) remember of what Stop found.           *)
(***************************************************************************)
EXTENDS StreamLifetime, TLAPS

(* The interface before Stop has got to the manager, and the thread after it. *)
StartPlaces == {"start", "create", "open"}
PlayPlaces  == {"startRenderer", "playing", "stopManager"}

Quiet == \A n \in Decoders : pc[n] \in {"none", "done"}

(* The decoders before the last one created are done, but for the one that  *)
(* is about to start it; those after it do not exist.                       *)
Chain ==
    /\ \A n \in Decoders :
          /\ n > mediaObjectDecoder => pc[n] = "none"
          /\ n < mediaObjectDecoder =>
                \/ pc[n] = "done"
                \/ pc[n] = "open" /\ n + 1 = mediaObjectDecoder /\ pc[n + 1] = "none"
          /\ n = mediaObjectDecoder => pc[n] # "open"
    /\ pc[Gui] \in {"start", "create"} => mediaObjectDecoder = 0
    /\ pc[Gui] = "open" => mediaObjectDecoder = 1 /\ pc[1] = "none"

(* Until Stop has found it every decoder that was started has run set; and  *)
(* when the manager does not run there is none.                             *)
Running ==
    /\ isRunning => mediaObjectDecoder > 0
    /\ pc[Gui] \in {"joinBuffering", "stopDecoder"} => mediaObjectDecoder > 0
    /\ pc[Gui] \in PlayPlaces \cup {"joinBuffering", "stopDecoder"} =>
          \A n \in Decoders : pc[n] # "none" => run[n]
    /\ pc[Gui] \in StartPlaces => ~isRunning
    /\ pc[Gui] \in PlayPlaces /\ ~isRunning =>
          Quiet /\ ((failed /\ mediaObjectDecoder = 1) \/ buffering = "done")

(* From its end on the manager creates no decoder; the one that Stop found  *)
(* has ended when the segments are cleared, unless Stop came late.          *)
Ending ==
    /\ pc[Gui] \in {"joinBuffering", "stopDecoder", "joinDecoder", "clear"} => ~isRunning
    /\ pc[Gui] \in {"stopDecoder", "joinDecoder", "clear"} => buffering = "done"
    /\ pc[Gui] = "joinDecoder" /\ ~late =>
          mediaObjectDecoder = known /\ \A n \in Decoders : pc[n] \notin {"create", "open"}
    /\ pc[Gui] \in {"clear", "clearFrames", "joinRenderer"} => late \/ Quiet
    /\ pc[Gui] \in {"clearFrames", "joinRenderer"} =>
          buffering = "done" \/ (failed /\ mediaObjectDecoder = 1 /\ Quiet)

(* A segment is refused only by a buffer that Stop found full. *)
Refusals ==
    /\ pc[Gui] = "start" => buffering = "none"
    /\ pc[Gui] \in StartPlaces \cup PlayPlaces => ~orphan /\ (segmentsEOS => buffering = "done")
    /\ segmentsEOS => ~isBuffering \/ buffering = "done"
    /\ orphan => full
    /\ buffering = "push" => made < SegmentCount
    /\ buffering = "push" /\ segmentsEOS => full \/ Queued < SegmentCapacity

(* A frame that is added is one of those that are left. *)
FramesLeft == \A n \in Decoders : pc[n] = "addFrame" => left[n] > 0

Leftovers ==
    /\ pc[Gui] # "idle" => leftover = {}
    /\ NothingLeftBehind
    /\ "buffering" \in leftover => Quiet

IInv ==
    /\ TypeOK
    /\ Chain
    /\ Running
    /\ Ending
    /\ Refusals
    /\ FramesLeft
    /\ Leftovers

-----------------------------------------------------------------------------

USE DEF Goto, Step, vars, frameVars, segmentVars, receiverVars, decoderVars, managerVars,
        historyVars, Threads

LEMMA Distinct ==
    /\ Gui # Renderer /\ Gui \notin Decoders /\ Renderer \notin Decoders
    /\ SegmentCount \in Nat /\ FrameCount \in Nat /\ MaxSessions \in Nat
    /\ SegmentCapacity \in Nat \ {0} /\ FrameCapacity \in Nat \ {0}
    BY LifetimeAssumption

-----------------------------------------------------------------------------
(* Types *)

FrameType ==
    /\ frames \in Seq(Nat) /\ Len(frames) <= FrameCapacity
    /\ accepted \in Nat /\ framesEOS \in BOOLEAN
    /\ blocked \in [Threads -> {"put", "get", "nothing"}]

ManagerType ==
    /\ isStarted \in BOOLEAN /\ isVideoRendering \in BOOLEAN
    /\ frame \in BOOLEAN /\ muxed \in BOOLEAN /\ sessions \in 0..MaxSessions

FlagType ==
    /\ samplesEOS \in BOOLEAN /\ segmentsEOS \in BOOLEAN
    /\ isBuffering \in BOOLEAN /\ orphan \in BOOLEAN /\ isRunning \in BOOLEAN

HistoryType ==
    /\ failed \in BOOLEAN /\ late \in BOOLEAN /\ full \in BOOLEAN
    /\ leftover \subseteq {"buffering", "download", "decoder", "renderer"}

NumberType ==
    /\ made \in 0..SegmentCount /\ got \in 0..made /\ Queued <= SegmentCapacity
    /\ buffering \in {"none", "next", "push", "done"}
    /\ mediaObjectDecoder \in 0..got /\ known \in 0..mediaObjectDecoder

DecoderType == run \in [Decoders -> BOOLEAN] /\ left \in [Decoders -> 0..FrameCount]

PlaceType ==
    /\ pc[Gui] \in GuiPlaces /\ pc[Renderer] \in RendererPlaces
    /\ pc \in [Threads -> GuiPlaces \cup DecoderPlaces \cup RendererPlaces]
    /\ \A n \in Decoders : pc[n] \in DecoderPlaces

LEMMA TypeParts ==
    TypeOK <=> /\ FrameType /\ ManagerType /\ FlagType /\ HistoryType
               /\ NumberType /\ DecoderType /\ PlaceType
    BY DEF TypeOK, FrameType, ManagerType, FlagType, HistoryType, NumberType, DecoderType, PlaceType

(* The frame buffer keeps its type, whoever uses it. *)
LEMMA FramePut ==
    ASSUME NEW t \in Threads, FrameType, Frames!PutBlocks(t) \/ Frames!PutReturns(t)
    PROVE  FrameType'
<1> USE Distinct DEF FrameType
<1>1. blocked' \in [Threads -> {"put", "get", "nothing"}]
    BY DEF Frames!PutBlocks, Frames!PutReturns, Frames!PutAccepted, Frames!PutRefused,
           Frames!Block, Frames!Return
<1>2. CASE Frames!PutAccepted(t)
    <2>1. /\ Append(frames, accepted + 1) \in Seq(Nat)
          /\ Len(Append(frames, accepted + 1)) = Len(frames) + 1
        OBVIOUS
    <2>2. QED
        BY <1>1, <1>2, <2>1 DEF Frames!PutAccepted
<1>3. CASE Frames!PutBlocks(t) \/ Frames!PutRefused(t)
    BY <1>1, <1>3 DEF Frames!PutBlocks, Frames!PutRefused
<1>4. QED
    BY <1>2, <1>3 DEF Frames!PutReturns

LEMMA FrameGet ==
    ASSUME NEW t \in Threads, FrameType,
           Frames!GetBlocks(t) \/ Frames!GetHead(t) \/ Frames!GetNothing(t)
    PROVE  FrameType'
<1> USE Distinct DEF FrameType
<1>1. blocked' \in [Threads -> {"put", "get", "nothing"}]
    BY DEF Frames!GetBlocks, Frames!GetHead, Frames!GetNothing, Frames!Block, Frames!Return
<1>2. CASE Frames!GetHead(t)
    <2>1. frames # <<>> => Tail(frames) \in Seq(Nat) /\ Len(Tail(frames)) = Len(frames) - 1
        OBVIOUS
    <2>2. QED
        BY <1>1, <1>2, <2>1 DEF Frames!GetHead
<1>3. CASE Frames!GetBlocks(t) \/ Frames!GetNothing(t)
    BY <1>1, <1>3 DEF Frames!GetBlocks, Frames!GetNothing
<1>4. QED
    BY <1>2, <1>3

LEMMA FrameTypeStep == TypeOK /\ [Next]_vars => FrameType'
<1> SUFFICES ASSUME FrameType, [Next]_vars PROVE FrameType'
    BY TypeParts
<1>1. CASE UNCHANGED frameVars
    BY <1>1 DEF FrameType
<1>2. ASSUME NEW n \in Decoders, AddFrame(n) \/ Flush(n) PROVE FrameType'
    BY <1>2, FramePut DEF AddFrame, Flush, Pushes
<1>3. CASE GetFrame
    BY <1>3, FrameGet DEF GetFrame
<1>4. CASE InitVideoRendering
    <2>1. /\ frames' = <<>> /\ accepted' = 0 /\ framesEOS' = FALSE
          /\ blocked' = [t \in Threads |-> "nothing"]
        BY <1>4 DEF InitVideoRendering, NewStream
    <2>2. frames' \in Seq(Nat) /\ Len(frames') = 0
        BY <2>1
    <2>3. Len(frames') <= FrameCapacity
        BY <2>2, Distinct
    <2>4. QED
        BY <2>1, <2>2, <2>3 DEF FrameType
<1>5. CASE StopStream
    BY <1>5 DEF StopStream, Frames!Close, FrameType
<1>6. CASE ClearFrames
    <2>1. frames' = <<>> /\ UNCHANGED <<accepted, framesEOS, blocked>>
        BY <1>6 DEF ClearFrames
    <2>2. frames' \in Seq(Nat) /\ Len(frames') = 0
        BY <2>1
    <2>3. Len(frames') <= FrameCapacity
        BY <2>2, Distinct
    <2>4. QED
        BY <2>1, <2>2, <2>3 DEF FrameType
<1>7. ASSUME NEW n \in Decoders, Decode(n) \/ StartSuccessorFails(n), ~AddFrame(n), ~Flush(n)
      PROVE  UNCHANGED frameVars
    BY <1>7 DEF Decode, DecodeFrame, LeaveLoop, AddSamples, OnDecodingFinished, CreateAVDecoder,
                StartSuccessor, StartSuccessorFails
<1>8. CASE FinishStart \/ StartFirstFails \/ (FinishStop /\ ~ClearFrames)
    BY <1>1, <1>8 DEF FinishStart, StartReceiver, CreateFirst, StartFirst,
                StartVideoRenderingThread, StartFirstFails, FinishStop, StopUnstarted,
                StopReceiver, JoinBuffering, StopDecoder, JoinDecoder, ClearSegments, DeleteStream
<1>9. CASE ShowFrame \/ DoBuffering \/ OrphanEnds
    BY <1>1, <1>9 DEF ShowFrame, DoBuffering, NextSegment, PushSegment, OrphanEnds
<1>10. QED
    BY <1>1, <1>2, <1>3, <1>4, <1>5, <1>6, <1>7, <1>8, <1>9 DEF Next, RenderVideo, FinishStop

LEMMA ManagerTypeStep == TypeOK /\ [Next]_vars => ManagerType'
<1> SUFFICES ASSUME ManagerType, [Next]_vars PROVE ManagerType'
    BY TypeParts
<1> USE DEF ManagerType
<1>1. ASSUME UNCHANGED managerVars PROVE ManagerType'
    BY <1>1
<1>2. CASE UNCHANGED vars
    BY <1>1, <1>2
<1>3. ASSUME NEW n \in Decoders, Decode(n) \/ StartSuccessorFails(n) PROVE ManagerType'
    BY <1>1, <1>3 DEF Decode, DecodeFrame, LeaveLoop, AddFrame, AddSamples, Flush,
                OnDecodingFinished, CreateAVDecoder, StartSuccessor, StartSuccessorFails
<1>4. CASE RenderVideo
    BY <1>4 DEF RenderVideo, GetFrame, ShowFrame
<1>5. CASE DoBuffering \/ OrphanEnds
    BY <1>1, <1>5 DEF DoBuffering, NextSegment, PushSegment, OrphanEnds
<1>6. CASE InitVideoRendering
    BY <1>6, Distinct DEF InitVideoRendering
<1>7. CASE StartReceiver \/ CreateFirst \/ StartFirst \/ StartFirstFails
    BY <1>1, <1>7 DEF StartReceiver, CreateFirst, StartFirst, StartFirstFails
<1>8. CASE StartVideoRenderingThread \/ ClearFrames \/ DeleteStream
    BY <1>8 DEF StartVideoRenderingThread, ClearFrames, DeleteStream
<1>9. CASE StopStream \/ StopUnstarted \/ StopReceiver \/ JoinBuffering \/ StopDecoder
           \/ JoinDecoder \/ ClearSegments
    BY <1>1, <1>9 DEF StopStream, StopUnstarted, StopReceiver, JoinBuffering, StopDecoder,
                      JoinDecoder, ClearSegments
<1>10. QED
    BY <1>2, <1>3, <1>4, <1>5, <1>6, <1>7, <1>8, <1>9 DEF Next, FinishStart, FinishStop

LEMMA FlagTypeStep == TypeOK /\ [Next]_vars => FlagType'
<1> SUFFICES ASSUME FlagType, [Next]_vars PROVE FlagType'
    BY TypeParts
<1> USE DEF FlagType
<1>1. ASSUME UNCHANGED <<samplesEOS, segmentsEOS, isBuffering, orphan, isRunning>>
      PROVE  FlagType'
    BY <1>1
<1>2. CASE UNCHANGED vars
    BY <1>1, <1>2
<1>3. ASSUME NEW n \in Decoders, Decode(n) \/ StartSuccessorFails(n) PROVE FlagType'
    BY <1>1, <1>3 DEF Decode, DecodeFrame, LeaveLoop, AddFrame, AddSamples, Flush,
                OnDecodingFinished, CreateAVDecoder, StartSuccessor, StartSuccessorFails
<1>4. CASE RenderVideo
    BY <1>1, <1>4 DEF RenderVideo, GetFrame, ShowFrame
<1>5. CASE DoBuffering \/ OrphanEnds
    BY <1>5 DEF DoBuffering, NextSegment, PushSegment, OrphanEnds
<1>6. CASE InitVideoRendering
    BY <1>6 DEF InitVideoRendering, NewStream
<1>7. CASE StartReceiver
    BY <1>7 DEF StartReceiver
<1>8. CASE CreateFirst \/ StartFirstFails \/ StartVideoRenderingThread
    BY <1>1, <1>8 DEF CreateFirst, StartFirstFails, StartVideoRenderingThread
<1>9. CASE StartFirst
    BY <1>9 DEF StartFirst
<1>10. CASE StopStream
    BY <1>10 DEF StopStream
<1>11. CASE StopReceiver
    BY <1>11 DEF StopReceiver
<1>12. CASE StopUnstarted \/ JoinBuffering \/ StopDecoder \/ JoinDecoder \/ ClearSegments
            \/ ClearFrames \/ DeleteStream
    BY <1>1, <1>12 DEF StopUnstarted, JoinBuffering, StopDecoder, JoinDecoder, ClearSegments,
                       ClearFrames, DeleteStream
<1>13. QED
    BY <1>2, <1>3, <1>4, <1>5, <1>6, <1>7, <1>8, <1>9, <1>10, <1>11, <1>12
    DEF Next, FinishStart, FinishStop

LEMMA HistoryTypeStep == TypeOK /\ [Next]_vars => HistoryType'
<1> SUFFICES ASSUME HistoryType, [Next]_vars PROVE HistoryType'
    BY TypeParts
<1> USE DEF HistoryType
<1>1. ASSUME UNCHANGED historyVars PROVE HistoryType'
    BY <1>1
<1>2. CASE UNCHANGED vars
    BY <1>1, <1>2
<1>3. ASSUME NEW n \in Decoders, Decode(n) PROVE HistoryType'
    BY <1>1, <1>3 DEF Decode, DecodeFrame, LeaveLoop, AddFrame, AddSamples, Flush,
                OnDecodingFinished, CreateAVDecoder, StartSuccessor
<1>4. ASSUME NEW n \in Decoders, StartSuccessorFails(n) PROVE HistoryType'
    BY <1>4 DEF StartSuccessorFails
<1>5. CASE RenderVideo \/ DoBuffering \/ OrphanEnds
    BY <1>1, <1>5 DEF RenderVideo, GetFrame, ShowFrame, DoBuffering, NextSegment, PushSegment,
                      OrphanEnds
<1>6. CASE InitVideoRendering
    BY <1>6 DEF InitVideoRendering, NewStream
<1>7. CASE FinishStart
    BY <1>1, <1>7 DEF FinishStart, StartReceiver, CreateFirst, StartFirst, StartVideoRenderingThread
<1>8. CASE StartFirstFails
    BY <1>8 DEF StartFirstFails
<1>9. CASE StopStream \/ StopUnstarted \/ JoinBuffering \/ JoinDecoder \/ ClearSegments \/ ClearFrames
    BY <1>1, <1>9 DEF StopStream, StopUnstarted, JoinBuffering, JoinDecoder, ClearSegments,
                      ClearFrames
<1>10. CASE StopReceiver
    BY <1>10 DEF StopReceiver
<1>11. CASE StopDecoder
    BY <1>11 DEF StopDecoder
<1>12. CASE DeleteStream
    <2>1. InUse \subseteq {"buffering", "download", "decoder", "renderer"}
        BY DEF InUse
    <2>2. QED
        BY <1>12, <2>1 DEF DeleteStream
<1>13. QED
    BY <1>2, <1>3, <1>4, <1>5, <1>6, <1>7, <1>8, <1>9, <1>10, <1>11, <1>12 DEF Next, FinishStop

LEMMA NumberTypeStep == TypeOK /\ Refusals /\ [Next]_vars => NumberType'
<1> SUFFICES ASSUME NumberType, Refusals, [Next]_vars PROVE NumberType'
    BY TypeParts
<1> USE Distinct DEF NumberType, Queued
<1>1. ASSUME UNCHANGED <<made, got, buffering, mediaObjectDecoder, known>> PROVE NumberType'
    BY <1>1
<1>2. CASE UNCHANGED vars
    BY <1>1, <1>2
<1>3. ASSUME NEW n \in Decoders, CreateAVDecoder(n) PROVE NumberType'
    <2>1. /\ UNCHANGED <<made, buffering, known>>
          /\ \/ got' = got + 1 /\ mediaObjectDecoder' = mediaObjectDecoder + 1 /\ made - got > 0
             \/ UNCHANGED <<got, mediaObjectDecoder>>
        BY <1>3 DEF CreateAVDecoder, TakeSegment
    <2>2. QED
        BY <2>1
<1>4. ASSUME NEW n \in Decoders, Decode(n) \/ StartSuccessorFails(n), ~CreateAVDecoder(n)
      PROVE  NumberType'
    BY <1>1, <1>4 DEF Decode, DecodeFrame, LeaveLoop, AddFrame, AddSamples, Flush,
                OnDecodingFinished, StartSuccessor, StartSuccessorFails
<1>5. CASE RenderVideo \/ OrphanEnds
    BY <1>1, <1>5 DEF RenderVideo, GetFrame, ShowFrame, OrphanEnds
<1>6. CASE NextSegment
    BY <1>6 DEF NextSegment
<1>7. CASE PushSegment
    BY <1>7 DEF PushSegment, Refusals
<1>8. CASE InitVideoRendering
    BY <1>8 DEF InitVideoRendering, NewStream
<1>9. CASE StartReceiver
    BY <1>9 DEF StartReceiver
<1>10. CASE CreateFirst
    <2>1. /\ UNCHANGED <<made, buffering, known>>
          /\ \/ got' = got + 1 /\ mediaObjectDecoder' = mediaObjectDecoder + 1 /\ made - got > 0
             \/ UNCHANGED <<got, mediaObjectDecoder>>
        BY <1>10 DEF CreateFirst, TakeSegment
    <2>2. QED
        BY <2>1
<1>11. CASE StartFirst \/ StartVideoRenderingThread \/ StartFirstFails
    BY <1>1, <1>11 DEF StartFirst, StartVideoRenderingThread, StartFirstFails
<1>12. CASE StopStream \/ StopUnstarted \/ StopReceiver \/ JoinBuffering \/ JoinDecoder
            \/ ClearFrames \/ DeleteStream
    BY <1>1, <1>12 DEF StopStream, StopUnstarted, StopReceiver, JoinBuffering, JoinDecoder,
                       ClearFrames, DeleteStream
<1>13. CASE StopDecoder
    BY <1>13 DEF StopDecoder
<1>14. CASE ClearSegments
    BY <1>14 DEF ClearSegments
<1>15. QED
    BY <1>2, <1>3, <1>4, <1>5, <1>6, <1>7, <1>8, <1>9, <1>10, <1>11, <1>12, <1>13, <1>14
    DEF Next, FinishStart, FinishStop, DoBuffering

LEMMA DecoderTypeStep == TypeOK /\ FramesLeft /\ [Next]_vars => DecoderType' /\ FramesLeft'
<1> SUFFICES ASSUME DecoderType, PlaceType, NumberType, FramesLeft, [Next]_vars
             PROVE  DecoderType' /\ FramesLeft'
    BY TypeParts
<1> USE Distinct DEF DecoderType
<1>1. ASSUME UNCHANGED left, run' \in [Decoders -> BOOLEAN],
             \A n \in Decoders : pc'[n] = "addFrame" => pc[n] = "addFrame"
      PROVE  DecoderType' /\ FramesLeft'
    BY <1>1 DEF FramesLeft
<1>2. CASE UNCHANGED vars
    BY <1>1, <1>2
<1>3. ASSUME NEW n \in Decoders, DecodeFrame(n) PROVE DecoderType' /\ FramesLeft'
    BY <1>3 DEF DecodeFrame, FramesLeft, PlaceType
<1>4. ASSUME NEW n \in Decoders, AddFrame(n) PROVE DecoderType' /\ FramesLeft'
    <2>1. pc[n] = "addFrame" /\ left[n] > 0 /\ left[n] \in 0..FrameCount /\ UNCHANGED run
        BY <1>4 DEF AddFrame, FramesLeft
    <2>2. CASE pc' = pc /\ left' = left
        BY <1>1, <2>1, <2>2
    <2>3. CASE left' = [left EXCEPT ![n] = left[n] - 1]
               /\ pc' = [pc EXCEPT ![n] = IF muxed THEN "addSamples" ELSE "decode"]
        <3>1. left[n] - 1 \in 0..FrameCount
            BY <2>1
        <3>2. DecoderType'
            BY <2>1, <2>3, <3>1
        <3>3. \A m \in Decoders : pc'[m] = "addFrame" => m # n /\ pc[m] = "addFrame"
            BY <2>3 DEF PlaceType
        <3>4. QED
            BY <2>3, <3>2, <3>3 DEF FramesLeft
    <2>4. QED
        BY <1>4, <2>2, <2>3 DEF AddFrame, Pushes
<1>5. ASSUME NEW n \in Decoders,
             LeaveLoop(n) \/ AddSamples(n) \/ Flush(n) \/ OnDecodingFinished(n)
             \/ CreateAVDecoder(n) \/ StartSuccessorFails(n)
      PROVE  DecoderType' /\ FramesLeft'
    <2>1. /\ UNCHANGED <<left, run>>
          /\ \E p \in DecoderPlaces \ {"addFrame"} : pc' = pc \/ pc' = [pc EXCEPT ![n] = p]
        BY <1>5 DEF LeaveLoop, AddSamples, Flush, Pushes, OnDecodingFinished, CreateAVDecoder,
                    StartSuccessorFails, DecoderPlaces
    <2>2. QED
        BY <1>1, <2>1 DEF PlaceType
<1>6. ASSUME NEW t \in Threads, NEW next \in {"done", "startRenderer"}, StartDecoder(t, next),
             UNCHANGED left
      PROVE  DecoderType' /\ FramesLeft'
    BY <1>1, <1>6 DEF StartDecoder, PlaceType
<1>7. CASE RenderVideo \/ OrphanEnds \/ DoBuffering
    BY <1>1, <1>7 DEF RenderVideo, GetFrame, ShowFrame, OrphanEnds, DoBuffering, NextSegment,
                PushSegment, PlaceType
<1>8. CASE InitVideoRendering
    <2>1. /\ run' = [n \in Decoders |-> FALSE] /\ left' = [n \in Decoders |-> FrameCount]
          /\ pc' = [t \in Threads |-> IF t = Gui THEN "start" ELSE "none"]
        BY <1>8 DEF InitVideoRendering, NewStream
    <2>2. QED
        BY <2>1 DEF FramesLeft
<1>9. CASE StartReceiver \/ CreateFirst \/ StartVideoRenderingThread \/ StartFirstFails
    BY <1>1, <1>9 DEF StartReceiver, CreateFirst, StartVideoRenderingThread, StartFirstFails,
                      PlaceType
<1>10. CASE StopStream \/ StopUnstarted \/ StopReceiver \/ JoinBuffering \/ JoinDecoder
            \/ ClearFrames \/ ClearSegments \/ DeleteStream
    BY <1>1, <1>10 DEF StopStream, StopUnstarted, StopReceiver, JoinBuffering, JoinDecoder,
                ClearFrames, ClearSegments, DeleteStream, PlaceType
<1>11. CASE StopDecoder
    BY <1>1, <1>11 DEF StopDecoder, PlaceType
<1>12. QED
    BY <1>2, <1>3, <1>4, <1>5, <1>6, <1>7, <1>8, <1>9, <1>10, <1>11
    DEF Next, FinishStart, FinishStop, Decode, StartSuccessor, StartFirst

-----------------------------------------------------------------------------
(* Places *)

LEMMA GuiGoes ==
    ASSUME PlaceType, NEW p \in GuiPlaces, pc' = [pc EXCEPT ![Gui] = p]
    PROVE  /\ PlaceType' /\ pc'[Gui] = p /\ pc'[Renderer] = pc[Renderer]
           /\ \A n \in Decoders : pc'[n] = pc[n]
    BY Distinct DEF PlaceType

LEMMA DecoderGoes ==
    ASSUME PlaceType, NEW n \in Decoders, NEW p \in DecoderPlaces, pc' = [pc EXCEPT ![n] = p]
    PROVE  /\ PlaceType' /\ pc'[n] = p /\ pc'[Renderer] = pc[Renderer] /\ pc'[Gui] = pc[Gui]
           /\ \A m \in Decoders \ {n} : pc'[m] = pc[m]
    BY Distinct DEF PlaceType

LEMMA RendererGoes ==
    ASSUME PlaceType, NEW p \in RendererPlaces, pc' = [pc EXCEPT ![Renderer] = p]
    PROVE  /\ PlaceType' /\ pc'[Renderer] = p /\ pc'[Gui] = pc[Gui]
           /\ \A n \in Decoders : pc'[n] = pc[n]
    BY Distinct DEF PlaceType

LEMMA LastCreated ==
    ASSUME NumberType
    PROVE  /\ mediaObjectDecoder \in Nat /\ known \in Nat
           /\ mediaObjectDecoder > 0 => mediaObjectDecoder \in Decoders
           /\ known > 0 => known \in Decoders
    BY Distinct DEF NumberType, Decoders

(* A decoder is started by the interface or by the decoder before it. *)
LEMMA DecoderStarts ==
    ASSUME NumberType, PlaceType, Chain, NEW t \in Threads, NEW next, StartDecoder(t, next),
           \/ t = Gui /\ next = "startRenderer"
           \/ t \in Decoders /\ next = "done"
    PROVE  /\ mediaObjectDecoder \in Decoders /\ mediaObjectDecoder # t
           /\ pc[mediaObjectDecoder] = "none" /\ pc[t] = "open"
           /\ PlaceType' /\ pc'[t] = next /\ pc'[mediaObjectDecoder] = "decode"
           /\ \A u \in Threads \ {t, mediaObjectDecoder} : pc'[u] = pc[u]
           /\ t \in Decoders => t + 1 = mediaObjectDecoder
<1>1. /\ mediaObjectDecoder \in Decoders /\ mediaObjectDecoder # t
      /\ pc[mediaObjectDecoder] = "none" /\ pc[t] = "open"
      /\ t \in Decoders => t + 1 = mediaObjectDecoder
    <2>1. pc[t] = "open"
        BY DEF StartDecoder
    <2>2. CASE t = Gui
        BY <2>1, <2>2, LastCreated, Distinct DEF Chain
    <2>3. CASE t \in Decoders
        BY <2>1, <2>3, LastCreated DEF Chain, Decoders
    <2>4. QED
        BY <2>2, <2>3
<1>2. pc' = [pc EXCEPT ![t] = next, ![mediaObjectDecoder] = "decode"]
    BY DEF StartDecoder
<1>3. /\ pc'[t] = next /\ pc'[mediaObjectDecoder] = "decode"
      /\ \A u \in Threads \ {t, mediaObjectDecoder} : pc'[u] = pc[u]
    BY <1>1, <1>2 DEF PlaceType
<1>4. PlaceType'
    BY <1>1, <1>2, <1>3, Distinct DEF PlaceType, GuiPlaces, DecoderPlaces
<1>5. QED
    BY <1>1, <1>3, <1>4

(* A decoder goes on without creating or starting another. *)
Moves(n) ==
    /\ pc[n] \notin {"none", "open", "done"}
    /\ \/ UNCHANGED pc
       \/ \E p \in DecoderPlaces \ {"none", "open"} :
             pc' = [pc EXCEPT ![n] = p] /\ (p = "create" => isRunning)
    /\ UNCHANGED <<receiverVars, isRunning, mediaObjectDecoder, run, known, historyVars>>

Creates(n) == CreateAVDecoder(n) /\ TakeSegment(n)

LEMMA DecodersMove ==
    ASSUME PlaceType, NEW n \in Decoders, Decode(n), ~StartSuccessor(n), ~Creates(n)
    PROVE  Moves(n)
<1>1. CASE DecodeFrame(n)
    <2>1. \E p \in {"addFrame", "flush"} : pc' = [pc EXCEPT ![n] = p]
        BY <1>1 DEF DecodeFrame
    <2>2. QED
        BY <1>1, <2>1 DEF DecodeFrame, Moves, DecoderPlaces
<1>2. CASE LeaveLoop(n) \/ AddSamples(n)
    BY <1>2 DEF LeaveLoop, AddSamples, Moves, DecoderPlaces
<1>3. CASE AddFrame(n) \/ Flush(n)
    <2>1. UNCHANGED pc \/ \E p \in {"addSamples", "decode", "notify"} : pc' = [pc EXCEPT ![n] = p]
        BY <1>3 DEF AddFrame, Flush, Pushes
    <2>2. QED
        BY <1>3, <2>1 DEF AddFrame, Flush, Moves, DecoderPlaces
<1>4. CASE OnDecodingFinished(n)
    <2>1. \E p \in {"create", "done"} : pc' = [pc EXCEPT ![n] = p] /\ (p = "create" => isRunning)
        BY <1>4 DEF OnDecodingFinished
    <2>2. QED
        BY <1>4, <2>1 DEF OnDecodingFinished, Moves, DecoderPlaces
<1>5. CASE CreateAVDecoder(n)
    BY <1>5 DEF CreateAVDecoder, Creates, Moves, DecoderPlaces
<1>6. QED
    BY <1>1, <1>2, <1>3, <1>4, <1>5 DEF Decode

LEMMA MovePlaces ==
    ASSUME PlaceType, NEW n \in Decoders, Moves(n)
    PROVE  /\ PlaceType' /\ pc'[Gui] = pc[Gui]
           /\ pc'[n] \notin {"none", "open"} /\ (pc'[n] = "create" => isRunning \/ pc[n] = "create")
           /\ \A m \in Decoders \ {n} : pc'[m] = pc[m]
<1>1. CASE UNCHANGED pc
    BY <1>1 DEF Moves, PlaceType
<1>2. ASSUME NEW p \in DecoderPlaces \ {"none", "open"},
             pc' = [pc EXCEPT ![n] = p] /\ (p = "create" => isRunning)
      PROVE  /\ PlaceType' /\ pc'[Gui] = pc[Gui]
             /\ pc'[n] \notin {"none", "open"} /\ (pc'[n] = "create" => isRunning)
             /\ \A m \in Decoders \ {n} : pc'[m] = pc[m]
    BY <1>2, DecoderGoes
<1>3. QED
    BY <1>1, <1>2 DEF Moves

LEMMA PlaceTypeStep == TypeOK /\ Chain /\ [Next]_vars => PlaceType'
<1> SUFFICES ASSUME PlaceType, NumberType, Chain, [Next]_vars PROVE PlaceType'
    BY TypeParts
<1>1. CASE UNCHANGED pc
    BY <1>1 DEF PlaceType
<1>2. ASSUME NEW n \in Decoders, Decode(n) PROVE PlaceType'
    <2>1. CASE StartSuccessor(n)
        BY <2>1, DecoderStarts DEF StartSuccessor
    <2>2. CASE Creates(n)
        <3>1. pc' = [pc EXCEPT ![n] = "open"] \/ pc' = [pc EXCEPT ![n] = "done"]
            BY <2>2 DEF Creates, CreateAVDecoder
        <3>2. QED
            BY <3>1, DecoderGoes DEF DecoderPlaces
    <2>3. QED
        BY <1>2, <2>1, <2>2, DecodersMove, MovePlaces
<1>3. ASSUME NEW n \in Decoders, StartSuccessorFails(n) PROVE PlaceType'
    BY <1>3, DecoderGoes DEF StartSuccessorFails, DecoderPlaces
<1>4. CASE RenderVideo
    <2>1. UNCHANGED pc \/ \E p \in RendererPlaces : pc' = [pc EXCEPT ![Renderer] = p]
        BY <1>4 DEF RenderVideo, GetFrame, ShowFrame, RendererPlaces
    <2>2. QED
        BY <1>1, <2>1, RendererGoes
<1>5. CASE DoBuffering \/ OrphanEnds
    BY <1>1, <1>5 DEF DoBuffering, NextSegment, PushSegment, OrphanEnds
<1>6. CASE InitVideoRendering
    <2>1. pc' = [t \in Threads |-> IF t = Gui THEN "start" ELSE "none"]
        BY <1>6 DEF InitVideoRendering
    <2>2. QED
        BY <2>1, Distinct DEF PlaceType, GuiPlaces, DecoderPlaces, RendererPlaces
<1>7. CASE StartReceiver \/ CreateFirst \/ StartFirstFails
    <2>1. \E p \in {"create", "open", "startRenderer"} : pc' = [pc EXCEPT ![Gui] = p]
        BY <1>7 DEF StartReceiver, CreateFirst, StartFirstFails
    <2>2. QED
        BY <2>1, GuiGoes DEF GuiPlaces
<1>8. CASE StartFirst
    BY <1>8, DecoderStarts DEF StartFirst
<1>9. CASE StartVideoRenderingThread
    <2>1. pc' = [pc EXCEPT ![Gui] = "playing", ![Renderer] = "getFrame"]
        BY <1>9 DEF StartVideoRenderingThread
    <2>2. QED
        BY <2>1, Distinct DEF PlaceType, GuiPlaces, RendererPlaces
<1>10. CASE StopStream \/ FinishStop
    <2>1. \E p \in GuiPlaces : pc' = [pc EXCEPT ![Gui] = p]
        BY <1>10 DEF StopStream, FinishStop, StopUnstarted, StopReceiver, JoinBuffering, StopDecoder,
                     JoinDecoder, ClearSegments, ClearFrames, DeleteStream, GuiPlaces
    <2>2. QED
        BY <2>1, GuiGoes
<1>11. QED
    BY <1>1, <1>2, <1>3, <1>4, <1>5, <1>6, <1>7, <1>8, <1>9, <1>10 DEF Next, FinishStart

LEMMA TypeStep == IInv /\ [Next]_vars => TypeOK' /\ FramesLeft'
    BY TypeParts, FrameTypeStep, ManagerTypeStep, FlagTypeStep, HistoryTypeStep, NumberTypeStep,
       DecoderTypeStep, PlaceTypeStep DEF IInv, TypeOK, FrameType, ManagerType, FlagType,
       HistoryType, NumberType, DecoderType, PlaceType

-----------------------------------------------------------------------------
(* The rest of the invariant: one lemma for the steps of each thread *)

Core == Chain /\ Running /\ Ending /\ Refusals /\ Leftovers

CoreType == NumberType /\ PlaceType /\ FlagType

LEMMA CoreTypes == IInv => Core /\ CoreType
    BY TypeParts DEF IInv, Core, CoreType

LEMMA RendererKeeps ==
    ASSUME Core, CoreType, RenderVideo
    PROVE  Core'
<1>1. UNCHANGED pc \/ \E p \in RendererPlaces : pc' = [pc EXCEPT ![Renderer] = p]
    BY DEF RenderVideo, GetFrame, ShowFrame, RendererPlaces
<1>2. pc'[Gui] = pc[Gui] /\ \A n \in Decoders : pc'[n] = pc[n]
    BY <1>1, RendererGoes DEF CoreType
<1>3. UNCHANGED <<receiverVars, decoderVars, historyVars>>
    BY DEF RenderVideo, GetFrame, ShowFrame
<1>4. Chain' /\ Running'
    <2>1. Running'
        BY <1>2, <1>3 DEF Core, Running, Quiet
    <2>2. mediaObjectDecoder > 0 => pc'[mediaObjectDecoder] = pc[mediaObjectDecoder]
        BY <1>2, LastCreated DEF CoreType
    <2>3. \A n \in Decoders : n \in Nat
        BY DEF Decoders
    <2>4. QED
        BY <1>2, <1>3, <2>1, <2>2, <2>3 DEF Core, Chain
<1>5. Ending' /\ Refusals'
    BY <1>2, <1>3 DEF Core, Ending, Refusals, Quiet, Queued
<1>6. Leftovers'
    BY <1>2, <1>3 DEF Core, Leftovers, NothingLeftBehind, Quiet
<1>7. QED
    BY <1>4, <1>5, <1>6 DEF Core

(* A thread that has neither ended nor not begun is the last one created,  *)
(* or about to start it; while there is one, the manager is not at rest.   *)
LEMMA Alive ==
    ASSUME Core, CoreType, NEW n \in Decoders, pc[n] \notin {"none", "done"}
    PROVE  /\ ~Quiet
           /\ n \in Nat /\ mediaObjectDecoder \in Nat
           /\ pc[n] # "open" => n = mediaObjectDecoder
           /\ pc[n] = "open" =>
                 n + 1 = mediaObjectDecoder /\ n + 1 \in Decoders /\ pc[n + 1] = "none"
           /\ pc[Gui] \notin {"start", "create", "open"}
           /\ pc[Gui] \in PlayPlaces => isRunning
           /\ pc[Gui] \in {"clear", "clearFrames", "joinRenderer"} => late
           /\ pc[Gui] = "joinDecoder" /\ pc[n] \in {"create", "open"} => late
           /\ pc[Gui] \in {"clearFrames", "joinRenderer"} => buffering = "done"
           /\ "buffering" \notin leftover
<1>1. ~Quiet
    BY DEF Quiet
<1>2. /\ n \in Nat /\ mediaObjectDecoder \in Nat
      /\ pc[n] # "open" => n = mediaObjectDecoder
      /\ pc[n] = "open" => n + 1 = mediaObjectDecoder /\ pc[n + 1] = "none"
    BY LastCreated DEF Core, CoreType, Chain, Decoders
<1>3. pc[n] = "open" => n + 1 \in Decoders
    BY <1>2, LastCreated DEF CoreType
<1>4. pc[Gui] \notin {"start", "create", "open"}
    <2>1. n > 0
        BY Distinct DEF Decoders
    <2>2. ASSUME pc[Gui] = "open" PROVE FALSE
        BY <1>2, <2>1, <2>2 DEF Core, Chain
    <2>3. QED
        BY <1>2, <2>1, <2>2 DEF Core, Chain
<1>5. QED
    BY <1>1, <1>2, <1>3, <1>4 DEF Core, Running, Ending, Leftovers

LEMMA MovesKeeps ==
    ASSUME Core, CoreType, NEW n \in Decoders, Moves(n)
    PROVE  Core'
<1>1. /\ pc'[Gui] = pc[Gui] /\ pc[n] \notin {"none", "open", "done"}
      /\ pc'[n] \notin {"none", "open"} /\ (pc'[n] = "create" => isRunning \/ pc[n] = "create")
      /\ \A m \in Decoders \ {n} : pc'[m] = pc[m]
    BY MovePlaces DEF Moves, CoreType
<1>2. UNCHANGED <<made, got, segmentsEOS, isBuffering, buffering, orphan, isRunning,
                  mediaObjectDecoder, run, known, failed, late, full, leftover>>
    BY DEF Moves
<1>3. n = mediaObjectDecoder /\ n \in Nat
    BY <1>1, Alive
<1>4. Chain'
    <2>1. \A m \in Decoders : m # n => pc'[m] = pc[m] /\ m \in Nat
        BY <1>1 DEF Decoders
    <2>2. \A m \in Decoders : m < mediaObjectDecoder => pc[m] = "done"
        BY <1>1, <1>3 DEF Core, Chain
    <2>3. pc[Gui] \notin {"start", "create", "open"}
        BY <1>1, Alive
    <2>4. QED
        BY <1>1, <1>2, <1>3, <2>1, <2>2, <2>3 DEF Core, Chain
<1>5. Running'
    BY <1>1, <1>2, Alive DEF Core, Running
<1>6. Ending'
    BY <1>1, <1>2, Alive DEF Core, Ending
<1>7. Refusals'
    BY <1>1, <1>2 DEF Core, Refusals, Queued
<1>8. Leftovers'
    BY <1>1, <1>2, Alive DEF Core, Leftovers, NothingLeftBehind
<1>9. QED
    BY <1>4, <1>5, <1>6, <1>7, <1>8 DEF Core

LEMMA CreatesKeeps ==
    ASSUME Core, CoreType, NumberType', NEW n \in Decoders, Creates(n)
    PROVE  Core'
<1>1. /\ pc[n] = "create" /\ pc' = [pc EXCEPT ![n] = "open"]
      /\ mediaObjectDecoder' = mediaObjectDecoder + 1
      /\ Queued > 0 /\ got' = got + 1
      /\ UNCHANGED <<made, segmentsEOS, isBuffering, buffering, orphan, isRunning, run, known,
                     failed, late, full, leftover>>
    <2>1. CreateAVDecoder(n) /\ TakeSegment(n)
        BY DEF Creates
    <2>2. ~NoSegment
        BY <2>1 DEF TakeSegment, NoSegment, CoreType, NumberType, Queued
    <2>3. QED
        BY <2>1, <2>2 DEF CreateAVDecoder, TakeSegment
<1>2. /\ pc'[Gui] = pc[Gui] /\ pc'[n] = "open"
      /\ \A m \in Decoders \ {n} : pc'[m] = pc[m]
    BY <1>1, DecoderGoes DEF CoreType, DecoderPlaces
<1>3. n = mediaObjectDecoder /\ n \in Nat /\ pc[Gui] \notin {"start", "create", "open"}
    BY <1>1, Alive
<1>4. Chain'
    <2>1. \A m \in Decoders : m # n => pc'[m] = pc[m] /\ m \in Nat
        BY <1>2 DEF Decoders
    <2>2. \A m \in Decoders : m < n => pc[m] = "done"
        BY <1>1, <1>3 DEF Core, Chain
    <2>3. \A m \in Decoders : m > n => pc[m] = "none"
        BY <1>3 DEF Core, Chain
    <2>4. n + 1 \in Decoders
        BY <1>1, <1>3, Distinct DEF NumberType, Decoders
    <2>5. \A m \in Decoders : /\ m > n + 1 => pc'[m] = "none"
                              /\ m < n + 1 => m = n \/ pc'[m] = "done"
                              /\ m = n + 1 => pc'[m] = "none"
        BY <1>3, <2>1, <2>2, <2>3
    <2>6. QED
        BY <1>1, <1>2, <1>3, <2>4, <2>5 DEF Chain
<1>5. Running'
    BY <1>1, <1>2, <1>3, Alive DEF Core, Running, PlayPlaces, StartPlaces
<1>6. Ending'
    BY <1>1, <1>2, Alive DEF Core, Ending
<1>7. Refusals'
    <2>1. Queued' < Queued /\ Queued \in Nat /\ Queued' \in Nat /\ SegmentCapacity \in Nat
        BY <1>1, Distinct DEF Queued, CoreType, NumberType
    <2>2. QED
        BY <1>1, <1>2, <2>1 DEF Core, Refusals
<1>8. Leftovers'
    BY <1>1, <1>2, Alive DEF Core, Leftovers, NothingLeftBehind
<1>9. QED
    BY <1>4, <1>5, <1>6, <1>7, <1>8 DEF Core

LEMMA StartSuccessorKeeps ==
    ASSUME Core, CoreType, DecoderType, NEW n \in Decoders, StartSuccessor(n)
    PROVE  Core'
<1> DEFINE m == mediaObjectDecoder
<1>1. /\ m \in Decoders /\ m # n /\ pc[m] = "none" /\ pc[n] = "open"
      /\ pc'[n] = "done" /\ pc'[m] = "decode" /\ pc'[Gui] = pc[Gui]
      /\ \A i \in Decoders \ {n, m} : pc'[i] = pc[i]
      /\ n + 1 = m /\ n \in Nat /\ m \in Nat
    <2>1. StartDecoder(n, "done") /\ n \in Threads
        BY DEF StartSuccessor
    <2>2. /\ m \in Decoders /\ m # n /\ pc[m] = "none" /\ pc[n] = "open"
          /\ pc'[n] = "done" /\ pc'[m] = "decode" /\ n + 1 = m
          /\ \A i \in Threads \ {n, m} : pc'[i] = pc[i]
        BY <2>1, DecoderStarts DEF CoreType, Core
    <2>3. n \in Nat /\ m \in Nat
        BY <2>2 DEF Decoders
    <2>4. Gui \in Threads \ {n, m}
        BY <2>2, Distinct
    <2>5. QED
        BY <2>2, <2>3, <2>4
<1>2. /\ run' = [run EXCEPT ![m] = TRUE]
      /\ UNCHANGED <<made, got, segmentsEOS, isBuffering, buffering, orphan, isRunning,
                     mediaObjectDecoder, known, failed, late, full, leftover>>
    BY DEF StartSuccessor, StartDecoder
<1>3. Chain'
    <2>1. \A i \in Decoders : i \in Nat /\ (i # n /\ i # m => pc'[i] = pc[i])
        BY <1>1 DEF Decoders
    <2>2. \A i \in Decoders : /\ i > m => pc[i] = "none"
                              /\ i < m => i = n \/ pc[i] = "done"
        BY <1>1, <2>1 DEF Core, Chain
    <2>3. pc[Gui] \notin {"start", "create", "open"}
        BY <1>1, Alive
    <2>4. \A i \in Decoders : /\ i > m => pc'[i] = "none"
                              /\ i < m => pc'[i] = "done"
                              /\ i = m => pc'[i] # "open"
        BY <1>1, <2>1, <2>2
    <2>5. QED
        BY <1>1, <1>2, <2>3, <2>4 DEF Chain
<1>4. Running'
    <2>1. run'[m] /\ \A i \in Decoders \ {m} : run[i] => run'[i]
        BY <1>1, <1>2 DEF DecoderType
    <2>2. \A i \in Decoders \ {m} : pc'[i] # "none" => pc[i] # "none"
        BY <1>1
    <2>3. pc[Gui] \in PlayPlaces \cup {"joinBuffering", "stopDecoder"} =>
              \A i \in Decoders : pc'[i] # "none" => run'[i]
        BY <2>1, <2>2 DEF Core, Running
    <2>4. pc[Gui] \in PlayPlaces => isRunning
        BY <1>1, Alive
    <2>5. QED
        BY <1>1, <1>2, <2>3, <2>4 DEF Core, Running
<1>5. Ending'
    BY <1>1, <1>2, Alive DEF Core, Ending
<1>6. Refusals'
    BY <1>1, <1>2 DEF Core, Refusals, Queued
<1>7. Leftovers'
    BY <1>1, <1>2, Alive DEF Core, Leftovers, NothingLeftBehind
<1>8. QED
    BY <1>3, <1>4, <1>5, <1>6, <1>7 DEF Core

LEMMA StartSuccessorFailsKeeps ==
    ASSUME Core, CoreType, NEW n \in Decoders, StartSuccessorFails(n)
    PROVE  Core'
<1>1. /\ pc[n] = "open" /\ pc'[n] = "done" /\ pc'[Gui] = pc[Gui]
      /\ \A i \in Decoders \ {n} : pc'[i] = pc[i]
    BY DecoderGoes DEF StartSuccessorFails, CoreType, DecoderPlaces
<1>2. /\ failed'
      /\ UNCHANGED <<made, got, segmentsEOS, isBuffering, buffering, orphan, isRunning, run,
                     mediaObjectDecoder, known, late, full, leftover>>
    BY DEF StartSuccessorFails
<1>3. Chain'
    <2>1. n + 1 = mediaObjectDecoder /\ n \in Nat /\ pc[Gui] \notin {"start", "create", "open"}
        BY <1>1, Alive
    <2>2. \A i \in Decoders : i \in Nat /\ (i # n => pc'[i] = pc[i])
        BY <1>1 DEF Decoders
    <2>3. QED
        BY <1>1, <1>2, <2>1, <2>2 DEF Core, Chain
<1>4. Running'
    BY <1>1, <1>2, Alive DEF Core, Running
<1>5. Ending'
    BY <1>1, <1>2, Alive DEF Core, Ending
<1>6. Refusals'
    BY <1>1, <1>2 DEF Core, Refusals, Queued
<1>7. Leftovers'
    BY <1>1, <1>2, Alive DEF Core, Leftovers, NothingLeftBehind
<1>8. QED
    BY <1>3, <1>4, <1>5, <1>6, <1>7 DEF Core

LEMMA BufferingKeeps ==
    ASSUME Core, CoreType, DoBuffering \/ OrphanEnds
    PROVE  Core'
<1>1. UNCHANGED <<pc, got, decoderVars, historyVars, isBuffering>>
    BY DEF DoBuffering, NextSegment, PushSegment, OrphanEnds
<1>2. Chain'
    BY <1>1 DEF Core, Chain
<1>3. Leftovers'
    BY <1>1 DEF Core, Leftovers, NothingLeftBehind, Quiet
<1>4. buffering' = buffering \/ buffering \in {"next", "push"}
    BY DEF DoBuffering, NextSegment, PushSegment, OrphanEnds
<1>5. Running'
    BY <1>1, <1>4 DEF Core, Running, Quiet
<1>6. Ending'
    BY <1>1, <1>4 DEF Core, Ending, Quiet
<1>7. Refusals'
    <2>1. CASE NextSegment
        <3>1. /\ UNCHANGED <<made, orphan>> /\ buffering = "next"
              /\ \/ buffering' = "push" /\ isBuffering /\ made < SegmentCount
                    /\ UNCHANGED segmentsEOS
                 \/ buffering' = "done" /\ segmentsEOS'
            BY <2>1 DEF NextSegment
        <3>2. QED
            BY <1>1, <3>1 DEF Core, Refusals
    <2>2. CASE PushSegment
        <3>1. /\ UNCHANGED segmentsEOS /\ buffering = "push"
              /\ \/ buffering' = "next" /\ UNCHANGED orphan
                 \/ buffering' = "done" /\ orphan' /\ Queued >= SegmentCapacity /\ segmentsEOS
            BY <2>2 DEF PushSegment
        <3>2. Queued >= SegmentCapacity => ~(Queued < SegmentCapacity)
            BY Distinct DEF Queued, CoreType, NumberType
        <3>3. QED
            BY <1>1, <3>1, <3>2 DEF Core, Refusals
    <2>3. CASE OrphanEnds
        BY <1>1, <2>3 DEF OrphanEnds, Core, Refusals, Queued
    <2>4. QED
        BY <2>1, <2>2, <2>3 DEF DoBuffering
<1>8. QED
    BY <1>2, <1>3, <1>5, <1>6, <1>7 DEF Core

LEMMA InitVideoRenderingKeeps ==
    ASSUME InitVideoRendering
    PROVE  Core'
<1>1. pc' = [t \in Threads |-> IF t = Gui THEN "start" ELSE "none"]
    BY DEF InitVideoRendering
<1>2. pc'[Gui] = "start" /\ \A n \in Decoders : pc'[n] = "none"
    BY <1>1, Distinct
<1>3. /\ mediaObjectDecoder' = 0 /\ ~isRunning' /\ ~segmentsEOS' /\ ~orphan'
      /\ buffering' = "none" /\ leftover' = {}
    BY DEF InitVideoRendering, NewStream
<1>4. Chain' /\ Running' /\ Ending' /\ Refusals' /\ Leftovers'
    <2>1. \A n \in Decoders : n \in Nat /\ ~(n < 0)
        BY DEF Decoders
    <2>2. Chain'
        BY <1>2, <1>3, <2>1 DEF Chain
    <2>3. Running' /\ Ending'
        BY <1>2, <1>3 DEF Running, Ending, StartPlaces, PlayPlaces
    <2>4. Refusals' /\ Leftovers'
        BY <1>2, <1>3 DEF Refusals, Leftovers, NothingLeftBehind
    <2>5. QED
        BY <2>2, <2>3, <2>4
<1>5. QED
    BY <1>4 DEF Core

LEMMA StartReceiverKeeps ==
    ASSUME Core, CoreType, StartReceiver
    PROVE  Core'
<1>1. pc[Gui] = "start" /\ pc' = [pc EXCEPT ![Gui] = "create"]
    BY DEF StartReceiver
<1>2. pc'[Gui] = "create" /\ \A n \in Decoders : pc'[n] = pc[n]
    BY <1>1, GuiGoes DEF CoreType, GuiPlaces
<1>3. /\ buffering' = "next" /\ ~segmentsEOS
      /\ UNCHANGED <<segmentVars, orphan, decoderVars, historyVars>>
    BY <1>1 DEF StartReceiver, Core, Refusals, StartPlaces
<1>4. Chain'
    <2>1. mediaObjectDecoder = 0 /\ \A n \in Decoders : n \in Nat /\ ~(n < 0)
        BY <1>1 DEF Core, Chain, Decoders
    <2>2. QED
        BY <1>1, <1>2, <1>3, <2>1 DEF Core, Chain
<1>5. Running' /\ Ending'
    BY <1>1, <1>2, <1>3 DEF Core, Running, Ending, StartPlaces, PlayPlaces
<1>6. Refusals' /\ Leftovers'
    BY <1>1, <1>2, <1>3 DEF Core, Refusals, Leftovers, NothingLeftBehind, StartPlaces, PlayPlaces
<1>7. QED
    BY <1>4, <1>5, <1>6 DEF Core

LEMMA CreateFirstKeeps ==
    ASSUME Core, CoreType, NumberType', CreateFirst
    PROVE  Core'
<1>1. /\ pc[Gui] = "create" /\ mediaObjectDecoder = 0 /\ ~isRunning /\ leftover = {}
      /\ \A n \in Decoders : n \in Nat /\ n > 0 /\ pc[n] = "none"
    BY Distinct DEF CreateFirst, Core, Chain, Running, Leftovers, StartPlaces, Decoders
<1>2. UNCHANGED <<made, segmentsEOS, isBuffering, buffering, orphan, isRunning, run, known, historyVars>>
    BY DEF CreateFirst
<1>3. CASE TakeSegment(Gui) /\ Goto(Gui, "open")
    <2>1. /\ pc'[Gui] = "open" /\ \A n \in Decoders : pc'[n] = "none"
          /\ mediaObjectDecoder' = 1
        BY <1>1, <1>3, GuiGoes DEF TakeSegment, CoreType, GuiPlaces
    <2>2. 1 \in Decoders
        BY <2>1, LastCreated, Distinct DEF NumberType, Decoders
    <2>3. Chain'
        BY <1>1, <2>1, <2>2 DEF Chain
    <2>4. Running' /\ Ending'
        BY <1>1, <1>2, <2>1 DEF Running, Ending, StartPlaces, PlayPlaces
    <2>5. Queued' < Queued /\ Queued \in Nat /\ Queued' \in Nat /\ SegmentCapacity \in Nat
        BY <1>2, <1>3, Distinct DEF Queued, TakeSegment, CoreType, NumberType
    <2>6. Refusals'
        BY <1>1, <1>2, <2>1, <2>5 DEF Core, Refusals, StartPlaces
    <2>7. Leftovers'
        BY <1>1, <1>2, <2>1 DEF Leftovers, NothingLeftBehind
    <2>8. QED
        BY <2>3, <2>4, <2>6, <2>7 DEF Core
<1>4. CASE NoSegment /\ Goto(Gui, "startRenderer") /\ UNCHANGED <<got, mediaObjectDecoder>>
    <2>1. /\ pc'[Gui] = "startRenderer" /\ \A n \in Decoders : pc'[n] = "none"
          /\ mediaObjectDecoder' = 0
        BY <1>1, <1>4, GuiGoes DEF CoreType, GuiPlaces
    <2>2. buffering = "done"
        BY <1>1, <1>4 DEF NoSegment, Core, Refusals, StartPlaces
    <2>3. Chain'
        BY <1>1, <2>1 DEF Chain
    <2>4. Running' /\ Ending'
        BY <1>1, <1>2, <2>1, <2>2 DEF Running, Ending, StartPlaces, PlayPlaces, Quiet
    <2>5. Refusals'
        BY <1>1, <1>2, <1>4, <2>1 DEF Core, Refusals, StartPlaces, PlayPlaces, Queued
    <2>6. Leftovers'
        BY <1>1, <1>2, <2>1 DEF Leftovers, NothingLeftBehind
    <2>7. QED
        BY <2>3, <2>4, <2>5, <2>6 DEF Core
<1>5. QED
    BY <1>3, <1>4 DEF CreateFirst

LEMMA StartFirstKeeps ==
    ASSUME Core, CoreType, DecoderType, StartFirst
    PROVE  Core'
<1>1. /\ pc[Gui] = "open" /\ mediaObjectDecoder = 1 /\ leftover = {}
      /\ \A n \in Decoders : n \in Nat /\ n > 0 /\ pc[n] = "none"
    <2>1. pc[Gui] = "open"
        BY DEF StartFirst, StartDecoder
    <2>2. mediaObjectDecoder = 1 /\ pc[1] = "none" /\ leftover = {}
        BY <2>1 DEF Core, Chain, Leftovers
    <2>3. \A n \in Decoders : n \in Nat /\ n > 0 /\ (n = 1 \/ n > 1)
        BY DEF Decoders
    <2>4. QED
        BY <2>1, <2>2, <2>3 DEF Core, Chain
<1>2. /\ 1 \in Decoders
      /\ pc'[Gui] = "startRenderer" /\ pc'[1] = "decode"
      /\ \A n \in Decoders \ {1} : pc'[n] = "none"
    <2>1. StartDecoder(Gui, "startRenderer")
        BY DEF StartFirst
    <2>2. /\ 1 \in Decoders /\ pc'[Gui] = "startRenderer" /\ pc'[1] = "decode"
          /\ \A t \in Threads \ {Gui, 1} : pc'[t] = pc[t]
        BY <1>1, <2>1, DecoderStarts DEF CoreType, Core
    <2>3. \A n \in Decoders \ {1} : n \in Threads \ {Gui, 1}
        BY Distinct
    <2>4. QED
        BY <1>1, <2>2, <2>3
<1>3. /\ isRunning' /\ run'[1]
      /\ UNCHANGED <<receiverVars, mediaObjectDecoder, historyVars>>
    BY <1>1, <1>2 DEF StartFirst, StartDecoder, DecoderType
<1>4. Chain'
    BY <1>1, <1>2, <1>3 DEF Chain
<1>5. Running' /\ Ending'
    BY <1>1, <1>2, <1>3 DEF Running, Ending, StartPlaces, PlayPlaces
<1>6. Refusals'
    BY <1>1, <1>2, <1>3 DEF Core, Refusals, StartPlaces, PlayPlaces, Queued
<1>7. Leftovers'
    BY <1>1, <1>2, <1>3 DEF Leftovers, NothingLeftBehind
<1>8. QED
    BY <1>4, <1>5, <1>6, <1>7 DEF Core

LEMMA StartFirstFailsKeeps ==
    ASSUME Core, CoreType, StartFirstFails
    PROVE  Core'
<1>1. /\ pc[Gui] = "open" /\ mediaObjectDecoder = 1 /\ pc[1] = "none" /\ ~isRunning /\ leftover = {}
    BY DEF StartFirstFails, Core, Chain, Running, StartPlaces, Leftovers
<1>2. \A n \in Decoders : pc[n] = "none" /\ n \in Nat /\ ~(n < 1)
    <2>1. \A n \in Decoders : n \in Nat /\ (n = 1 \/ n > 1)
        BY DEF Decoders
    <2>2. QED
        BY <1>1, <2>1 DEF Core, Chain
<1>3. pc'[Gui] = "startRenderer" /\ \A n \in Decoders : pc'[n] = "none"
    BY <1>2, GuiGoes DEF StartFirstFails, CoreType, GuiPlaces
<1>4. failed' /\ UNCHANGED <<receiverVars, decoderVars, late, full, leftover>>
    BY DEF StartFirstFails
<1>5. Chain'
    BY <1>1, <1>2, <1>3, <1>4 DEF Chain
<1>6. Running' /\ Ending'
    BY <1>1, <1>3, <1>4 DEF Running, Ending, StartPlaces, PlayPlaces, Quiet
<1>7. Refusals'
    BY <1>1, <1>3, <1>4 DEF Core, Refusals, StartPlaces, PlayPlaces, Queued
<1>8. Leftovers'
    BY <1>1, <1>3, <1>4 DEF Leftovers, NothingLeftBehind
<1>9. QED
    BY <1>5, <1>6, <1>7, <1>8 DEF Core

(* The steps of the interface that change nothing but its place and what is *)
(* of no concern to the rest of the invariant.                              *)
LEMMA PlayKeeps ==
    ASSUME Core, CoreType, StartVideoRenderingThread \/ StopStream
    PROVE  Core'
<1>1. /\ pc[Gui] \in {"startRenderer", "playing"} /\ leftover = {}
      /\ pc'[Gui] \in {"playing", "stopManager"} /\ \A n \in Decoders : pc'[n] = pc[n]
    <2>1. CASE StartVideoRenderingThread
        <3>1. pc[Gui] = "startRenderer" /\ pc' = [pc EXCEPT ![Gui] = "playing", ![Renderer] = "getFrame"]
            BY <2>1 DEF StartVideoRenderingThread
        <3>2. pc'[Gui] = "playing" /\ \A n \in Decoders : pc'[n] = pc[n]
            BY <3>1, Distinct DEF CoreType, PlaceType
        <3>3. QED
            BY <3>1, <3>2 DEF Core, Leftovers
    <2>2. CASE StopStream
        BY <2>2, GuiGoes DEF StopStream, GuiPlaces, CoreType, Core, Leftovers
    <2>3. QED
        BY <2>1, <2>2
<1>2. UNCHANGED <<receiverVars, decoderVars, historyVars>>
    BY DEF StartVideoRenderingThread, StopStream
<1>3. Chain'
    <2>1. mediaObjectDecoder > 0 => pc'[mediaObjectDecoder] = pc[mediaObjectDecoder]
        BY <1>1, LastCreated DEF CoreType
    <2>2. \A n \in Decoders : n \in Nat
        BY DEF Decoders
    <2>3. QED
        BY <1>1, <1>2, <2>1, <2>2 DEF Core, Chain
<1>4. Running' /\ Ending'
    BY <1>1, <1>2 DEF Core, Running, Ending, StartPlaces, PlayPlaces, Quiet
<1>5. Refusals'
    BY <1>1, <1>2 DEF Core, Refusals, StartPlaces, PlayPlaces, Queued
<1>6. Leftovers'
    BY <1>1, <1>2 DEF Leftovers, NothingLeftBehind
<1>7. QED
    BY <1>3, <1>4, <1>5, <1>6 DEF Core

(* What every step of Stop leaves alone. *)
LEMMA FinishStopChain ==
    ASSUME Core, CoreType, FinishStop
    PROVE  /\ \A n \in Decoders : pc'[n] = pc[n]
           /\ pc'[Gui] \notin {"start", "create", "open"}
           /\ pc'[Gui] \notin StartPlaces \cup PlayPlaces
           /\ leftover = {}
           /\ UNCHANGED <<made, mediaObjectDecoder, buffering, orphan, failed>>
           /\ Chain'
<1>1. /\ \E p \in GuiPlaces \ {"start", "create", "open", "startRenderer", "playing", "stopManager"} :
            pc' = [pc EXCEPT ![Gui] = p]
      /\ pc[Gui] # "idle"
    BY DEF FinishStop, StopUnstarted, StopReceiver, JoinBuffering, StopDecoder, JoinDecoder,
           ClearSegments, ClearFrames, DeleteStream, GuiPlaces
<1>2. /\ \A n \in Decoders : pc'[n] = pc[n]
      /\ pc'[Gui] \notin {"start", "create", "open"} \cup StartPlaces \cup PlayPlaces
    BY <1>1, GuiGoes DEF CoreType, StartPlaces, PlayPlaces
<1>3. UNCHANGED <<made, mediaObjectDecoder, buffering, orphan, failed>>
    BY DEF FinishStop, StopUnstarted, StopReceiver, JoinBuffering, StopDecoder, JoinDecoder,
           ClearSegments, ClearFrames, DeleteStream
<1>4. Chain'
    <2>1. mediaObjectDecoder > 0 => pc'[mediaObjectDecoder] = pc[mediaObjectDecoder]
        BY <1>2, LastCreated DEF CoreType
    <2>2. \A n \in Decoders : n \in Nat
        BY DEF Decoders
    <2>3. QED
        BY <1>2, <1>3, <2>1, <2>2 DEF Core, Chain
<1>5. QED
    BY <1>1, <1>2, <1>3, <1>4 DEF Core, Leftovers

LEMMA StopReceiverKeeps ==
    ASSUME Core, CoreType, StopReceiver
    PROVE  Core'
<1>1. /\ pc[Gui] = "stopManager" /\ pc'[Gui] = "joinBuffering"
      /\ isRunning /\ mediaObjectDecoder > 0 /\ ~orphan
    BY GuiGoes DEF StopReceiver, CoreType, GuiPlaces, Core, Running, Refusals, PlayPlaces
<1>2. FinishStop
    BY DEF FinishStop
<1>3. /\ ~isRunning' /\ ~isBuffering' /\ segmentsEOS' /\ full' = (Queued = SegmentCapacity)
      /\ UNCHANGED <<got, run, known, late, leftover>>
    BY DEF StopReceiver
<1>4. Running' /\ Ending'
    BY <1>1, <1>2, <1>3, FinishStopChain DEF Core, Running, Ending, StartPlaces, PlayPlaces
<1>5. Refusals'
    <2>1. full' \/ Queued < SegmentCapacity
        <3>1. Queued < SegmentCapacity \/ Queued = SegmentCapacity
            BY Distinct DEF Queued, CoreType, NumberType
        <3>2. QED
            BY <1>3, <3>1
    <2>2. QED
        BY <1>1, <1>2, <1>3, <2>1, FinishStopChain DEF Core, Refusals, StartPlaces, PlayPlaces, Queued
<1>6. Leftovers'
    BY <1>1, <1>2, <1>3, FinishStopChain DEF Leftovers, NothingLeftBehind
<1>7. QED
    BY <1>2, <1>4, <1>5, <1>6, FinishStopChain DEF Core

(* The decoder that Stop finds is the last; if it was never started, or has  *)
(* ended, and none is under construction, no decoder is left.               *)
LEMMA StopDecoderKeeps ==
    ASSUME Core, CoreType, DecoderType, StopDecoder
    PROVE  Core'
<1>1. /\ pc[Gui] = "stopDecoder" /\ mediaObjectDecoder > 0 /\ ~isRunning /\ buffering = "done"
      /\ pc'[Gui] = IF run[mediaObjectDecoder] THEN "joinDecoder" ELSE "clear"
    BY GuiGoes DEF StopDecoder, CoreType, GuiPlaces, Core, Running, Ending
<1>2. FinishStop
    BY DEF FinishStop
<1>3. /\ known' = mediaObjectDecoder /\ late' = (Building # {})
      /\ UNCHANGED <<got, segmentsEOS, isBuffering, isRunning, full, leftover>>
    BY DEF StopDecoder
<1>4. Running'
    BY <1>1, <1>2, <1>3, FinishStopChain DEF Running, StartPlaces, PlayPlaces
<1>5. Ending'
    <2>1. ~late' => \A n \in Decoders : pc[n] \notin {"create", "open"}
        BY <1>3 DEF Building
    <2>2. CASE run[mediaObjectDecoder]
        <3>1. pc'[Gui] = "joinDecoder"
            BY <1>1, <2>2
        <3>2. QED
            BY <1>1, <1>2, <1>3, <2>1, <3>1, FinishStopChain DEF Ending
    <2>3. CASE ~run[mediaObjectDecoder]
        <3>1. pc'[Gui] = "clear"
            BY <1>1, <2>3
        <3>2. pc[mediaObjectDecoder] = "none" /\ mediaObjectDecoder \in Nat
            BY <1>1, <2>3, LastCreated DEF CoreType, Core, Running
        <3>3. \A n \in Decoders :
                 n \in Nat /\ (n < mediaObjectDecoder \/ n = mediaObjectDecoder \/ n > mediaObjectDecoder)
            BY <3>2 DEF Decoders
        <3>4. (\A n \in Decoders : pc[n] \notin {"create", "open"}) => Quiet
            BY <3>2, <3>3 DEF Core, Chain, Quiet
        <3>5. Quiet => Quiet'
            BY <1>2, FinishStopChain DEF Quiet
        <3>6. QED
            BY <1>1, <1>2, <1>3, <2>1, <3>1, <3>4, <3>5, FinishStopChain DEF Ending
    <2>4. QED
        BY <2>2, <2>3
<1>6. Refusals'
    BY <1>1, <1>2, <1>3, FinishStopChain DEF Core, Refusals, Queued
<1>7. Leftovers'
    <2>1. pc'[Gui] # "idle"
        BY <1>1
    <2>2. QED
        BY <1>2, <1>3, <2>1, FinishStopChain DEF Leftovers, NothingLeftBehind
<1>8. QED
    BY <1>2, <1>4, <1>5, <1>6, <1>7, FinishStopChain DEF Core

LEMMA JoinDecoderKeeps ==
    ASSUME Core, CoreType, JoinDecoder
    PROVE  Core'
<1>1. /\ pc[Gui] = "joinDecoder" /\ pc'[Gui] = "clear" /\ pc[known] = "done"
      /\ buffering = "done" /\ ~isRunning
    BY GuiGoes DEF JoinDecoder, CoreType, GuiPlaces, Core, Ending
<1>2. FinishStop
    BY DEF FinishStop
<1>3. UNCHANGED <<got, segmentsEOS, isBuffering, isRunning, run, known, full, late, leftover>>
    BY DEF JoinDecoder
<1>4. ASSUME ~late PROVE Quiet
    <2>1. mediaObjectDecoder = known /\ \A n \in Decoders : pc[n] \notin {"create", "open"}
        BY <1>1, <1>4 DEF Core, Ending
    <2>2. \A n \in Decoders :
             n \in Nat /\ (n < mediaObjectDecoder \/ n = mediaObjectDecoder \/ n > mediaObjectDecoder)
        BY LastCreated DEF Decoders, CoreType
    <2>3. QED
        BY <1>1, <2>1, <2>2 DEF Core, Chain, Quiet
<1>5. Quiet => Quiet'
    BY <1>2, FinishStopChain DEF Quiet
<1>6. Running' /\ Ending'
    BY <1>1, <1>2, <1>3, <1>4, <1>5, FinishStopChain DEF Running, Ending, StartPlaces, PlayPlaces
<1>7. Refusals' /\ Leftovers'
    BY <1>1, <1>2, <1>3, FinishStopChain DEF Core, Refusals, Leftovers, NothingLeftBehind, Queued
<1>8. QED
    BY <1>2, <1>6, <1>7, FinishStopChain DEF Core

LEMMA OtherStopsKeep ==
    ASSUME Core, CoreType, StopUnstarted \/ JoinBuffering \/ ClearSegments \/ ClearFrames
    PROVE  Core'
<1>1. FinishStop
    BY DEF FinishStop
<1>2. UNCHANGED <<segmentsEOS, isBuffering, isRunning, run, known, full, late, leftover>>
    BY DEF StopUnstarted, JoinBuffering, ClearSegments, ClearFrames
<1>3. \/ pc[Gui] = "stopManager" /\ pc'[Gui] = "clearFrames" /\ ~isRunning
      \/ pc[Gui] = "joinBuffering" /\ pc'[Gui] = "stopDecoder" /\ buffering = "done"
      \/ pc[Gui] = "clear" /\ pc'[Gui] = "clearFrames"
      \/ pc[Gui] = "clearFrames" /\ pc'[Gui] = "joinRenderer"
    BY GuiGoes DEF StopUnstarted, JoinBuffering, ClearSegments, ClearFrames, CoreType, GuiPlaces
<1>4. Quiet => Quiet'
    BY <1>1, FinishStopChain DEF Quiet
<1>5. Running'
    BY <1>1, <1>2, <1>3, FinishStopChain DEF Core, Running, StartPlaces, PlayPlaces
<1>6. Ending'
    BY <1>1, <1>2, <1>3, <1>4, FinishStopChain DEF Core, Running, Ending, PlayPlaces
<1>7. Refusals'
    <2>1. Queued < SegmentCapacity => Queued' < SegmentCapacity
        <3>1. CASE ClearSegments
            BY <3>1, Distinct DEF ClearSegments, Queued, CoreType, NumberType
        <3>2. CASE UNCHANGED got
            BY <1>1, <3>2, FinishStopChain DEF Queued
        <3>3. QED
            BY <3>1, <3>2 DEF StopUnstarted, JoinBuffering, ClearFrames
    <2>2. QED
        BY <1>1, <1>2, <1>3, <2>1, FinishStopChain DEF Core, Refusals
<1>8. Leftovers'
    BY <1>1, <1>2, <1>3, FinishStopChain DEF Leftovers, NothingLeftBehind
<1>9. QED
    BY <1>1, <1>5, <1>6, <1>7, <1>8, FinishStopChain DEF Core

(* What is in use when the stream is deleted is what the three flags say. *)
LEMMA DeleteStreamKeeps ==
    ASSUME Core, CoreType, DeleteStream
    PROVE  Core'
<1>1. pc[Gui] = "joinRenderer" /\ pc'[Gui] = "idle" /\ pc[Renderer] = "done"
    BY GuiGoes DEF DeleteStream, CoreType, GuiPlaces
<1>2. FinishStop
    BY DEF FinishStop
<1>3. /\ UNCHANGED <<got, segmentsEOS, isBuffering, isRunning, run, known, full, late>>
      /\ leftover' = InUse
    BY DEF DeleteStream
<1>4. late \/ Quiet
    BY <1>1 DEF Core, Ending
<1>5. buffering = "done" \/ (failed /\ mediaObjectDecoder = 1 /\ Quiet)
    BY <1>1 DEF Core, Ending
<1>6. /\ "renderer" \notin InUse
      /\ "decoder" \in InUse => ~Quiet
      /\ "download" \in InUse => orphan
      /\ "buffering" \in InUse => buffering # "done"
    BY <1>1 DEF InUse, Quiet
<1>7. Quiet => Quiet'
    BY <1>2, FinishStopChain DEF Quiet
<1>8. Leftovers'
    <2>1. NothingLeftBehind'
        BY <1>2, <1>3, <1>4, <1>5, <1>6, FinishStopChain DEF Core, Refusals, NothingLeftBehind
    <2>2. ("buffering" \in leftover => Quiet)'
        BY <1>3, <1>5, <1>6, <1>7
    <2>3. QED
        BY <1>1, <2>1, <2>2 DEF Leftovers
<1>9. Running' /\ Ending'
    BY <1>1, <1>2, <1>3, FinishStopChain DEF Core, Running, Ending, StartPlaces, PlayPlaces
<1>10. Refusals'
    BY <1>1, <1>2, <1>3, FinishStopChain DEF Core, Refusals, Queued
<1>11. QED
    BY <1>2, <1>8, <1>9, <1>10, FinishStopChain DEF Core

LEMMA CoreStep == IInv /\ [Next]_vars => Core'
<1> SUFFICES ASSUME IInv, [Next]_vars PROVE Core'
    OBVIOUS
<1>1. Core /\ CoreType /\ DecoderType /\ NumberType'
    <2>1. TypeOK /\ TypeOK'
        BY TypeStep DEF IInv
    <2>2. DecoderType
        BY <2>1 DEF TypeOK, DecoderType
    <2>3. NumberType'
        BY <2>1 DEF TypeOK, NumberType
    <2>4. QED
        BY <2>2, <2>3, CoreTypes
<1>2. CASE UNCHANGED vars
    BY <1>1, <1>2 DEF Core, Chain, Running, Ending, Refusals, Leftovers, NothingLeftBehind, Quiet,
                      Queued
<1>3. ASSUME NEW n \in Decoders, Decode(n) \/ StartSuccessorFails(n) PROVE Core'
    <2>1. CASE StartSuccessor(n)
        BY <1>1, <2>1, StartSuccessorKeeps
    <2>2. CASE Creates(n)
        BY <1>1, <2>2, CreatesKeeps
    <2>3. CASE StartSuccessorFails(n)
        BY <1>1, <2>3, StartSuccessorFailsKeeps
    <2>4. CASE Decode(n) /\ ~StartSuccessor(n) /\ ~Creates(n)
        BY <1>1, <2>4, DecodersMove, MovesKeeps DEF CoreType
    <2>5. QED
        BY <1>3, <2>1, <2>2, <2>3, <2>4
<1>4. CASE RenderVideo
    BY <1>1, <1>4, RendererKeeps
<1>5. CASE DoBuffering \/ OrphanEnds
    BY <1>1, <1>5, BufferingKeeps
<1>6. CASE InitVideoRendering
    BY <1>6, InitVideoRenderingKeeps
<1>7. CASE FinishStart \/ StartFirstFails
    BY <1>1, <1>7, StartReceiverKeeps, CreateFirstKeeps, StartFirstKeeps, StartFirstFailsKeeps,
       PlayKeeps DEF FinishStart
<1>8. CASE StopStream
    BY <1>1, <1>8, PlayKeeps
<1>9. CASE FinishStop
    BY <1>1, <1>9, StopReceiverKeeps, StopDecoderKeeps, JoinDecoderKeeps, OtherStopsKeep,
       DeleteStreamKeeps DEF FinishStop
<1>10. QED
    BY <1>2, <1>3, <1>4, <1>5, <1>6, <1>7, <1>8, <1>9 DEF Next

-----------------------------------------------------------------------------
(* The theorems *)

LEMMA InitIInv == Init => IInv
<1> SUFFICES ASSUME Init PROVE IInv
    OBVIOUS
<1>1. /\ pc[Gui] = "idle" /\ pc[Renderer] = "none" /\ \A n \in Decoders : pc[n] = "none"
      /\ pc \in [Threads -> {"idle", "none"}]
    BY Distinct DEF Init
<1>2. PlaceType
    BY <1>1 DEF PlaceType, GuiPlaces, DecoderPlaces, RendererPlaces
<1>3. FrameType
    <2>1. /\ frames = <<>> /\ accepted = 0 /\ framesEOS = FALSE
          /\ blocked = [t \in Threads |-> "nothing"]
        BY DEF Init
    <2>2. frames \in Seq(Nat) /\ Len(frames) = 0
        BY <2>1
    <2>3. Len(frames) <= FrameCapacity
        BY <2>2, Distinct
    <2>4. QED
        BY <2>1, <2>2, <2>3 DEF FrameType
<1>4. ManagerType
    <2>1. isStarted = FALSE /\ isVideoRendering = FALSE /\ frame = FALSE /\ muxed \in BOOLEAN
        BY DEF Init
    <2>2. sessions \in 0..MaxSessions
        BY Distinct DEF Init
    <2>3. QED
        BY <2>1, <2>2 DEF ManagerType
<1>5. FlagType
    BY DEF Init, FlagType
<1>6. HistoryType
    BY DEF Init, HistoryType
<1>7. NumberType
    BY Distinct DEF Init, NumberType, Queued
<1>8. DecoderType
    BY Distinct DEF Init, DecoderType
<1>9. Chain
    <2>1. mediaObjectDecoder = 0 /\ \A n \in Decoders : n \in Nat /\ ~(n < 0)
        BY DEF Init, Decoders
    <2>2. QED
        BY <1>1, <2>1 DEF Chain
<1>10. Running /\ Ending
    BY <1>1 DEF Init, Running, Ending, StartPlaces, PlayPlaces
<1>11. Refusals /\ FramesLeft /\ Leftovers
    BY <1>1 DEF Init, Refusals, FramesLeft, Leftovers, NothingLeftBehind, StartPlaces, PlayPlaces
<1>12. QED
    BY <1>2, <1>3, <1>4, <1>5, <1>6, <1>7, <1>8, <1>9, <1>10, <1>11, TypeParts DEF IInv

LEMMA InductiveInvariant == Spec => []IInv
<1>1. Init => IInv
    BY InitIInv
<1>2. IInv /\ [Next]_vars => IInv'
    <2> SUFFICES ASSUME IInv, [Next]_vars PROVE IInv'
        OBVIOUS
    <2>1. TypeOK' /\ FramesLeft'
        BY TypeStep
    <2>2. Core'
        BY CoreStep
    <2>3. QED
        BY <2>1, <2>2 DEF IInv, Core
<1>3. QED
    BY <1>1, <1>2, PTL DEF Spec

(* Type correctness: among other things neither buffer ever holds more than *)
(* its capacity, and no decoder delivers more frames than its segment has,  *)
(* over any number of sessions.                                             *)
THEOREM TypeCorrect == Spec => []TypeOK
<1>1. IInv => TypeOK
    BY DEF IInv
<1>2. QED
    BY <1>1, InductiveInvariant, PTL

(* When StopVideo deletes the stream, with its buffers, its DASHManager and *)
(* its receiver, the renderer never uses them; a decoder may only when Stop *)
(* found one under construction, a download only when it found the segment  *)
(* buffer full, the buffering thread only when the first decoder had failed *)
(* to start: for any number of segments and frames, and any capacities.     *)
THEOREM NothingLeftBehindAlways == Spec => []NothingLeftBehind
<1>1. IInv => NothingLeftBehind
    BY DEF IInv, Leftovers
<1>2. QED
    BY <1>1, InductiveInvariant, PTL
=============================================================================
