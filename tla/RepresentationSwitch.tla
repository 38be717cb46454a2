------------------------ MODULE RepresentationSwitch ------------------------
(***************************************************************************)
(* Changing the video's representation while it plays: MultimediaManager   *)
(* with its monitorMutex, and the DASHReceiver below it.                   *)
(*                                                                         *)
(* The buffering thread asks the adaptation logic after every segment, the *)
(* GUI thread follows the user, and both end in SetVideoQuality, which     *)
(* holds monitorMutex.  The receiver's own mutex is only ever taken inside *)
(* it and is left out.  DoBuffering and the decoders read what             *)
(* SetVideoQuality writes and take no lock.  The queue is SegmentQueue.    *)
(* The threads of the decoder chain, one after the other, are Decoder; how *)
(* the chain begins and ends in detail is the business of PlaybackSession. *)
(***************************************************************************)
EXTENDS Naturals, Sequences, FiniteSets

CONSTANTS Gui, Buffering, Decoder,   \* the threads
          None,                      \* no thread, no init segment
          Representations, AdaptationSets, Periods,
          SetOf,                     \* the adaptation set of a representation
          PeriodOf,                  \* the period of an adaptation set
          FirstRepresentation,       \* the first one of the MPD
          SegmentCount,              \* GetSize() of every representation stream
          Capacity,                  \* of the segment buffer
          MaxChanges                 \* bound: changes of the settings by the user

ASSUME SwitchAssumption ==
    /\ Cardinality({Gui, Buffering, Decoder, None}) = 4
    /\ None \notin Representations
    /\ SetOf \in [Representations -> AdaptationSets]
    /\ PeriodOf \in [AdaptationSets -> Periods]
    /\ FirstRepresentation \in Representations
    /\ SegmentCount \in Nat \ {0}
    /\ Capacity \in Nat \ {0}
    /\ MaxChanges \in Nat

VARIABLES queue, accepted, closed, blocked,  \* the queue of segments
          monitorMutex, isStarted,           \* MultimediaManager
          videoLogic,                        \* the adaptation set its logic was made for
          videoChoice,                       \* videoAdaptationSet, videoRepresentation
          representation, adaptationSet,     \* DASHReceiver
          representationStream,              \* the representation whose stream it is
          periodChanged,                     \* local to SetRepresentation
          initSegments,                      \* for each representation, whose it really is
          segmentNumber, isBuffering,        \* DASHReceiver
          argument,    \* of each thread's SetVideoQuality
          source,      \* local to GetNextSegment: the stream its segment is from
          made,        \* segments made and not taken yet: their label, and their stream
          taken,       \* the label of the last segment a decoder was created for
          pc,
          crashed,     \* a thread used a stream that is not there
          userChanged, \* history: the changes of the user, TRUE if of the adaptation set
          downloads,   \* history: how often each init segment was downloaded
          missed       \* history: a segment was decoded without its init segment

queueVars    == <<queue, accepted, closed, blocked>>
managerVars  == <<monitorMutex, videoChoice>>
sessionVars  == <<isStarted, videoLogic, isBuffering>>
switchVars   == <<representation, adaptationSet, representationStream, periodChanged>>
initVars     == <<initSegments, downloads>>
mediaVars    == <<source, made, taken>>
vars == <<queueVars, managerVars, sessionVars, switchVars, initVars, mediaVars, segmentNumber,
          argument, pc, crashed, userChanged, missed>>

Switching == {Gui, Buffering}
Decoding  == {Gui, Decoder}
Threads   == {Gui, Buffering, Decoder}
Choices   == [set : AdaptationSets, rep : Representations]
Choice(rep) == [set |-> SetOf[rep], rep |-> rep]

Queue == INSTANCE SegmentQueue
            WITH Producers <- {Buffering}, Consumers <- Decoding, Controllers <- {}

\* The user has chosen a representation; the receiver begins with the first.
Init ==
    /\ Queue!Init
    /\ monitorMutex = None
    /\ isStarted = FALSE
    /\ videoChoice \in {Choice(r) : r \in Representations}
    /\ videoLogic = videoChoice.set
    /\ representation = FirstRepresentation
    /\ adaptationSet = SetOf[FirstRepresentation]
    /\ representationStream = FirstRepresentation
    /\ periodChanged = FALSE
    /\ initSegments = [r \in Representations |-> None]
    /\ segmentNumber = 0
    /\ isBuffering = FALSE
    /\ argument = [t \in Switching |-> videoChoice]
    /\ source = FirstRepresentation
    /\ made = <<>>
    /\ taken = FirstRepresentation
    /\ pc = [t \in Threads |-> IF t = Gui THEN "idle" ELSE "none"]
    /\ crashed = FALSE
    /\ userChanged = <<>>
    /\ downloads = [r \in Representations |-> 0]
    /\ missed = FALSE

At(t, place) == pc[t] = place /\ ~crashed
Goto(t, place) == pc' = [pc EXCEPT ![t] = place]
Step(t, from, to) == At(t, from) /\ Goto(t, to)

-----------------------------------------------------------------------------
(* SetVideoQuality and DASHReceiver::SetRepresentation, in thread t *)

\* What they do not touch, as long as the streams they use are there.
UnchangedBySwitch ==
    UNCHANGED <<queueVars, sessionVars, mediaVars, argument, userChanged, missed>>

\* SetRepresentation returns to InitVideoRendering, or to SetVideoQuality.
Caller(t) == IF t = Gui /\ ~isStarted THEN "startReceiver" ELSE "leave"

\* Mutant: the mutex is not waited for.
EnterUnlocked(t) ==
    /\ Step(t, "enter", "assign")
    /\ monitorMutex' = t
    /\ UNCHANGED <<videoChoice, switchVars, initVars, segmentNumber, crashed>>
    /\ UnchangedBySwitch

Enter(t) ==
    /\ monitorMutex = None
    /\ Step(t, "enter", "assign")
    /\ monitorMutex' = t
    /\ UNCHANGED <<videoChoice, switchVars, initVars, segmentNumber, crashed>>
    /\ UnchangedBySwitch

\* It is called between Start and Stop, when the stream is there.
SetQuality(t) ==
    /\ Step(t, "assign", "switch")
    /\ videoChoice' = argument[t]
    /\ UNCHANGED <<monitorMutex, switchVars, initVars, segmentNumber, crashed>>
    /\ UnchangedBySwitch

\* Another adaptation set deletes the streams of the one before.
Switch(t) ==
    /\ At(t, "switch")
    /\ IF representation = argument[t].rep
       THEN Goto(t, Caller(t)) /\ UNCHANGED switchVars
       ELSE /\ representation' = argument[t].rep
            /\ adaptationSet' = argument[t].set
            /\ periodChanged' = (PeriodOf[adaptationSet] # PeriodOf[argument[t].set])
            /\ Goto(t, "lookup")
            /\ UNCHANGED representationStream
    /\ UNCHANGED <<managerVars, initVars, segmentNumber, crashed>>
    /\ UnchangedBySwitch

\* A representation that is not in the set is looked up behind the end of a map.
GetRepresentationStream(t) ==
    /\ At(t, "lookup")
    /\ IF SetOf[representation] = adaptationSet
       THEN representationStream' = representation /\ Goto(t, "initSegment") /\ UNCHANGED crashed
       ELSE crashed' = TRUE /\ UNCHANGED <<representationStream, pc>>
    /\ UNCHANGED <<managerVars, representation, adaptationSet, periodChanged, initVars,
                   segmentNumber>>
    /\ UnchangedBySwitch

\* DoBuffering, too, begins with an init segment, without the mutex.
AfterInitSegment(t) == IF monitorMutex = t THEN "reset" ELSE "next"

\* Mutant: nothing is downloaded.
InitSegmentSkipped(t) ==
    /\ Step(t, "initSegment", AfterInitSegment(t))
    /\ UNCHANGED <<managerVars, switchVars, initVars, segmentNumber, crashed>>
    /\ UnchangedBySwitch

\* Mutant: it is not asked what is there already.
InitSegmentAgain(t) ==
    /\ Step(t, "initSegment", "initDownload")
    /\ UNCHANGED <<managerVars, switchVars, initVars, segmentNumber, crashed>>
    /\ UnchangedBySwitch

InitSegmentExists(t) ==
    /\ Step(t, "initSegment", IF initSegments[representation] = None
                              THEN "initDownload" ELSE AfterInitSegment(t))
    /\ UNCHANGED <<managerVars, switchVars, initVars, segmentNumber, crashed>>
    /\ UnchangedBySwitch

\* StartDownload has returned, the entry is made, and WaitFinished returns.
DownloadInitSegment(t) ==
    /\ Step(t, "initDownload", AfterInitSegment(t))
    /\ initSegments' = [initSegments EXCEPT ![representation] = representationStream]
    /\ downloads' = [downloads EXCEPT ![representation] = @ + 1]
    /\ UNCHANGED <<managerVars, switchVars, segmentNumber, crashed>>
    /\ UnchangedBySwitch

\* The segments of another period are counted from 0.
ResetPosition(t) ==
    /\ Step(t, "reset", Caller(t))
    /\ segmentNumber' = IF periodChanged THEN 0 ELSE segmentNumber
    /\ periodChanged' = FALSE
    /\ UNCHANGED <<managerVars, representation, adaptationSet, representationStream, initVars,
                   crashed>>
    /\ UnchangedBySwitch

Leave(t) ==
    /\ Step(t, "leave", IF t = Gui THEN "started" ELSE "next")
    /\ monitorMutex' = None
    /\ UNCHANGED <<videoChoice, switchVars, initVars, segmentNumber, crashed>>
    /\ UnchangedBySwitch

SetVideoQuality(t) ==
    \/ Enter(t)
    \/ SetQuality(t)
    \/ Switch(t)
    \/ GetRepresentationStream(t)
    \/ InitSegmentExists(t)
    \/ DownloadInitSegment(t)
    \/ ResetPosition(t)
    \/ Leave(t)

-----------------------------------------------------------------------------
(* DoBuffering, in the buffering thread; it takes no lock of its own *)

UnchangedByBuffering ==
    UNCHANGED <<managerVars, sessionVars, switchVars, initVars, taken, userChanged, missed>>

\* GetNextSegment: the segment, from the stream that is the current one now.
GetMediaSegment ==
    /\ At(Buffering, "next")
    /\ IF SetOf[representationStream] = adaptationSet
       THEN /\ Goto(Buffering, IF segmentNumber >= SegmentCount THEN "setEOS" ELSE "make")
            /\ source' = representationStream
            /\ UNCHANGED crashed
       ELSE crashed' = TRUE /\ UNCHANGED <<source, pc>>
    /\ UNCHANGED <<queueVars, made, segmentNumber, argument>>
    /\ UnchangedByBuffering

\* ... and its MediaObject, with the representation that is the current one now.
NewMediaObject ==
    /\ Step(Buffering, "make", "check")
    /\ made' = Append(made, [label |-> representation, stream |-> source])
    /\ segmentNumber' = segmentNumber + 1
    /\ UNCHANGED <<queueVars, source, argument, crashed>>
    /\ UnchangedByBuffering

\* Mutant: the segment is announced before it is queued.
NotifyFirst ==
    /\ Step(Buffering, "check", IF isBuffering THEN "finished" ELSE "setEOS")
    /\ UNCHANGED <<queueVars, source, made, segmentNumber, argument, crashed>>
    /\ UnchangedByBuffering

StartDownload ==
    /\ Step(Buffering, "check", IF isBuffering THEN "push" ELSE "setEOS")
    /\ UNCHANGED <<queueVars, source, made, segmentNumber, argument, crashed>>
    /\ UnchangedByBuffering

PushBack ==
    /\ At(Buffering, "push")
    /\ \/ Queue!PutBlocks(Buffering) /\ UNCHANGED pc
       \/ Queue!PutAccepted(Buffering) /\ Goto(Buffering, "finished")
       \/ Queue!PutRefused(Buffering) /\ Goto(Buffering, "done")
    /\ UNCHANGED <<source, made, segmentNumber, argument, crashed>>
    /\ UnchangedByBuffering

\* Mutant: the logic may choose from any adaptation set.
DecideAnySet ==
    /\ Step(Buffering, "finished", "enter")
    /\ \E r \in Representations :
          argument' = [argument EXCEPT ![Buffering] = [set |-> videoChoice.set, rep |-> r]]
    /\ UNCHANGED <<queueVars, source, made, segmentNumber, crashed>>
    /\ UnchangedByBuffering

\* WaitFinished has returned.  The logic chooses from the adaptation set it was
\* made for; the set of the call is the manager's, read before the mutex is held.
OnSegmentDownloaded ==
    /\ Step(Buffering, "finished", "enter")
    /\ \E r \in {r \in Representations : SetOf[r] = videoLogic} :
          argument' = [argument EXCEPT ![Buffering] = [set |-> videoChoice.set, rep |-> r]]
    /\ UNCHANGED <<queueVars, source, made, segmentNumber, crashed>>
    /\ UnchangedByBuffering

SetEOSAtEnd ==
    /\ Step(Buffering, "setEOS", "done")
    /\ Queue!Close
    /\ UNCHANGED <<source, made, segmentNumber, argument, crashed>>
    /\ UnchangedByBuffering

DoBuffering ==
    \/ GetMediaSegment
    \/ NewMediaObject
    \/ StartDownload
    \/ PushBack
    \/ OnSegmentDownloaded
    \/ SetEOSAtEnd

-----------------------------------------------------------------------------
(* CreateAVDecoder, in the GUI thread and then in the decoder's *)

UnchangedByDecoding ==
    UNCHANGED <<managerVars, sessionVars, switchVars, initVars, source, segmentNumber,
                argument, crashed, userChanged>>

GetFront(t) ==
    /\ At(t, "getFront")
    /\ \/ Queue!GetBlocks(t) /\ UNCHANGED <<taken, made, pc>>
       \/ /\ Queue!GetHead(t)
          /\ taken' = Head(made).label
          /\ made' = Tail(made)
          /\ Goto(t, "find")
       \/ /\ Queue!GetNothing(t)
          /\ Goto(t, IF t = Gui THEN "setStarted" ELSE "done")
          /\ UNCHANGED <<taken, made>>
    /\ UNCHANGED missed
    /\ UnchangedByDecoding

\* The init segment of the representation that the segment is labelled with.
FindInitSegment(t) ==
    /\ At(t, "find")
    /\ missed' = (missed \/ initSegments[taken] = None)
    /\ pc' = [pc EXCEPT ![Decoder] = "decode", ![Gui] = IF t = Gui THEN "setStarted" ELSE @]
    /\ UNCHANGED <<queueVars, taken, made>>
    /\ UnchangedByDecoding

\* The chain goes on, or ends as PlaybackSession says; it ends when it is stopped.
OnDecodingFinished ==
    /\ At(Decoder, "decode")
    /\ \E next \in (IF isBuffering THEN {"getFront", "done"} ELSE {"done"}) : Goto(Decoder, next)
    /\ UNCHANGED <<queueVars, taken, made, missed>>
    /\ UnchangedByDecoding

CreateAVDecoder(t) == GetFront(t) \/ FindInitSegment(t)

-----------------------------------------------------------------------------
(* MultimediaManager::Start and Stop, and the user's settings, in the GUI thread *)

\* InitVideoRendering, whose SetRepresentation is the one above.
Start ==
    /\ monitorMutex = None
    /\ Step(Gui, "idle", "switch")
    /\ monitorMutex' = Gui
    /\ videoLogic' = videoChoice.set
    /\ argument' = [argument EXCEPT ![Gui] = videoChoice]
    /\ UNCHANGED <<queueVars, videoChoice, isStarted, isBuffering, switchVars, initVars,
                   mediaVars, segmentNumber, crashed, userChanged, missed>>

StartReceiver ==
    /\ At(Gui, "startReceiver")
    /\ segmentNumber' = 0
    /\ isBuffering' = TRUE
    /\ pc' = [pc EXCEPT ![Gui] = "getFront", ![Buffering] = "initSegment"]
    /\ UNCHANGED <<queueVars, managerVars, isStarted, videoLogic, switchVars, initVars,
                   mediaVars, argument, crashed, userChanged, missed>>

SetStarted ==
    /\ Step(Gui, "setStarted", "started")
    /\ isStarted' = TRUE
    /\ monitorMutex' = None
    /\ UNCHANGED <<queueVars, videoChoice, videoLogic, isBuffering, switchVars, initVars,
                   mediaVars, segmentNumber, argument, crashed, userChanged, missed>>

\* OnSettingsChanged does nothing when the settings are what they were.  But they
\* hold the choice of the audio too: when only that changes, the choice of the
\* video is set again, over what the logic may have chosen since.
OnSettingsChanged(choice) ==
    /\ Len(userChanged) < MaxChanges
    /\ Step(Gui, "started", "enter")
    /\ argument' = [argument EXCEPT ![Gui] = choice]
    /\ userChanged' = Append(userChanged, choice.set # argument[Gui].set)
    /\ UNCHANGED <<queueVars, managerVars, sessionVars, switchVars, initVars, mediaVars,
                   segmentNumber, crashed, missed>>

UnchangedByStop ==
    UNCHANGED <<videoChoice, switchVars, initVars, mediaVars, segmentNumber, argument, crashed,
                userChanged, missed>>

\* Mutant: Stop holds monitorMutex, as its comment has it.
StopLocked ==
    /\ monitorMutex = None
    /\ Step(Gui, "started", "closeQueue")
    /\ monitorMutex' = Gui
    /\ isBuffering' = FALSE
    /\ UNCHANGED <<queueVars, isStarted, videoLogic>>
    /\ UnchangedByStop

Stop ==
    /\ Step(Gui, "started", "closeQueue")
    /\ isBuffering' = FALSE
    /\ UNCHANGED <<queueVars, monitorMutex, isStarted, videoLogic>>
    /\ UnchangedByStop

CloseQueue ==
    /\ Step(Gui, "closeQueue", "joinBuffering")
    /\ Queue!Close
    /\ UNCHANGED <<monitorMutex, sessionVars>>
    /\ UnchangedByStop

JoinBuffering ==
    /\ pc[Buffering] = "done"
    /\ Step(Gui, "joinBuffering", "joinDecoder")
    /\ UNCHANGED <<queueVars, monitorMutex, sessionVars>>
    /\ UnchangedByStop

JoinDecoder ==
    /\ pc[Decoder] \in {"none", "done"}
    /\ Step(Gui, "joinDecoder", "stopped")
    /\ isStarted' = FALSE
    /\ UNCHANGED <<queueVars, monitorMutex, videoLogic, isBuffering>>
    /\ UnchangedByStop

GuiGoesOn == StartReceiver \/ SetStarted \/ CloseQueue \/ JoinBuffering \/ JoinDecoder

-----------------------------------------------------------------------------

Next ==
    \/ Start
    \/ GuiGoesOn
    \/ Stop
    \/ \E r \in Representations : OnSettingsChanged(Choice(r))
    \/ \E t \in Switching : SetVideoQuality(t)
    \/ \E t \in Decoding : CreateAVDecoder(t)
    \/ DoBuffering
    \/ OnDecodingFinished

Spec == Init /\ [][Next]_vars

\* Threads are scheduled, downloads end, segments are decoded.  The user need
\* not press anything, but what was begun goes on.
Fairness ==
    /\ WF_vars(GuiGoesOn)
    /\ WF_vars(DoBuffering)
    /\ WF_vars(OnDecodingFinished)
    /\ \A t \in Switching : WF_vars(SetVideoQuality(t))
    /\ \A t \in Decoding : WF_vars(CreateAVDecoder(t))

FairSpec == Spec /\ Fairness

-----------------------------------------------------------------------------
(* Properties *)

Places == {"idle", "none", "enter", "assign", "switch", "lookup", "initSegment", "initDownload",
           "reset", "leave", "next", "make", "check", "push", "finished", "setEOS", "done",
           "getFront", "find", "decode", "setStarted", "startReceiver", "started", "closeQueue",
           "joinBuffering", "joinDecoder", "stopped"}

\* Every variable has its type; no segment number is past the end.
TypeOK ==
    /\ queue \in Seq(Nat) /\ Len(queue) <= Capacity
    /\ accepted \in Nat
    /\ closed \in BOOLEAN
    /\ blocked \in [Threads -> {"put", "get", "nothing"}]
    /\ monitorMutex \in Switching \cup {None}
    /\ isStarted \in BOOLEAN
    /\ videoLogic \in AdaptationSets
    /\ videoChoice \in Choices
    /\ representation \in Representations
    /\ adaptationSet \in AdaptationSets
    /\ representationStream \in Representations
    /\ periodChanged \in BOOLEAN
    /\ initSegments \in [Representations -> Representations \cup {None}]
    /\ segmentNumber \in 0..SegmentCount
    /\ isBuffering \in BOOLEAN
    /\ argument \in [Switching -> Choices]
    /\ source \in Representations
    /\ made \in Seq([label : Representations, stream : Representations])
    /\ Len(made) \in Len(queue)..Len(queue) + 1
    /\ taken \in Representations
    /\ pc \in [Threads -> Places]
    /\ crashed \in BOOLEAN
    /\ userChanged \in Seq(BOOLEAN) /\ Len(userChanged) <= MaxChanges
    /\ downloads \in [Representations -> Nat]
    /\ missed \in BOOLEAN

Inside(t) == pc[t] \in {"assign", "switch", "lookup", "initSegment", "initDownload", "reset"}

ChangedSet == \E i \in DOMAIN userChanged : userChanged[i]

\* Two threads choose representations.  When neither is at it, the representation
\* that the manager has is the one whose segments the receiver fetches.  So is
\* the adaptation set, unless the user changes it: the buffering thread may pass
\* on a set that it read before the change.
ManagerAndReceiverAgree ==
    isStarted /\ ~crashed /\ (\A t \in Switching : ~Inside(t)) =>
        /\ videoChoice.rep = representation
        /\ representationStream = representation
        /\ ChangedSet \/ videoChoice.set = adaptationSet

\* Whatever is chosen meanwhile, an init segment that is kept for a representation
\* is the one of that representation.  And although DoBuffering asks for its first
\* one without the mutex, none is ever downloaded twice (the second would replace,
\* and leak, the first, which a decoder may be reading).
InitSegmentsKept ==
    \A r \in Representations : initSegments[r] \in {r, None} /\ downloads[r] <= 1

\* As long as only the adaptation logic switches, every segment is labelled with
\* the representation that it is from, and is decoded with its init segment.
LogicSwitchesCleanly ==
    userChanged = <<>> =>
        /\ ~missed
        /\ \A i \in DOMAIN made : made[i].label = made[i].stream

\* As long as the user stays in the adaptation set the session began with, no
\* thread uses a stream that was deleted or was never there.
SafeWithinSet == crashed => ChangedSet

\* Start holds monitorMutex until the first segment is there, and returns: the
\* buffering thread delivers that segment before it asks for the mutex.
StartReturns == pc[Gui] = "startReceiver" ~> pc[Gui] = "started"

\* Stop takes no mutex, and returns wherever it finds a switch, unless the
\* process is gone.
StopCompletes == pc[Gui] = "closeQueue" ~> pc[Gui] = "stopped" \/ crashed
=============================================================================
