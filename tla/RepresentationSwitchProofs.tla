--------------------- MODULE RepresentationSwitchProofs ---------------------
(***************************************************************************)
(* Theorems about RepresentationSwitch, for every MPD, every capacity and  *)
(* any number of changes by the user.  The inductive invariant says where  *)
(* the threads can be together, what the holder of monitorMutex has made   *)
(* of the manager's and the receiver's choice at each place, and, as long  *)
(* as the user keeps to the adaptation set or leaves the settings alone,   *)
(* that no other set or representation has got in.                         *)
(***************************************************************************)
EXTENDS RepresentationSwitch, FiniteSetTheorems, TLAPS

(* The places inside SetRepresentation, and those of each thread. *)
SwitchPlaces == {"switch", "lookup", "initSegment", "initDownload", "reset"}
StartPlaces  == {"startReceiver", "getFront", "find", "setStarted"}
PlayPlaces   == {"started", "enter", "assign", "leave", "closeQueue", "joinBuffering",
                 "joinDecoder"}

PlacesOK ==
    /\ pc[Gui] \in {"idle", "stopped"} \cup SwitchPlaces \cup StartPlaces \cup PlayPlaces
    /\ pc[Buffering] \in {"none", "next", "make", "check", "push", "finished", "enter",
                          "assign", "leave", "setEOS", "done"} \cup SwitchPlaces
    /\ pc[Decoder] \in {"none", "getFront", "find", "decode", "done"}

(* The GUI thread has not created the buffering thread yet. *)
Before == pc[Gui] \in {"idle", "startReceiver"} \/ (pc[Gui] \in SwitchPlaces /\ ~isStarted)

(* Which threads exist, and what is in the queue before they do. *)
Phases ==
    /\ pc[Gui] \in {"idle", "stopped"} \cup StartPlaces => ~isStarted
    /\ pc[Gui] \in PlayPlaces => isStarted
    /\ Before <=> pc[Buffering] = "none"
    /\ Before \/ pc[Gui] \in {"getFront", "find"} => pc[Decoder] = "none"
    /\ Before => queue = <<>>
    /\ closed => pc[Buffering] = "done" \/ pc[Gui] \in {"joinBuffering", "joinDecoder", "stopped"}

(* DoBuffering is at its first init segment, for which it takes no mutex:   *)
(* the GUI thread holds it and waits for the first segment.                 *)
FirstInit == pc[Buffering] \in {"initSegment", "initDownload"} /\ monitorMutex # Buffering

(* Who holds monitorMutex. *)
Exclusion ==
    /\ \A t \in Switching : pc[t] \in {"assign", "switch", "lookup", "reset", "leave"}
                                => monitorMutex = t
    /\ pc[Gui] \in {"initSegment", "initDownload"} \cup StartPlaces => monitorMutex = Gui
    /\ FirstInit => pc[Gui] = "getFront" /\ queue = <<>>

(* A thread that has begun to change the choice and is not done. *)
Changing(t) ==
    \/ pc[t] \in {"switch", "lookup", "reset"}
    \/ pc[t] \in {"initSegment", "initDownload"} /\ monitorMutex = t

Agree ==
    /\ videoChoice.rep = representation
    /\ representationStream = representation
    /\ ChangedSet \/ videoChoice.set = adaptationSet

(* What the thread that changes the choice has got to. *)
Changed(t) ==
    /\ Changing(t) => videoChoice = argument[t]
    /\ pc[t] = "switch" => representationStream = representation
    /\ Changing(t) /\ pc[t] # "switch" =>
          representation = argument[t].rep /\ adaptationSet = argument[t].set
    /\ Changing(t) /\ pc[t] \notin {"switch", "lookup"} => representationStream = representation

(* Start's switch is the first one. *)
FirstSwitch == pc[Gui] = "idle" \/ (pc[Gui] = "switch" /\ ~isStarted)

(* The choice at each place of a change, before the first and between them. *)
Agreement ==
    /\ \A t \in Switching : Changed(t)
    /\ FirstSwitch => representationStream = representation /\ adaptationSet = SetOf[representation]
    /\ pc[Gui] # "idle" /\ (\A t \in Switching : ~Changing(t)) => Agree

(* Init segments and their downloads. *)
InitSegments ==
    /\ \A r \in Representations :
          /\ initSegments[r] \in {r, None}
          /\ downloads[r] = IF initSegments[r] = None THEN 0 ELSE 1
    /\ \A t \in Switching : pc[t] = "initDownload" => initSegments[representation] = None

(* Segment numbers, and the segments that are made and not yet queued. *)
Making ==
    /\ pc[Buffering] = "make" => segmentNumber < SegmentCount
    /\ pc[Buffering] \in {"check", "push"} => Len(made) = Len(queue) + 1
    /\ pc[Buffering] \notin {"check", "push", "setEOS", "done"} => Len(made) = Len(queue)

(* As long as the user stays in the adaptation set there is no other one. *)
OneSet ==
    ~ChangedSet =>
        /\ ~crashed
        /\ videoChoice.set = videoLogic /\ SetOf[videoChoice.rep] = videoLogic
        /\ \A t \in Switching :
              argument[t].set = videoLogic /\ SetOf[argument[t].rep] = videoLogic
        /\ pc[Buffering] # "none" =>
              adaptationSet = videoLogic /\ SetOf[representationStream] = videoLogic

(* As long as the user changes nothing, only the buffering thread switches. *)
OneSwitcher ==
    userChanged = <<>> =>
        /\ pc[Buffering] # "none" => pc[Gui] \notin SwitchPlaces \cup {"enter", "assign", "leave"}
        /\ pc[Buffering] \notin {"none", "lookup", "initSegment", "initDownload"}
              => initSegments[representation] # None
        /\ pc[Buffering] = "make" => source = representation
        /\ \A i \in DOMAIN made : /\ made[i].label = made[i].stream
                                  /\ initSegments[made[i].label] # None
        /\ \A t \in Decoding : pc[t] = "find" => initSegments[taken] # None
        /\ ~missed

IInv ==
    /\ TypeOK
    /\ PlacesOK
    /\ Phases
    /\ Exclusion
    /\ Agreement
    /\ InitSegments
    /\ Making
    /\ OneSet
    /\ OneSwitcher

-----------------------------------------------------------------------------

USE DEF At, Goto, Step, vars, queueVars, managerVars, sessionVars, switchVars, initVars,
        mediaVars, Threads, Switching, Decoding

(* Four things that are four are different. *)
LEMMA AtMostThree ==
    ASSUME NEW a, NEW b, NEW c PROVE Cardinality({a, b, c}) # 4
<1>1. IsFiniteSet({c}) /\ Cardinality({c}) = 1
    BY FS_Singleton
<1>2. IsFiniteSet({b, c}) /\ Cardinality({b, c}) \in {1, 2}
    <2>1. {b, c} = {c} \cup {b}
        OBVIOUS
    <2>2. QED
        BY <1>1, <2>1, FS_AddElement
<1>3. {a, b, c} = {b, c} \cup {a}
    OBVIOUS
<1>4. QED
    BY <1>2, <1>3, FS_AddElement

LEMMA Distinct ==
    /\ Gui # Buffering /\ Gui # Decoder /\ Gui # None
    /\ Buffering # Decoder /\ Buffering # None /\ Decoder # None
<1>1. ASSUME NEW a, NEW b, NEW c, {Gui, Buffering, Decoder, None} = {a, b, c} PROVE FALSE
    BY <1>1, AtMostThree, SwitchAssumption
<1>2. Gui # Buffering
    BY <1>1, Gui = Buffering => {Gui, Buffering, Decoder, None} = {Gui, Decoder, None}
<1>3. Gui # Decoder
    BY <1>1, Gui = Decoder => {Gui, Buffering, Decoder, None} = {Gui, Buffering, None}
<1>4. Gui # None
    BY <1>1, Gui = None => {Gui, Buffering, Decoder, None} = {Gui, Buffering, Decoder}
<1>5. Buffering # Decoder
    BY <1>1, Buffering = Decoder => {Gui, Buffering, Decoder, None} = {Gui, Buffering, None}
<1>6. Buffering # None
    BY <1>1, Buffering = None => {Gui, Buffering, Decoder, None} = {Gui, Buffering, Decoder}
<1>7. Decoder # None
    BY <1>1, Decoder = None => {Gui, Buffering, Decoder, None} = {Gui, Buffering, Decoder}
<1>8. QED
    BY <1>2, <1>3, <1>4, <1>5, <1>6, <1>7

(* What a step leaves of the queue. *)
LEMMA QueueSteps ==
    ASSUME [Next]_vars
    PROVE  UNCHANGED queueVars \/ GetFront(Gui) \/ GetFront(Decoder) \/ PushBack
                                \/ SetEOSAtEnd \/ CloseQueue
<1>1. CASE UNCHANGED vars
    BY <1>1
<1>2. ASSUME NEW t \in Switching, SetVideoQuality(t) PROVE UNCHANGED queueVars
    BY <1>2 DEF SetVideoQuality, Enter, SetQuality, Switch, GetRepresentationStream,
                InitSegmentExists, DownloadInitSegment, ResetPosition, Leave, UnchangedBySwitch
<1>3. QED
    BY <1>1, <1>2 DEF Next, GuiGoesOn, Start, Stop, StartReceiver, SetStarted, JoinBuffering,
        JoinDecoder, OnSettingsChanged, UnchangedByStop, CreateAVDecoder, FindInitSegment,
        DoBuffering, GetMediaSegment, NewMediaObject, StartDownload, OnSegmentDownloaded,
        OnDecodingFinished

-----------------------------------------------------------------------------
(* Types *)

Segment == [label : Representations, stream : Representations]

QueueType ==
    /\ queue \in Seq(Nat) /\ Len(queue) <= Capacity
    /\ accepted \in Nat
    /\ closed \in BOOLEAN
    /\ blocked \in [Threads -> {"put", "get", "nothing"}]

MadeType == made \in Seq(Segment) /\ Len(made) \in Len(queue)..Len(queue) + 1

ManagerType ==
    /\ monitorMutex \in Switching \cup {None}
    /\ isStarted \in BOOLEAN
    /\ isBuffering \in BOOLEAN
    /\ videoLogic \in AdaptationSets
    /\ videoChoice \in Choices
    /\ argument \in [Switching -> Choices]
    /\ crashed \in BOOLEAN
    /\ missed \in BOOLEAN
    /\ userChanged \in Seq(BOOLEAN) /\ Len(userChanged) <= MaxChanges

PlaceType == pc \in [Threads -> Places]

ReceiverType ==
    /\ representation \in Representations
    /\ adaptationSet \in AdaptationSets
    /\ representationStream \in Representations
    /\ periodChanged \in BOOLEAN
    /\ initSegments \in [Representations -> Representations \cup {None}]
    /\ downloads \in [Representations -> Nat]
    /\ segmentNumber \in 0..SegmentCount
    /\ source \in Representations
    /\ taken \in Representations

LEMMA TypeParts ==
    TypeOK <=> QueueType /\ MadeType /\ ManagerType /\ PlaceType /\ ReceiverType
    BY DEF TypeOK, QueueType, MadeType, ManagerType, PlaceType, ReceiverType, Segment

(* The queue keeps its type, whoever uses it. *)
LEMMA QueuePut ==
    ASSUME NEW t \in Threads, QueueType,
           Queue!PutBlocks(t) \/ Queue!PutAccepted(t) \/ Queue!PutRefused(t)
    PROVE  QueueType'
<1> USE DEF QueueType
<1>1. blocked' \in [Threads -> {"put", "get", "nothing"}]
    BY DEF Queue!PutBlocks, Queue!PutAccepted, Queue!PutRefused, Queue!Block, Queue!Return
<1>2. CASE Queue!PutAccepted(t)
    <2>1. /\ Append(queue, accepted + 1) \in Seq(Nat)
          /\ Len(Append(queue, accepted + 1)) = Len(queue) + 1
        OBVIOUS
    <2>2. QED
        BY <1>1, <1>2, <2>1, SwitchAssumption DEF Queue!PutAccepted
<1>3. CASE Queue!PutBlocks(t) \/ Queue!PutRefused(t)
    BY <1>1, <1>3 DEF Queue!PutBlocks, Queue!PutRefused
<1>4. QED
    BY <1>2, <1>3

LEMMA QueueGet ==
    ASSUME NEW t \in Threads, QueueType,
           Queue!GetBlocks(t) \/ Queue!GetHead(t) \/ Queue!GetNothing(t)
    PROVE  QueueType'
<1> USE DEF QueueType
<1>1. blocked' \in [Threads -> {"put", "get", "nothing"}]
    BY DEF Queue!GetBlocks, Queue!GetHead, Queue!GetNothing, Queue!Block, Queue!Return
<1>2. CASE Queue!GetHead(t)
    <2>1. queue # <<>> => Tail(queue) \in Seq(Nat) /\ Len(Tail(queue)) = Len(queue) - 1
        OBVIOUS
    <2>2. QED
        BY <1>1, <1>2, <2>1, SwitchAssumption DEF Queue!GetHead
<1>3. CASE Queue!GetBlocks(t) \/ Queue!GetNothing(t)
    BY <1>1, <1>3 DEF Queue!GetBlocks, Queue!GetNothing
<1>4. QED
    BY <1>2, <1>3

LEMMA QueueTypeStep == QueueType /\ [Next]_vars => QueueType'
<1> SUFFICES ASSUME QueueType, [Next]_vars PROVE QueueType'
    OBVIOUS
<1>1. CASE UNCHANGED queueVars
    BY <1>1 DEF QueueType
<1>2. ASSUME NEW t \in Decoding, GetFront(t) PROVE QueueType'
    BY <1>2, QueueGet DEF GetFront
<1>3. CASE PushBack
    BY <1>3, QueuePut DEF PushBack
<1>4. CASE SetEOSAtEnd \/ CloseQueue
    BY <1>4 DEF QueueType, SetEOSAtEnd, CloseQueue, Queue!Close
<1>5. QED
    BY <1>1, <1>2, <1>3, <1>4, QueueSteps

LEMMA MakingStep ==
    TypeOK /\ Phases /\ Making /\ [Next]_vars => MadeType' /\ Making'
<1> SUFFICES ASSUME QueueType, MadeType, PlaceType, ReceiverType, Phases, Making,
                    [Next]_vars
             PROVE  MadeType' /\ Making'
    BY TypeParts
<1> USE Distinct DEF SwitchPlaces
<1>1. CASE UNCHANGED vars
    BY <1>1 DEF MadeType, Making
<1>2. ASSUME NEW t \in Switching, SetVideoQuality(t) PROVE MadeType' /\ Making'
    <2>1. UNCHANGED <<queue, made>>
        BY <1>2 DEF SetVideoQuality, Enter, SetQuality, Switch, GetRepresentationStream,
                InitSegmentExists, DownloadInitSegment, ResetPosition, Leave, UnchangedBySwitch
    <2>2. segmentNumber' \in {0, segmentNumber}
        BY <1>2 DEF SetVideoQuality, Enter, SetQuality, Switch, GetRepresentationStream,
                InitSegmentExists, DownloadInitSegment, ResetPosition, Leave
    <2>3. /\ pc'[Buffering] # pc[Buffering] =>
                /\ pc[Buffering] \in SwitchPlaces \cup {"enter", "assign", "leave"}
                /\ pc'[Buffering] \in SwitchPlaces \cup {"assign", "leave", "next"}
        BY <1>2 DEF SetVideoQuality, Enter, SetQuality, Switch, GetRepresentationStream,
                InitSegmentExists, DownloadInitSegment, ResetPosition, Leave, Caller,
                AfterInitSegment, PlaceType
    <2>4. QED
        BY <2>1, <2>2, <2>3, SwitchAssumption DEF MadeType, Making
<1>3. CASE PushBack
    <2>1. made' = made /\ pc[Buffering] = "push" /\ Len(made) = Len(queue) + 1
        BY <1>3 DEF PushBack, Making
    <2>2. \/ queue' = queue /\ pc'[Buffering] \in {"push", "done"}
          \/ queue' = Append(queue, accepted + 1) /\ pc'[Buffering] = "finished"
        BY <1>3 DEF PushBack, Queue!PutBlocks, Queue!PutAccepted, Queue!PutRefused, PlaceType
    <2>3. Len(Append(queue, accepted + 1)) = Len(queue) + 1
        BY DEF QueueType
    <2>4. QED
        BY <2>1, <2>2, <2>3 DEF MadeType, Making, QueueType
<1>4. CASE NewMediaObject
    <2>1. /\ made' = Append(made, [label |-> representation, stream |-> source])
          /\ pc[Buffering] = "make" /\ pc'[Buffering] = "check" /\ queue' = queue
        BY <1>4 DEF NewMediaObject, PlaceType
    <2>2. [label |-> representation, stream |-> source] \in Segment
        BY DEF ReceiverType, Segment
    <2>3. made' \in Seq(Segment) /\ Len(made') = Len(made) + 1
        BY <2>1, <2>2 DEF MadeType
    <2>4. QED
        BY <2>1, <2>3 DEF MadeType, Making, QueueType
<1>5. CASE GetMediaSegment \/ StartDownload \/ OnSegmentDownloaded \/ SetEOSAtEnd
    <2>1. UNCHANGED <<queue, made, segmentNumber>>
        BY <1>5 DEF GetMediaSegment, StartDownload, OnSegmentDownloaded, SetEOSAtEnd, Queue!Close
    <2>2. MadeType'
        BY <2>1 DEF MadeType
    <2>3. QED
        BY <1>5, <2>1, <2>2, SwitchAssumption
        DEF GetMediaSegment, StartDownload, OnSegmentDownloaded, SetEOSAtEnd, Making,
            PlaceType, ReceiverType
<1>6. ASSUME NEW t \in Decoding, GetFront(t) PROVE MadeType' /\ Making'
    <2>1. \/ queue' = queue /\ made' = made
          \/ queue # <<>> /\ queue' = Tail(queue) /\ made' = Tail(made)
        BY <1>6 DEF GetFront, Queue!GetBlocks, Queue!GetHead, Queue!GetNothing
    <2>2. pc'[Buffering] = pc[Buffering] /\ segmentNumber' = segmentNumber
        BY <1>6 DEF GetFront, UnchangedByDecoding, PlaceType
    <2>3. queue # <<>> => /\ Len(Tail(queue)) = Len(queue) - 1
                          /\ Len(queue) > 0 /\ made # <<>>
                          /\ Tail(made) \in Seq(Segment) /\ Len(Tail(made)) = Len(made) - 1
        BY DEF QueueType, MadeType
    <2>4. Len(queue) \in Nat /\ Len(made) \in Nat
        BY DEF QueueType, MadeType
    <2>5. Len(made') - Len(queue') = Len(made) - Len(queue)
        BY <2>1, <2>3, <2>4
    <2>6. made' \in Seq(Segment)
        BY <2>1, <2>3 DEF MadeType
    <2>7. Len(queue') \in Nat /\ Len(made') \in Nat
        BY <2>1, <2>3, <2>4
    <2>8. MadeType'
        BY <2>4, <2>5, <2>6, <2>7 DEF MadeType, Segment
    <2>9. Making'
        BY <2>2, <2>4, <2>5, <2>7 DEF Making
    <2>10. QED
        BY <2>8, <2>9
<1>7. ASSUME NEW t \in Decoding, FindInitSegment(t) PROVE MadeType' /\ Making'
    BY <1>7 DEF FindInitSegment, UnchangedByDecoding, MadeType, Making, PlaceType
<1>8. CASE OnDecodingFinished
    BY <1>8 DEF OnDecodingFinished, UnchangedByDecoding, MadeType, Making, PlaceType
<1>9. CASE Start \/ GuiGoesOn \/ Stop
    BY <1>9, SwitchAssumption
    DEF Start, GuiGoesOn, Stop, StartReceiver, SetStarted, CloseQueue, JoinBuffering,
        JoinDecoder, UnchangedByStop, Phases, Before, Queue!Close, MadeType, Making, PlaceType
<1>10. ASSUME NEW choice, OnSettingsChanged(choice) PROVE MadeType' /\ Making'
    BY <1>10 DEF OnSettingsChanged, MadeType, Making, PlaceType
<1>11. QED
    BY <1>1, <1>2, <1>3, <1>4, <1>5, <1>6, <1>7, <1>8, <1>9, <1>10
    DEF Next, DoBuffering, CreateAVDecoder

LEMMA PlaceTypeStep == TypeOK /\ [Next]_vars => PlaceType'
<1> SUFFICES ASSUME PlaceType, [Next]_vars PROVE PlaceType'
    BY TypeParts
<1> USE DEF PlaceType, Places
<1>1. CASE UNCHANGED vars
    BY <1>1
<1>2. ASSUME NEW t \in Switching, SetVideoQuality(t) PROVE PlaceType'
    BY <1>2 DEF SetVideoQuality, Enter, SetQuality, Switch, GetRepresentationStream,
                InitSegmentExists, DownloadInitSegment, ResetPosition, Leave,
                Caller, AfterInitSegment
<1>3. CASE DoBuffering
    BY <1>3 DEF DoBuffering, PushBack, NewMediaObject, GetMediaSegment, StartDownload,
                OnSegmentDownloaded, SetEOSAtEnd
<1>4. ASSUME NEW t \in Decoding, CreateAVDecoder(t) PROVE PlaceType'
    BY <1>4 DEF CreateAVDecoder, GetFront, FindInitSegment
<1>5. CASE OnDecodingFinished
    BY <1>5 DEF OnDecodingFinished
<1>6. CASE Start \/ GuiGoesOn \/ Stop
    BY <1>6 DEF Start, GuiGoesOn, Stop, StartReceiver, SetStarted, CloseQueue, JoinBuffering,
                JoinDecoder
<1>7. ASSUME NEW choice, OnSettingsChanged(choice) PROVE PlaceType'
    BY <1>7 DEF OnSettingsChanged
<1>8. QED
    BY <1>1, <1>2, <1>3, <1>4, <1>5, <1>6, <1>7 DEF Next

LEMMA ManagerTypeStep == TypeOK /\ [Next]_vars => ManagerType'
<1> SUFFICES ASSUME ManagerType, ReceiverType, [Next]_vars PROVE ManagerType'
    BY TypeParts
<1> USE DEF ManagerType, ReceiverType, Choices
<1>1. CASE UNCHANGED vars
    BY <1>1
<1>2. ASSUME NEW t \in Switching, SetVideoQuality(t) PROVE ManagerType'
    BY <1>2 DEF SetVideoQuality, Enter, SetQuality, Switch, GetRepresentationStream,
                InitSegmentExists, DownloadInitSegment, ResetPosition, Leave, UnchangedBySwitch,
                Caller, AfterInitSegment
<1>3. CASE PushBack \/ NewMediaObject \/ GetMediaSegment \/ StartDownload \/ SetEOSAtEnd
    BY <1>3 DEF PushBack, NewMediaObject, GetMediaSegment, StartDownload, SetEOSAtEnd,
                UnchangedByBuffering
<1>4. CASE OnSegmentDownloaded
    BY <1>4 DEF OnSegmentDownloaded, UnchangedByBuffering
<1>5. ASSUME NEW t \in Decoding, CreateAVDecoder(t) PROVE ManagerType'
    BY <1>5 DEF CreateAVDecoder, GetFront, FindInitSegment, UnchangedByDecoding
<1>6. CASE OnDecodingFinished
    BY <1>6 DEF OnDecodingFinished, UnchangedByDecoding
<1>7. CASE Start \/ GuiGoesOn \/ Stop
    BY <1>7 DEF Start, GuiGoesOn, Stop, StartReceiver, SetStarted, CloseQueue, JoinBuffering,
                JoinDecoder, UnchangedByStop
<1>8. ASSUME NEW r \in Representations, OnSettingsChanged(Choice(r)) PROVE ManagerType'
    <2>1. Choice(r) \in Choices
        BY SwitchAssumption DEF Choice
    <2>2. argument' \in [Switching -> Choices]
        BY <1>8, <2>1 DEF OnSettingsChanged
    <2>3. userChanged' \in Seq(BOOLEAN) /\ Len(userChanged') <= MaxChanges
        BY <1>8, SwitchAssumption DEF OnSettingsChanged
    <2>4. QED
        BY <1>8, <2>2, <2>3 DEF OnSettingsChanged
<1>9. QED
    BY <1>1, <1>2, <1>3, <1>4, <1>5, <1>6, <1>7, <1>8 DEF Next, DoBuffering

LEMMA ReceiverTypeStep == TypeOK /\ Making /\ [Next]_vars => ReceiverType'
<1> SUFFICES ASSUME ManagerType, ReceiverType, MadeType, QueueType, Making, [Next]_vars
             PROVE  ReceiverType'
    BY TypeParts
<1> USE SwitchAssumption DEF ReceiverType
<1>1. CASE UNCHANGED vars
    BY <1>1
<1>2. ASSUME NEW t \in Switching, SetVideoQuality(t) PROVE ReceiverType'
    <2>1. CASE DownloadInitSegment(t)
        BY <2>1 DEF DownloadInitSegment, UnchangedBySwitch
    <2>2. CASE Switch(t)
        <3>1. argument[t] \in Choices
            BY DEF ManagerType
        <3>2. argument[t].rep \in Representations /\ argument[t].set \in AdaptationSets
            BY <3>1 DEF Choices
        <3>3. QED
            BY <2>2, <3>2 DEF Switch, UnchangedBySwitch
    <2>3. CASE GetRepresentationStream(t) \/ ResetPosition(t)
        <3>1. segmentNumber' \in 0..SegmentCount
            BY <2>3 DEF GetRepresentationStream, ResetPosition
        <3>2. UNCHANGED <<representation, adaptationSet, initVars, source, taken>>
            BY <2>3 DEF GetRepresentationStream, ResetPosition, UnchangedBySwitch
        <3>3. representationStream' \in Representations /\ periodChanged' \in BOOLEAN
            BY <2>3 DEF GetRepresentationStream, ResetPosition
        <3>4. QED
            BY <3>1, <3>2, <3>3
    <2>4. CASE Enter(t) \/ SetQuality(t) \/ InitSegmentExists(t) \/ Leave(t)
        BY <2>4 DEF Enter, SetQuality, InitSegmentExists, Leave, UnchangedBySwitch
    <2>5. QED
        BY <1>2, <2>1, <2>2, <2>3, <2>4 DEF SetVideoQuality
<1>3. CASE PushBack \/ GetMediaSegment \/ StartDownload \/ SetEOSAtEnd \/ OnSegmentDownloaded
    BY <1>3 DEF PushBack, GetMediaSegment, StartDownload, SetEOSAtEnd, OnSegmentDownloaded,
                UnchangedByBuffering
<1>4. CASE NewMediaObject
    BY <1>4 DEF NewMediaObject, UnchangedByBuffering, Making
<1>5. ASSUME NEW t \in Decoding, GetFront(t) PROVE ReceiverType'
    <2>1. queue # <<>> => Head(made) \in Segment
        BY DEF QueueType, MadeType
    <2>2. queue # <<>> => Head(made).label \in Representations
        BY <2>1 DEF Segment
    <2>3. QED
        BY <1>5, <2>2 DEF GetFront, Queue!GetHead, UnchangedByDecoding
<1>6. ASSUME NEW t \in Decoding, FindInitSegment(t) PROVE ReceiverType'
    BY <1>6 DEF FindInitSegment, UnchangedByDecoding
<1>7. CASE OnDecodingFinished
    BY <1>7 DEF OnDecodingFinished, UnchangedByDecoding
<1>8. CASE Start \/ GuiGoesOn \/ Stop
    BY <1>8 DEF Start, GuiGoesOn, Stop, StartReceiver, SetStarted, CloseQueue, JoinBuffering,
                JoinDecoder, UnchangedByStop
<1>9. ASSUME NEW choice, OnSettingsChanged(choice) PROVE ReceiverType'
    BY <1>9 DEF OnSettingsChanged
<1>10. QED
    BY <1>1, <1>2, <1>3, <1>4, <1>5, <1>6, <1>7, <1>8, <1>9 DEF Next, DoBuffering, CreateAVDecoder

LEMMA TypeStep == TypeOK /\ Phases /\ Making /\ [Next]_vars => TypeOK' /\ Making'
<1> SUFFICES ASSUME TypeOK, Phases, Making, [Next]_vars PROVE TypeOK' /\ Making'
    OBVIOUS
<1>1. QueueType' /\ MadeType' /\ ManagerType' /\ PlaceType' /\ ReceiverType' /\ Making'
    BY TypeParts, QueueTypeStep, MakingStep, ManagerTypeStep, PlaceTypeStep, ReceiverTypeStep
<1>2. QED
    BY <1>1 DEF TypeOK, QueueType, MadeType, ManagerType, PlaceType, ReceiverType, Segment

-----------------------------------------------------------------------------
(* Where the threads can be, and who holds the mutex *)

(* How a thread goes through SetVideoQuality. *)
LEMMA SwitchMoves ==
    ASSUME NEW t \in Switching, PlaceType, Exclusion, SetVideoQuality(t)
    PROVE  /\ \A u \in Threads \ {t} : pc'[u] = pc[u]
           /\ pc[t] \in SwitchPlaces \cup {"enter", "assign", "leave"}
           /\ \/ pc'[t] \in SwitchPlaces \cup {"assign", "leave"}
              \/ pc'[t] = "startReceiver" /\ t = Gui /\ ~isStarted
              \/ pc'[t] = "started" /\ t = Gui
              \/ pc'[t] = "next" /\ t = Buffering
<1> USE DEF PlaceType, SwitchPlaces
<1>1. CASE DownloadInitSegment(t)
    <2>1. pc[t] = "initDownload" /\ pc' = [pc EXCEPT ![t] = AfterInitSegment(t)]
        BY <1>1 DEF DownloadInitSegment
    <2>2. QED
        BY <2>1, Distinct DEF AfterInitSegment, Exclusion
<1>2. CASE InitSegmentExists(t)
    <2>1. /\ pc[t] = "initSegment"
          /\ \/ pc' = [pc EXCEPT ![t] = "initDownload"]
             \/ pc' = [pc EXCEPT ![t] = AfterInitSegment(t)]
        BY <1>2 DEF InitSegmentExists
    <2>2. QED
        BY <2>1, Distinct DEF AfterInitSegment, Exclusion
<1>3. CASE Enter(t) \/ SetQuality(t) \/ Leave(t)
    BY <1>3 DEF Enter, SetQuality, Leave
<1>4. CASE Switch(t) \/ GetRepresentationStream(t)
    BY <1>4 DEF Switch, GetRepresentationStream, Caller
<1>5. CASE ResetPosition(t)
    BY <1>5 DEF ResetPosition, Caller
<1>6. QED
    BY <1>1, <1>2, <1>3, <1>4, <1>5 DEF SetVideoQuality

LEMMA PlacesStep == TypeOK /\ PlacesOK /\ Exclusion /\ [Next]_vars => PlacesOK'
<1> SUFFICES ASSUME PlaceType, PlacesOK, Exclusion, [Next]_vars PROVE PlacesOK'
    BY TypeParts
<1> USE Distinct DEF PlaceType, PlacesOK, SwitchPlaces, StartPlaces, PlayPlaces
<1>1. CASE UNCHANGED vars
    BY <1>1
<1>2. ASSUME NEW t \in Switching, SetVideoQuality(t) PROVE PlacesOK'
    BY <1>2, SwitchMoves
<1>3. CASE DoBuffering
    BY <1>3 DEF DoBuffering, PushBack, NewMediaObject, GetMediaSegment, StartDownload,
                OnSegmentDownloaded, SetEOSAtEnd
<1>4. ASSUME NEW t \in Decoding, CreateAVDecoder(t) PROVE PlacesOK'
    BY <1>4 DEF CreateAVDecoder, GetFront, FindInitSegment
<1>5. CASE OnDecodingFinished
    BY <1>5 DEF OnDecodingFinished
<1>6. CASE Start \/ GuiGoesOn \/ Stop
    BY <1>6 DEF Start, GuiGoesOn, Stop, StartReceiver, SetStarted, CloseQueue, JoinBuffering,
                JoinDecoder
<1>7. ASSUME NEW choice, OnSettingsChanged(choice) PROVE PlacesOK'
    BY <1>7 DEF OnSettingsChanged
<1>8. QED
    BY <1>1, <1>2, <1>3, <1>4, <1>5, <1>6, <1>7 DEF Next

LEMMA PhasesStep ==
    TypeOK /\ PlacesOK /\ Phases /\ Exclusion /\ [Next]_vars => Phases'
<1> SUFFICES ASSUME PlaceType, PlacesOK, Phases, Exclusion, [Next]_vars PROVE Phases'
    BY TypeParts
<1> USE Distinct DEF PlaceType, PlacesOK, Phases, Before, SwitchPlaces, StartPlaces, PlayPlaces
<1>1. CASE UNCHANGED vars
    BY <1>1
<1>2. ASSUME NEW t \in Switching, SetVideoQuality(t) PROVE Phases'
    BY <1>2 DEF SetVideoQuality, Enter, SetQuality, Switch, GetRepresentationStream,
                InitSegmentExists, DownloadInitSegment, ResetPosition, Leave, UnchangedBySwitch,
                Caller, AfterInitSegment, Exclusion, FirstInit
<1>3. CASE DoBuffering
    BY <1>3 DEF DoBuffering, PushBack, NewMediaObject, GetMediaSegment, StartDownload,
                OnSegmentDownloaded, SetEOSAtEnd, UnchangedByBuffering, Queue!PutBlocks,
                Queue!PutAccepted, Queue!PutRefused, Queue!Close
<1>4. ASSUME NEW t \in Decoding, CreateAVDecoder(t) PROVE Phases'
    BY <1>4 DEF CreateAVDecoder, GetFront, FindInitSegment, UnchangedByDecoding,
                Queue!GetBlocks, Queue!GetHead, Queue!GetNothing
<1>5. CASE OnDecodingFinished
    BY <1>5 DEF OnDecodingFinished, UnchangedByDecoding
<1>6. CASE Start \/ GuiGoesOn \/ Stop
    BY <1>6 DEF Start, GuiGoesOn, Stop, StartReceiver, SetStarted, CloseQueue, JoinBuffering,
                JoinDecoder, UnchangedByStop, Queue!Close
<1>7. ASSUME NEW choice, OnSettingsChanged(choice) PROVE Phases'
    BY <1>7 DEF OnSettingsChanged
<1>8. QED
    BY <1>1, <1>2, <1>3, <1>4, <1>5, <1>6, <1>7 DEF Next

LEMMA ExclusionStep ==
    TypeOK /\ PlacesOK /\ Phases /\ Exclusion /\ [Next]_vars => Exclusion'
<1> SUFFICES ASSUME PlaceType, PlacesOK, Phases, Exclusion, [Next]_vars PROVE Exclusion'
    BY TypeParts
<1> USE Distinct DEF PlaceType, PlacesOK, Phases, Before, Exclusion, FirstInit, SwitchPlaces,
                     StartPlaces, PlayPlaces
<1>1. CASE UNCHANGED vars
    BY <1>1
<1>2. ASSUME NEW t \in Switching, SetVideoQuality(t) PROVE Exclusion'
    BY <1>2 DEF SetVideoQuality, Enter, SetQuality, Switch, GetRepresentationStream,
                InitSegmentExists, DownloadInitSegment, ResetPosition, Leave, UnchangedBySwitch,
                Caller, AfterInitSegment
<1>3. CASE DoBuffering
    BY <1>3 DEF DoBuffering, PushBack, NewMediaObject, GetMediaSegment, StartDownload,
                OnSegmentDownloaded, SetEOSAtEnd, UnchangedByBuffering
<1>4. ASSUME NEW t \in Decoding, CreateAVDecoder(t) PROVE Exclusion'
    BY <1>4 DEF CreateAVDecoder, GetFront, FindInitSegment, UnchangedByDecoding,
                Queue!GetBlocks, Queue!GetHead, Queue!GetNothing
<1>5. CASE OnDecodingFinished
    BY <1>5 DEF OnDecodingFinished, UnchangedByDecoding
<1>6. CASE Start \/ GuiGoesOn \/ Stop
    BY <1>6 DEF Start, GuiGoesOn, Stop, StartReceiver, SetStarted, CloseQueue, JoinBuffering,
                JoinDecoder, UnchangedByStop, Queue!Close
<1>7. ASSUME NEW choice, OnSettingsChanged(choice) PROVE Exclusion'
    BY <1>7 DEF OnSettingsChanged
<1>8. QED
    BY <1>1, <1>2, <1>3, <1>4, <1>5, <1>6, <1>7 DEF Next
-----------------------------------------------------------------------------
(* The choices of the manager and of the receiver *)

(* The history of the user's changes only grows. *)
LEMMA UserChangesGrow ==
    ASSUME TypeOK, [Next]_vars
    PROVE  /\ ChangedSet => ChangedSet'
           /\ userChanged' = <<>> => userChanged = <<>>
<1> USE DEF ChangedSet
<1>1. CASE userChanged' = userChanged
    BY <1>1
<1>2. ASSUME NEW b, userChanged' = Append(userChanged, b)
      PROVE  (ChangedSet => ChangedSet') /\ (userChanged' = <<>> => userChanged = <<>>)
    <2>1. userChanged \in Seq(BOOLEAN)
        BY TypeParts DEF ManagerType
    <2>2. \A i \in DOMAIN userChanged : i \in DOMAIN userChanged' /\ userChanged'[i] = userChanged[i]
        BY <1>2, <2>1
    <2>3. userChanged' # <<>>
        BY <1>2, <2>1
    <2>4. QED
        BY <2>2, <2>3
<1>3. ASSUME NEW t \in Switching, SetVideoQuality(t) PROVE userChanged' = userChanged
    BY <1>3 DEF SetVideoQuality, Enter, SetQuality, Switch, GetRepresentationStream,
                InitSegmentExists, DownloadInitSegment, ResetPosition, Leave, UnchangedBySwitch
<1>4. CASE Start \/ GuiGoesOn \/ Stop \/ UNCHANGED vars
    BY <1>1, <1>4 DEF Start, GuiGoesOn, Stop, StartReceiver, SetStarted, CloseQueue,
                      JoinBuffering, JoinDecoder, UnchangedByStop
<1>5. CASE DoBuffering \/ OnDecodingFinished
    BY <1>1, <1>5 DEF DoBuffering, PushBack, NewMediaObject, GetMediaSegment, StartDownload,
                      SetEOSAtEnd, OnSegmentDownloaded, UnchangedByBuffering,
                      OnDecodingFinished, UnchangedByDecoding
<1>6. ASSUME NEW t \in Decoding, CreateAVDecoder(t) PROVE userChanged' = userChanged
    BY <1>6 DEF CreateAVDecoder, GetFront, FindInitSegment, UnchangedByDecoding
<1>7. ASSUME NEW choice, OnSettingsChanged(choice)
      PROVE  \E b : userChanged' = Append(userChanged, b)
    BY <1>7 DEF OnSettingsChanged
<1>8. QED
    BY <1>1, <1>2, <1>3, <1>4, <1>5, <1>6, <1>7 DEF Next

(* Only the holder of the mutex changes the choice. *)
LEMMA OneChanges ==
    ASSUME Exclusion, NEW t \in Switching, Changing(t)
    PROVE  monitorMutex = t
    BY DEF Exclusion, Changing

(* Steps at which nobody gets on with changing the choice. *)
LEMMA AgreementFrame ==
    ASSUME Agreement,
           UNCHANGED <<videoChoice, representation, adaptationSet, representationStream>>,
           \A t \in Switching : /\ Changing(t)' <=> Changing(t)
                                /\ Changing(t) => argument'[t] = argument[t]
                                /\ pc'[t] = "switch" <=> pc[t] = "switch"
                                /\ pc'[t] = "lookup" <=> pc[t] = "lookup",
           pc'[Gui] = "idle" <=> pc[Gui] = "idle", FirstSwitch' => FirstSwitch,
           ChangedSet => ChangedSet'
    PROVE  Agreement'
    BY DEF Agreement, Changed, Agree

LEMMA AgreementStep ==
    TypeOK /\ PlacesOK /\ Phases /\ Exclusion /\ Agreement /\ OneSet /\ [Next]_vars => Agreement'
<1> SUFFICES ASSUME TypeOK, PlacesOK, Phases, Exclusion, Agreement, OneSet, [Next]_vars
             PROVE  Agreement'
    OBVIOUS
<1>0. PlaceType /\ ManagerType /\ (ChangedSet => ChangedSet')
    BY TypeParts, UserChangesGrow
<1> USE Distinct DEF PlaceType, SwitchPlaces, StartPlaces, PlayPlaces, FirstSwitch, Changing
<1>1. CASE UNCHANGED vars
    BY <1>0, <1>1, AgreementFrame
<1>2. ASSUME NEW t \in Switching, Enter(t) PROVE Agreement'
    <2>1. \A u \in Switching : ~Changing(u) /\ ~Changing(u)'
        BY <1>0, <1>2, OneChanges DEF Enter, Exclusion
    <2>2. QED
        BY <1>0, <1>2, <2>1, AgreementFrame DEF Enter, UnchangedBySwitch
<1>3. ASSUME NEW t \in Switching, SetQuality(t) PROVE Agreement'
    <2>1. monitorMutex = t /\ pc[t] = "assign" /\ pc' = [pc EXCEPT ![t] = "switch"]
        BY <1>3 DEF SetQuality, Exclusion
    <2>2. \A u \in Switching : ~Changing(u) /\ (u # t => ~Changing(u)')
        BY <1>0, <1>3, <2>1, OneChanges DEF SetQuality, Exclusion
    <2>3. pc[Gui] # "idle"
        BY <2>1 DEF PlacesOK, Phases, Before
    <2>4. Agree
        BY <2>2, <2>3 DEF Agreement
    <2>5. Changing(t)' /\ pc'[t] = "switch" /\ \A u \in Switching : u # t => pc'[u] # "switch"
        BY <1>0, <1>3, <2>1 DEF Exclusion, SetQuality
    <2>6. ~FirstSwitch'
        <3>1. isStarted' = isStarted /\ pc'[Gui] # "idle"
            BY <1>0, <1>3, <2>1, <2>3 DEF SetQuality, UnchangedBySwitch
        <3>2. t = Gui => isStarted
            BY <2>1 DEF Phases
        <3>3. QED
            BY <2>5, <3>1, <3>2
    <2>7. \A u \in Switching : Changed(u)'
        BY <1>3, <2>2, <2>4, <2>5 DEF Changed, Agree, SetQuality, UnchangedBySwitch
    <2>8. QED
        BY <2>5, <2>6, <2>7 DEF Agreement
<1>4. ASSUME NEW t \in Switching, Switch(t) PROVE Agreement'
    <2>1. monitorMutex = t /\ pc[t] = "switch" /\ Changing(t)
        BY <1>4 DEF Switch, Exclusion
    <2>2. videoChoice = argument[t] /\ representationStream = representation
        BY <2>1 DEF Agreement, Changed
    <2>3. /\ UNCHANGED <<videoChoice, argument, monitorMutex, isStarted>>
          /\ \A u \in Switching : u # t => pc'[u] = pc[u]
        BY <1>0, <1>4 DEF Switch, UnchangedBySwitch
    <2>4. \A u \in Switching : u # t => ~Changing(u) /\ ~Changing(u)' /\ pc'[u] # "switch"
        BY <2>1, <2>3, OneChanges DEF Exclusion
    <2>5. CASE representation = argument[t].rep
        <3>1. /\ pc' = [pc EXCEPT ![t] = Caller(t)]
              /\ UNCHANGED <<representation, adaptationSet, representationStream>>
            BY <1>4, <2>5 DEF Switch
        <3>2. ~Changing(t)' /\ pc'[t] # "switch" /\ pc'[t] # "idle"
            BY <1>0, <3>1 DEF Caller
        <3>3. ~FirstSwitch'
            BY <2>1, <2>3, <3>2 DEF PlacesOK, Phases, Before
        <3>4. ~ChangedSet => argument[t].set = adaptationSet
            <4>1. CASE pc[Buffering] = "none"
                <5>1. t = Gui /\ adaptationSet = SetOf[representation]
                    BY <2>1, <4>1 DEF Phases, Before, Agreement
                <5>2. QED
                    BY <2>5, <5>1 DEF OneSet
            <4>2. CASE pc[Buffering] # "none"
                BY <4>2 DEF OneSet
            <4>3. QED
                BY <4>1, <4>2
        <3>5. Agree'
            BY <1>0, <2>2, <2>3, <2>5, <3>1, <3>4 DEF Agree
        <3>6. \A u \in Switching : Changed(u)'
            BY <2>4, <3>2 DEF Changed
        <3>7. QED
            BY <3>3, <3>5, <3>6 DEF Agreement
    <2>6. CASE representation # argument[t].rep
        <3>1. /\ pc' = [pc EXCEPT ![t] = "lookup"]
              /\ representation' = argument[t].rep /\ adaptationSet' = argument[t].set
            BY <1>4, <2>6 DEF Switch
        <3>2. Changing(t)' /\ pc'[t] = "lookup"
            BY <1>0, <3>1
        <3>3. ~FirstSwitch'
            BY <2>1, <2>3, <3>2 DEF PlacesOK, Phases, Before
        <3>4. \A u \in Switching : Changed(u)'
            BY <2>2, <2>3, <2>4, <3>1, <3>2 DEF Changed
        <3>5. QED
            BY <3>2, <3>3, <3>4 DEF Agreement
    <2>7. QED
        BY <2>5, <2>6
<1>5. ASSUME NEW t \in Switching, GetRepresentationStream(t) PROVE Agreement'
    <2>1. monitorMutex = t /\ pc[t] = "lookup" /\ Changing(t)
        BY <1>5 DEF GetRepresentationStream, Exclusion
    <2>2. /\ UNCHANGED <<videoChoice, argument, monitorMutex, isStarted, representation,
                         adaptationSet>>
          /\ \A u \in Switching : u # t => pc'[u] = pc[u]
        BY <1>0, <1>5 DEF GetRepresentationStream, UnchangedBySwitch
    <2>3. \A u \in Switching : u # t => ~Changing(u) /\ ~Changing(u)' /\ pc'[u] # "switch"
        BY <2>1, <2>2, OneChanges DEF Exclusion
    <2>4. /\ Changing(t)' /\ pc'[t] # "switch"
          /\ pc'[t] # "lookup" => representationStream' = representation
        BY <1>0, <1>5, <2>1, <2>2 DEF GetRepresentationStream
    <2>5. ~FirstSwitch'
        BY <2>1, <2>2, <2>3, <2>4 DEF PlacesOK, Phases, Before
    <2>6. \A u \in Switching : Changed(u)'
        BY <2>1, <2>2, <2>3, <2>4 DEF Agreement, Changed
    <2>7. QED
        BY <2>4, <2>5, <2>6 DEF Agreement
<1>6. ASSUME NEW t \in Switching, InitSegmentExists(t) \/ DownloadInitSegment(t)
      PROVE  Agreement'
    <2>1. /\ UNCHANGED <<switchVars, managerVars, argument, isStarted>>
          /\ pc[t] \in {"initSegment", "initDownload"}
          /\ pc' = [pc EXCEPT ![t] = "initDownload"] \/ pc' = [pc EXCEPT ![t] = AfterInitSegment(t)]
        BY <1>6 DEF InitSegmentExists, DownloadInitSegment, UnchangedBySwitch
    <2>2. \A u \in Switching : /\ Changing(u)' <=> Changing(u)
                               /\ pc'[u] = "switch" <=> pc[u] = "switch"
                               /\ pc'[u] = "lookup" <=> pc[u] = "lookup"
        BY <1>0, <2>1 DEF AfterInitSegment
    <2>3. (pc'[Gui] = "idle" <=> pc[Gui] = "idle") /\ (FirstSwitch' => FirstSwitch)
        BY <1>0, <2>1 DEF AfterInitSegment
    <2>4. QED
        BY <1>0, <2>1, <2>2, <2>3, AgreementFrame
<1>7. ASSUME NEW t \in Switching, ResetPosition(t) PROVE Agreement'
    <2>1. monitorMutex = t /\ pc[t] = "reset" /\ Changing(t)
        BY <1>7 DEF ResetPosition, Exclusion
    <2>2. /\ UNCHANGED <<videoChoice, argument, monitorMutex, isStarted, representation,
                         adaptationSet, representationStream>>
          /\ pc' = [pc EXCEPT ![t] = Caller(t)]
        BY <1>7 DEF ResetPosition, UnchangedBySwitch
    <2>3. pc'[t] \notin {"idle", "switch", "lookup"} /\ ~Changing(t)'
        BY <1>0, <2>2 DEF Caller
    <2>4. \A u \in Switching : u # t => ~Changing(u) /\ ~Changing(u)' /\ pc'[u] = pc[u]
        BY <1>0, <2>1, <2>2, OneChanges DEF Exclusion
    <2>5. \A u \in Switching : u # t => pc'[u] # "switch"
        BY <2>1, <2>4 DEF Exclusion
    <2>6. ~FirstSwitch'
        BY <2>1, <2>2, <2>3, <2>4, <2>5 DEF PlacesOK, Phases, Before
    <2>7. Agree'
        BY <1>0, <2>1, <2>2 DEF Agreement, Changed, Agree
    <2>8. \A u \in Switching : Changed(u)'
        BY <2>3, <2>4, <2>5 DEF Changed
    <2>9. QED
        BY <2>6, <2>7, <2>8 DEF Agreement
<1>8. ASSUME NEW t \in Switching, Leave(t) PROVE Agreement'
    <2>1. \A u \in Switching : ~Changing(u) /\ ~Changing(u)'
        BY <1>0, <1>8, OneChanges DEF Leave, Exclusion
    <2>2. QED
        BY <1>0, <1>8, <2>1, AgreementFrame DEF Leave, UnchangedBySwitch
<1>9. CASE DoBuffering
    <2>1. /\ UNCHANGED <<managerVars, switchVars, isStarted>> /\ pc'[Gui] = pc[Gui]
          /\ pc[Buffering] \notin {"switch", "lookup", "initSegment", "initDownload", "reset"}
          /\ pc'[Buffering] \notin {"switch", "lookup", "initSegment", "initDownload", "reset"}
          /\ argument'[Gui] = argument[Gui]
        BY <1>0, <1>9 DEF DoBuffering, PushBack, NewMediaObject, GetMediaSegment, StartDownload,
                SetEOSAtEnd, OnSegmentDownloaded, UnchangedByBuffering, ManagerType
    <2>2. QED
        BY <1>0, <2>1, AgreementFrame
<1>10. ASSUME NEW t \in Decoding, CreateAVDecoder(t) PROVE Agreement'
    <2>1. /\ UNCHANGED <<managerVars, switchVars, isStarted, argument>>
          /\ pc'[Buffering] = pc[Buffering]
          /\ pc'[Gui] = pc[Gui] \/ (/\ pc[Gui] \in {"getFront", "find"}
                                    /\ pc'[Gui] \in {"find", "setStarted"})
        BY <1>0, <1>10 DEF CreateAVDecoder, GetFront, FindInitSegment, UnchangedByDecoding
    <2>2. QED
        BY <1>0, <2>1, AgreementFrame
<1>11. CASE OnDecodingFinished
    BY <1>0, <1>11, AgreementFrame DEF OnDecodingFinished, UnchangedByDecoding
<1>12. CASE Start
    <2>1. /\ pc[Gui] = "idle" /\ pc' = [pc EXCEPT ![Gui] = "switch"] /\ monitorMutex' = Gui
          /\ argument' = [argument EXCEPT ![Gui] = videoChoice]
          /\ UNCHANGED <<videoChoice, switchVars>>
        BY <1>12 DEF Start
    <2>2. pc[Buffering] = "none"
        BY <2>1 DEF Phases, Before
    <2>3. /\ Changing(Gui)' /\ ~Changing(Buffering)' /\ pc'[Gui] = "switch"
          /\ pc'[Buffering] = "none" /\ argument'[Gui] = videoChoice
        BY <1>0, <2>1, <2>2 DEF ManagerType
    <2>4. representationStream' = representation' /\ adaptationSet' = SetOf[representation']
        BY <2>1 DEF Agreement
    <2>5. \A u \in Switching : Changed(u)'
        BY <2>1, <2>3, <2>4 DEF Changed
    <2>6. QED
        BY <2>3, <2>4, <2>5 DEF Agreement
<1>13. CASE StartReceiver
    <2>1. /\ UNCHANGED <<managerVars, switchVars, isStarted, argument>>
          /\ monitorMutex = Gui /\ pc[Gui] = "startReceiver" /\ pc[Buffering] = "none"
          /\ pc'[Gui] = "getFront" /\ pc'[Buffering] = "initSegment"
        BY <1>0, <1>13 DEF StartReceiver, Exclusion, Phases, Before
    <2>2. QED
        BY <1>0, <2>1, AgreementFrame
<1>14. CASE SetStarted
    <2>1. /\ UNCHANGED <<videoChoice, switchVars, argument>> /\ monitorMutex = Gui
          /\ pc[Gui] = "setStarted" /\ pc'[Gui] = "started" /\ pc'[Buffering] = pc[Buffering]
          /\ monitorMutex' = None
        BY <1>0, <1>14 DEF SetStarted, Exclusion
    <2>2. QED
        BY <1>0, <2>1, AgreementFrame DEF Exclusion
<1>15. CASE Stop \/ CloseQueue \/ JoinBuffering \/ JoinDecoder
    <2>1. /\ UNCHANGED <<managerVars, switchVars, argument>> /\ pc'[Buffering] = pc[Buffering]
          /\ pc[Gui] \in {"started", "closeQueue", "joinBuffering", "joinDecoder"}
          /\ pc'[Gui] \in {"closeQueue", "joinBuffering", "joinDecoder", "stopped"}
        BY <1>0, <1>15 DEF Stop, CloseQueue, JoinBuffering, JoinDecoder, UnchangedByStop
    <2>2. QED
        BY <1>0, <2>1, AgreementFrame
<1>16. ASSUME NEW choice, OnSettingsChanged(choice) PROVE Agreement'
    <2>1. /\ UNCHANGED <<managerVars, switchVars, isStarted>> /\ pc'[Buffering] = pc[Buffering]
          /\ pc[Gui] = "started" /\ pc'[Gui] = "enter"
          /\ argument'[Buffering] = argument[Buffering]
        BY <1>0, <1>16 DEF OnSettingsChanged, ManagerType
    <2>2. QED
        BY <1>0, <2>1, AgreementFrame
<1>17. QED
    BY <1>1, <1>2, <1>3, <1>4, <1>5, <1>6, <1>7, <1>8, <1>9, <1>10, <1>11, <1>12, <1>13, <1>14,
       <1>15, <1>16
    DEF Next, SetVideoQuality, GuiGoesOn

LEMMA InitSegmentsStep ==
    TypeOK /\ PlacesOK /\ Phases /\ Exclusion /\ Agreement /\ InitSegments /\ [Next]_vars
        => InitSegments'
<1> SUFFICES ASSUME TypeOK, PlacesOK, Phases, Exclusion, Agreement, InitSegments, [Next]_vars
             PROVE  InitSegments'
    OBVIOUS
<1>0. PlaceType /\ ReceiverType
    BY TypeParts
<1> USE Distinct DEF PlaceType, SwitchPlaces, StartPlaces, PlayPlaces
<1>1. ASSUME UNCHANGED <<representation, initVars>>,
             \A t \in Switching : pc'[t] = "initDownload" => pc[t] = "initDownload"
      PROVE  InitSegments'
    BY <1>1 DEF InitSegments
<1>2. CASE UNCHANGED vars
    BY <1>1, <1>2
<1>3. ASSUME NEW t \in Switching,
             Enter(t) \/ SetQuality(t) \/ GetRepresentationStream(t) \/ ResetPosition(t) \/ Leave(t)
      PROVE  InitSegments'
    <2>1. /\ UNCHANGED <<representation, initVars>>
          /\ pc' = pc \/ \E p \in Places \ {"initDownload"} : pc' = [pc EXCEPT ![t] = p]
        BY <1>3 DEF Enter, SetQuality, GetRepresentationStream, ResetPosition, Leave,
                    Caller, Places
    <2>2. QED
        BY <1>0, <1>1, <2>1
<1>4. ASSUME NEW t \in Switching, Switch(t) PROVE InitSegments'
    <2>1. monitorMutex = t /\ pc[t] = "switch"
        BY <1>4 DEF Switch, Exclusion
    <2>2. /\ UNCHANGED initVars
          /\ \E p \in Places \ {"initDownload"} : pc' = [pc EXCEPT ![t] = p]
        BY <1>4 DEF Switch, Caller, Places
    <2>3. \A u \in Switching : pc'[u] # "initDownload"
        BY <1>0, <2>1, <2>2 DEF Exclusion, FirstInit
    <2>4. QED
        BY <2>2, <2>3 DEF InitSegments
<1>5. ASSUME NEW t \in Switching, InitSegmentExists(t) PROVE InitSegments'
    <2>1. /\ UNCHANGED <<representation, initVars>> /\ pc[t] = "initSegment"
          /\ \/ pc' = [pc EXCEPT ![t] = "initDownload"] /\ initSegments[representation] = None
             \/ pc' = [pc EXCEPT ![t] = AfterInitSegment(t)]
        BY <1>5 DEF InitSegmentExists
    <2>2. \A u \in Switching : pc'[u] = "initDownload" =>
                pc[u] = "initDownload" \/ initSegments[representation] = None
        BY <1>0, <2>1 DEF AfterInitSegment
    <2>3. QED
        BY <2>1, <2>2 DEF InitSegments
<1>6. ASSUME NEW t \in Switching, DownloadInitSegment(t) PROVE InitSegments'
    <2>1. /\ pc[t] = "initDownload" /\ pc' = [pc EXCEPT ![t] = AfterInitSegment(t)]
          /\ initSegments' = [initSegments EXCEPT ![representation] = representationStream]
          /\ downloads' = [downloads EXCEPT ![representation] = downloads[representation] + 1]
          /\ representation' = representation
        BY <1>6 DEF DownloadInitSegment
    <2>2. initSegments[representation] = None /\ downloads[representation] = 0
        BY <1>0, <2>1 DEF InitSegments, ReceiverType
    <2>3. representationStream = representation
        <3>1. CASE monitorMutex = t
            BY <2>1, <3>1 DEF Agreement, Changed, Changing
        <3>2. CASE monitorMutex # t
            <4>1. t = Buffering /\ pc[Gui] = "getFront"
                BY <2>1, <3>2 DEF Exclusion, FirstInit
            <4>2. \A u \in Switching : ~Changing(u)
                BY <2>1, <3>2, <4>1 DEF Changing
            <4>3. QED
                BY <4>1, <4>2 DEF Agreement, Agree
        <3>3. QED
            BY <3>1, <3>2
    <2>4. \A u \in Switching : pc'[u] # "initDownload"
        BY <1>0, <2>1 DEF AfterInitSegment, Exclusion, FirstInit
    <2>5. representation \in Representations /\ representation # None
        BY <1>0, SwitchAssumption DEF ReceiverType
    <2>6. ASSUME NEW r \in Representations
          PROVE  /\ initSegments'[r] \in {r, None}
                 /\ downloads'[r] = IF initSegments'[r] = None THEN 0 ELSE 1
        <3>1. CASE r = representation
            BY <1>0, <2>1, <2>2, <2>3, <2>5, <3>1 DEF ReceiverType
        <3>2. CASE r # representation
            BY <1>0, <2>1, <3>2 DEF ReceiverType, InitSegments
        <3>3. QED
            BY <3>1, <3>2
    <2>7. QED
        BY <2>4, <2>6 DEF InitSegments
<1>7. CASE DoBuffering
    BY <1>0, <1>1, <1>7 DEF DoBuffering, PushBack, NewMediaObject, GetMediaSegment, StartDownload,
                SetEOSAtEnd, OnSegmentDownloaded, UnchangedByBuffering
<1>8. ASSUME NEW t \in Decoding, CreateAVDecoder(t) PROVE InitSegments'
    BY <1>0, <1>1, <1>8 DEF CreateAVDecoder, GetFront, FindInitSegment, UnchangedByDecoding
<1>9. CASE OnDecodingFinished
    BY <1>0, <1>1, <1>9 DEF OnDecodingFinished, UnchangedByDecoding
<1>10. CASE Start \/ GuiGoesOn \/ Stop
    BY <1>0, <1>1, <1>10 DEF Start, GuiGoesOn, Stop, StartReceiver, SetStarted, CloseQueue,
                JoinBuffering, JoinDecoder, UnchangedByStop
<1>11. ASSUME NEW choice, OnSettingsChanged(choice) PROVE InitSegments'
    BY <1>0, <1>1, <1>11 DEF OnSettingsChanged
<1>12. QED
    BY <1>2, <1>3, <1>4, <1>5, <1>6, <1>7, <1>8, <1>9, <1>10, <1>11 DEF Next, SetVideoQuality

LEMMA OneSetStep ==
    TypeOK /\ PlacesOK /\ Phases /\ Exclusion /\ Agreement /\ OneSet /\ [Next]_vars => OneSet'
<1> SUFFICES ASSUME TypeOK, PlacesOK, Phases, Exclusion, Agreement, OneSet, [Next]_vars,
                    ~ChangedSet'
             PROVE  OneSet'
    BY DEF OneSet
<1>0. PlaceType /\ ManagerType /\ ReceiverType /\ ~ChangedSet
    BY TypeParts, UserChangesGrow
<1>1. /\ ~crashed
      /\ videoChoice.set = videoLogic /\ SetOf[videoChoice.rep] = videoLogic
      /\ \A t \in Switching : argument[t].set = videoLogic /\ SetOf[argument[t].rep] = videoLogic
      /\ pc[Buffering] # "none" =>
            adaptationSet = videoLogic /\ SetOf[representationStream] = videoLogic
    BY <1>0 DEF OneSet
<1> USE Distinct DEF PlaceType, SwitchPlaces, StartPlaces, PlayPlaces
<1>2. ASSUME UNCHANGED <<crashed, videoLogic, videoChoice, argument, adaptationSet,
                         representationStream>>,
             pc'[Buffering] # "none" => pc[Buffering] # "none"
      PROVE  OneSet'
    BY <1>1, <1>2 DEF OneSet
<1>3. CASE UNCHANGED vars
    BY <1>2, <1>3
<1>4. ASSUME NEW t \in Switching, SetVideoQuality(t) PROVE OneSet'
    <2>1. pc[t] # "none" /\ (pc'[Buffering] # "none" => pc[Buffering] # "none")
        BY <1>0, <1>4, SwitchMoves
    <2>2. CASE Enter(t) \/ InitSegmentExists(t) \/ DownloadInitSegment(t) \/ ResetPosition(t)
               \/ Leave(t)
        BY <1>2, <2>1, <2>2 DEF Enter, InitSegmentExists, DownloadInitSegment, ResetPosition,
                                Leave, UnchangedBySwitch
    <2>3. CASE SetQuality(t)
        BY <1>1, <2>1, <2>3 DEF SetQuality, UnchangedBySwitch, OneSet
    <2>4. CASE Switch(t)
        BY <1>1, <2>1, <2>4 DEF Switch, UnchangedBySwitch, OneSet
    <2>5. CASE GetRepresentationStream(t)
        <3>1. Changing(t) /\ pc[t] = "lookup"
            BY <2>5 DEF GetRepresentationStream, Changing
        <3>2. representation = argument[t].rep /\ adaptationSet = argument[t].set
            BY <3>1 DEF Agreement, Changed
        <3>3. SetOf[representation] = adaptationSet
            BY <1>1, <3>2
        <3>4. QED
            BY <1>1, <2>1, <2>5, <3>2, <3>3
            DEF GetRepresentationStream, UnchangedBySwitch, OneSet
    <2>6. QED
        BY <1>4, <2>2, <2>3, <2>4, <2>5 DEF SetVideoQuality
<1>5. CASE GetMediaSegment
    <2>1. SetOf[representationStream] = adaptationSet
        BY <1>1, <1>5 DEF GetMediaSegment
    <2>2. QED
        BY <1>0, <1>2, <1>5, <2>1 DEF GetMediaSegment, UnchangedByBuffering
<1>6. CASE OnSegmentDownloaded
    <2>1. PICK r \in {r \in Representations : SetOf[r] = videoLogic} :
              argument' = [argument EXCEPT ![Buffering] = [set |-> videoChoice.set, rep |-> r]]
        BY <1>6 DEF OnSegmentDownloaded
    <2>2. \A t \in Switching :
              argument'[t].set = videoLogic /\ SetOf[argument'[t].rep] = videoLogic
        BY <1>0, <1>1, <2>1 DEF ManagerType
    <2>3. QED
        BY <1>0, <1>1, <1>6, <2>2 DEF OnSegmentDownloaded, UnchangedByBuffering, OneSet
<1>7. CASE PushBack \/ NewMediaObject \/ StartDownload \/ SetEOSAtEnd
    BY <1>0, <1>2, <1>7 DEF PushBack, NewMediaObject, StartDownload, SetEOSAtEnd,
                            UnchangedByBuffering
<1>8. ASSUME NEW t \in Decoding, CreateAVDecoder(t) PROVE OneSet'
    BY <1>0, <1>2, <1>8 DEF CreateAVDecoder, GetFront, FindInitSegment, UnchangedByDecoding
<1>9. CASE OnDecodingFinished
    BY <1>0, <1>2, <1>9 DEF OnDecodingFinished, UnchangedByDecoding
<1>10. CASE Start
    <2>1. /\ argument' = [argument EXCEPT ![Gui] = videoChoice]
          /\ videoLogic' = videoChoice.set /\ pc'[Buffering] = pc[Buffering]
          /\ UNCHANGED <<crashed, videoChoice, switchVars>>
        BY <1>0, <1>10 DEF Start
    <2>2. \A t \in Switching :
              argument'[t].set = videoLogic /\ SetOf[argument'[t].rep] = videoLogic
        BY <1>0, <1>1, <2>1 DEF ManagerType
    <2>3. QED
        BY <1>1, <2>1, <2>2 DEF OneSet
<1>11. CASE StartReceiver
    <2>1. pc[Gui] = "startReceiver" /\ monitorMutex = Gui /\ pc[Buffering] = "none"
        BY <1>11 DEF StartReceiver, Exclusion, Phases, Before
    <2>2. \A t \in Switching : ~Changing(t)
        BY <2>1 DEF Changing
    <2>3. Agree
        BY <2>1, <2>2 DEF Agreement
    <2>4. UNCHANGED <<crashed, videoLogic, videoChoice, argument, switchVars>>
        BY <1>11 DEF StartReceiver
    <2>5. adaptationSet = videoLogic /\ SetOf[representationStream] = videoLogic
        BY <1>0, <1>1, <2>3 DEF Agree
    <2>6. QED
        BY <1>1, <2>4, <2>5 DEF OneSet
<1>12. CASE SetStarted \/ CloseQueue \/ JoinBuffering \/ JoinDecoder \/ Stop
    BY <1>0, <1>2, <1>12 DEF Stop, SetStarted, CloseQueue, JoinBuffering, JoinDecoder,
                             UnchangedByStop
<1>13. ASSUME NEW r \in Representations, OnSettingsChanged(Choice(r)) PROVE OneSet'
    <2>1. /\ argument' = [argument EXCEPT ![Gui] = Choice(r)]
          /\ userChanged' = Append(userChanged, Choice(r).set # argument[Gui].set)
          /\ pc'[Buffering] = pc[Buffering]
          /\ UNCHANGED <<crashed, videoChoice, videoLogic, switchVars>>
        BY <1>0, <1>13 DEF OnSettingsChanged
    <2>2. Choice(r).set = argument[Gui].set
        <3>1. userChanged \in Seq(BOOLEAN)
            BY <1>0 DEF ManagerType
        <3>2. Len(userChanged) + 1 \in DOMAIN userChanged'
              /\ userChanged'[Len(userChanged) + 1] = (Choice(r).set # argument[Gui].set)
            BY <2>1, <3>1
        <3>3. QED
            BY <3>2 DEF ChangedSet
    <2>3. Choice(r).set = videoLogic /\ SetOf[Choice(r).rep] = videoLogic
        BY <1>1, <2>2 DEF Choice
    <2>4. \A t \in Switching :
              argument'[t].set = videoLogic /\ SetOf[argument'[t].rep] = videoLogic
        BY <1>0, <1>1, <2>1, <2>3 DEF ManagerType
    <2>5. QED
        BY <1>1, <2>1, <2>4 DEF OneSet
<1>14. QED
    BY <1>3, <1>4, <1>5, <1>6, <1>7, <1>8, <1>9, <1>10, <1>11, <1>12, <1>13
    DEF Next, GuiGoesOn, DoBuffering

-----------------------------------------------------------------------------
(* Only the adaptation logic switches *)

(* What OneSwitcher says of the segments that wait, and of those taken. *)
CleanPlaces ==
    /\ pc[Buffering] # "none" => pc[Gui] \notin SwitchPlaces \cup {"enter", "assign", "leave"}
    /\ pc[Buffering] \notin {"none", "lookup", "initSegment", "initDownload"}
          => initSegments[representation] # None
    /\ pc[Buffering] = "make" => source = representation

CleanSegments ==
    /\ \A i \in DOMAIN made : /\ made[i].label = made[i].stream
                              /\ initSegments[made[i].label] # None
    /\ \A t \in Decoding : pc[t] = "find" => initSegments[taken] # None
    /\ ~missed

LEMMA CleanPlacesStep ==
    ASSUME TypeOK, PlacesOK, Phases, Exclusion, Agreement, InitSegments, CleanPlaces,
           [Next]_vars, userChanged' = <<>>
    PROVE  CleanPlaces'
<1>0. PlaceType /\ ReceiverType /\ ManagerType
    BY TypeParts
<1> USE Distinct DEF PlaceType, SwitchPlaces, StartPlaces, PlayPlaces
<1>1. ASSUME UNCHANGED <<representation, initVars, source>>,
             pc'[Buffering] = pc[Buffering],
             pc'[Gui] \notin SwitchPlaces \cup {"enter", "assign", "leave"} \/ pc'[Gui] = pc[Gui]
      PROVE  CleanPlaces'
    BY <1>1 DEF CleanPlaces
<1>2. CASE UNCHANGED vars
    BY <1>1, <1>2
<1>3. ASSUME SetVideoQuality(Gui) PROVE CleanPlaces'
    <2>1. pc[Buffering] = "none"
        BY <1>0, <1>3, SwitchMoves DEF CleanPlaces
    <2>2. pc'[Buffering] = "none"
        BY <1>0, <1>3, <2>1, SwitchMoves
    <2>3. QED
        BY <2>2 DEF CleanPlaces
<1>4. ASSUME SetVideoQuality(Buffering) PROVE CleanPlaces'
    <2>1. /\ pc[Buffering] \in SwitchPlaces \cup {"enter", "assign", "leave"}
          /\ pc'[Buffering] \notin {"none", "make"} /\ pc'[Gui] = pc[Gui]
        BY <1>0, <1>4, SwitchMoves
    <2>2. CASE Enter(Buffering) \/ SetQuality(Buffering) \/ ResetPosition(Buffering)
               \/ Leave(Buffering)
        BY <2>1, <2>2 DEF CleanPlaces, Enter, SetQuality, ResetPosition, Leave, UnchangedBySwitch
    <2>3. CASE Switch(Buffering)
        <3>1. /\ UNCHANGED initVars
              /\ pc[Buffering] = "switch"
              /\ representation' = representation \/ pc'[Buffering] = "lookup"
            BY <1>0, <2>3 DEF Switch
        <3>2. QED
            BY <2>1, <3>1 DEF CleanPlaces
    <2>4. CASE GetRepresentationStream(Buffering)
        BY <1>0, <2>1, <2>4 DEF CleanPlaces, GetRepresentationStream
    <2>5. CASE InitSegmentExists(Buffering)
        BY <1>0, <2>1, <2>5 DEF CleanPlaces, InitSegmentExists
    <2>6. CASE DownloadInitSegment(Buffering)
        <3>1. /\ initSegments' = [initSegments EXCEPT ![representation] = representationStream]
              /\ representation' = representation
            BY <2>6 DEF DownloadInitSegment
        <3>2. initSegments'[representation] # None
            BY <1>0, <3>1, SwitchAssumption DEF ReceiverType
        <3>3. QED
            BY <2>1, <3>1, <3>2 DEF CleanPlaces
    <2>7. QED
        BY <1>4, <2>2, <2>3, <2>4, <2>5, <2>6 DEF SetVideoQuality
<1>5. CASE GetMediaSegment
    <2>1. /\ pc[Buffering] = "next"
          /\ UNCHANGED <<representation, initVars>>
          /\ pc'[Gui] = pc[Gui] /\ pc'[Buffering] \in {"next", "make", "setEOS"}
          /\ pc'[Buffering] = "make" => source' = representationStream
        BY <1>0, <1>5 DEF GetMediaSegment, UnchangedByBuffering
    <2>2. pc[Gui] \notin SwitchPlaces /\ pc[Gui] # "idle"
        BY <2>1 DEF CleanPlaces, Phases, Before
    <2>3. ~Changing(Gui) /\ ~Changing(Buffering)
        BY <2>1, <2>2 DEF Changing
    <2>4. representationStream = representation
        BY <2>2, <2>3 DEF Agreement, Agree
    <2>5. source' = representation \/ pc'[Buffering] # "make"
        BY <2>1, <2>4
    <2>6. /\ initSegments[representation] # None
          /\ pc[Gui] \notin SwitchPlaces \cup {"enter", "assign", "leave"}
        BY <2>1 DEF CleanPlaces
    <2>7. QED
        BY <2>1, <2>5, <2>6 DEF CleanPlaces
<1>6. CASE PushBack \/ NewMediaObject \/ StartDownload \/ SetEOSAtEnd \/ OnSegmentDownloaded
    <2>1. /\ pc[Buffering] \in {"make", "check", "push", "finished", "setEOS"}
          /\ pc'[Buffering] \in {"check", "push", "finished", "setEOS", "done", "enter"}
          /\ pc'[Gui] = pc[Gui]
          /\ UNCHANGED <<representation, initVars>>
        BY <1>0, <1>6 DEF PushBack, NewMediaObject, StartDownload, SetEOSAtEnd,
                          OnSegmentDownloaded, UnchangedByBuffering
    <2>2. QED
        BY <2>1 DEF CleanPlaces
<1>7. ASSUME NEW t \in Decoding, CreateAVDecoder(t) PROVE CleanPlaces'
    <2>1. /\ UNCHANGED <<representation, initVars, source>>
          /\ pc'[Buffering] = pc[Buffering]
          /\ pc'[Gui] = pc[Gui] \/ pc'[Gui] \in {"find", "setStarted"}
        BY <1>0, <1>7 DEF CreateAVDecoder, GetFront, FindInitSegment, UnchangedByDecoding
    <2>2. QED
        BY <1>1, <2>1
<1>8. CASE OnDecodingFinished
    BY <1>0, <1>1, <1>8 DEF OnDecodingFinished, UnchangedByDecoding
<1>9. CASE Start \/ StartReceiver
    <2>1. pc[Buffering] = "none" /\ UNCHANGED <<representation, initVars, source>>
        BY <1>9 DEF Start, StartReceiver, Phases, Before
    <2>2. pc'[Buffering] = "none" \/ (pc'[Buffering] = "initSegment" /\ pc'[Gui] = "getFront")
        BY <1>0, <1>9, <2>1 DEF Start, StartReceiver
    <2>3. QED
        BY <2>1, <2>2 DEF CleanPlaces
<1>10. CASE SetStarted \/ CloseQueue \/ JoinBuffering \/ JoinDecoder \/ Stop
    BY <1>0, <1>1, <1>10 DEF Stop, SetStarted, CloseQueue, JoinBuffering, JoinDecoder,
                             UnchangedByStop
<1>11. ASSUME NEW choice, OnSettingsChanged(choice) PROVE FALSE
    BY <1>0, <1>11 DEF OnSettingsChanged, ManagerType
<1>12. QED
    BY <1>2, <1>3, <1>4, <1>5, <1>6, <1>7, <1>8, <1>9, <1>10, <1>11
    DEF Next, GuiGoesOn, DoBuffering

LEMMA CleanSegmentsStep ==
    ASSUME TypeOK, PlacesOK, Phases, Exclusion, InitSegments, Making, CleanPlaces, CleanSegments,
           [Next]_vars
    PROVE  CleanSegments'
<1>0. PlaceType /\ ReceiverType /\ MadeType /\ QueueType
    BY TypeParts
<1> USE Distinct DEF PlaceType
<1>1. ASSUME UNCHANGED <<made, taken, missed, initSegments>>,
             \A t \in Decoding : pc'[t] = "find" => pc[t] = "find"
      PROVE  CleanSegments'
    BY <1>1 DEF CleanSegments
<1>2. CASE UNCHANGED vars
    BY <1>1, <1>2
<1>3. ASSUME NEW t \in Switching, SetVideoQuality(t) PROVE CleanSegments'
    <2>1. \A u \in Decoding : pc'[u] = "find" => pc[u] = "find"
        BY <1>0, <1>3, SwitchMoves DEF SwitchPlaces
    <2>2. CASE Enter(t) \/ SetQuality(t) \/ Switch(t) \/ GetRepresentationStream(t)
               \/ InitSegmentExists(t) \/ ResetPosition(t) \/ Leave(t)
        BY <1>1, <2>1, <2>2 DEF Enter, SetQuality, Switch, GetRepresentationStream,
                InitSegmentExists, ResetPosition, Leave, UnchangedBySwitch
    <2>3. CASE DownloadInitSegment(t)
        <3>1. /\ initSegments' = [initSegments EXCEPT ![representation] = representationStream]
              /\ UNCHANGED <<made, taken, missed>>
            BY <2>3 DEF DownloadInitSegment, UnchangedBySwitch
        <3>2. \A r : initSegments[r] # None /\ r \in Representations => initSegments'[r] # None
            BY <1>0, <3>1, SwitchAssumption DEF ReceiverType
        <3>3. \A i \in DOMAIN made : made[i] \in Segment
            BY <1>0 DEF MadeType
        <3>4. taken \in Representations /\ \A i \in DOMAIN made : made[i].label \in Representations
            BY <1>0, <3>3 DEF ReceiverType, Segment
        <3>5. QED
            BY <2>1, <3>1, <3>2, <3>4 DEF CleanSegments
    <2>4. QED
        BY <1>3, <2>2, <2>3 DEF SetVideoQuality
<1>4. CASE NewMediaObject
    <2>1. /\ made' = Append(made, [label |-> representation, stream |-> source])
          /\ source = representation /\ initSegments[representation] # None
          /\ UNCHANGED <<taken, missed, initSegments>>
          /\ \A t \in Decoding : pc'[t] = "find" => pc[t] = "find"
        BY <1>0, <1>4 DEF NewMediaObject, UnchangedByBuffering, CleanPlaces
    <2>2. \A i \in DOMAIN made' : \/ i \in DOMAIN made /\ made'[i] = made[i]
                                  \/ made'[i] = [label |-> representation, stream |-> source]
        BY <1>0, <2>1 DEF MadeType
    <2>3. QED
        BY <2>1, <2>2 DEF CleanSegments
<1>5. CASE PushBack \/ GetMediaSegment \/ StartDownload \/ SetEOSAtEnd \/ OnSegmentDownloaded
    BY <1>0, <1>1, <1>5 DEF PushBack, GetMediaSegment, StartDownload, SetEOSAtEnd,
                            OnSegmentDownloaded, UnchangedByBuffering
<1>6. ASSUME NEW t \in Decoding, GetFront(t) PROVE CleanSegments'
    <2>1. UNCHANGED <<missed, initSegments>>
        BY <1>6 DEF GetFront, UnchangedByDecoding
    <2>2. CASE UNCHANGED <<made, taken>> /\ \A u \in Decoding : pc'[u] = "find" => pc[u] = "find"
        BY <1>1, <2>1, <2>2
    <2>3. CASE /\ queue # <<>> /\ made' = Tail(made) /\ taken' = Head(made).label
               /\ pc' = [pc EXCEPT ![t] = "find"]
        <3>1. Len(made) > 0 /\ made \in Seq(Segment)
            BY <1>0, <2>3 DEF MadeType, QueueType
        <3>2. 1 \in DOMAIN made /\ taken' = made[1].label
            BY <2>3, <3>1
        <3>3. \A i \in DOMAIN made' : i + 1 \in DOMAIN made /\ made'[i] = made[i + 1]
            BY <2>3, <3>1
        <3>4. QED
            BY <2>1, <3>2, <3>3 DEF CleanSegments
    <2>4. QED
        BY <1>0, <1>6, <2>2, <2>3 DEF GetFront, Queue!GetHead
<1>7. ASSUME NEW t \in Decoding, FindInitSegment(t) PROVE CleanSegments'
    <2>1. /\ UNCHANGED <<made, taken, initSegments>> /\ pc[t] = "find"
          /\ missed' = (missed \/ initSegments[taken] = None)
          /\ \A u \in Decoding : pc'[u] = "find" => pc[u] = "find"
        BY <1>0, <1>7 DEF FindInitSegment, UnchangedByDecoding
    <2>2. QED
        BY <2>1 DEF CleanSegments
<1>8. CASE OnDecodingFinished
    BY <1>0, <1>1, <1>8 DEF OnDecodingFinished, UnchangedByDecoding
<1>9. CASE Start \/ GuiGoesOn \/ Stop
    BY <1>0, <1>1, <1>9 DEF Start, GuiGoesOn, Stop, StartReceiver, SetStarted, CloseQueue,
                JoinBuffering, JoinDecoder, UnchangedByStop
<1>10. ASSUME NEW choice, OnSettingsChanged(choice) PROVE CleanSegments'
    BY <1>0, <1>1, <1>10 DEF OnSettingsChanged
<1>11. QED
    BY <1>2, <1>3, <1>4, <1>5, <1>6, <1>7, <1>8, <1>9, <1>10
    DEF Next, DoBuffering, CreateAVDecoder

LEMMA OneSwitcherStep ==
    TypeOK /\ PlacesOK /\ Phases /\ Exclusion /\ Agreement /\ InitSegments /\ Making
       /\ OneSwitcher /\ [Next]_vars => OneSwitcher'
<1> SUFFICES ASSUME TypeOK, PlacesOK, Phases, Exclusion, Agreement, InitSegments, Making,
                    OneSwitcher, [Next]_vars, userChanged' = <<>>
             PROVE  CleanPlaces' /\ CleanSegments'
    BY DEF OneSwitcher, CleanPlaces, CleanSegments
<1>1. CleanPlaces /\ CleanSegments
    BY UserChangesGrow DEF OneSwitcher, CleanPlaces, CleanSegments
<1>2. QED
    BY <1>1, CleanPlacesStep, CleanSegmentsStep

-----------------------------------------------------------------------------
(* The inductive invariant, and what it implies *)

LEMMA InitInvariant == Init => IInv
<1> SUFFICES ASSUME Init PROVE IInv
    OBVIOUS
<1> USE Distinct, SwitchAssumption DEF Init, Choice, Choices, SwitchPlaces, StartPlaces, PlayPlaces
<1>1. /\ pc \in [Threads -> Places] /\ pc[Gui] = "idle" /\ pc[Buffering] = "none"
      /\ pc[Decoder] = "none"
    BY DEF Places
<1>2. videoChoice \in Choices /\ SetOf[videoChoice.rep] = videoChoice.set
    OBVIOUS
<1>3. TypeOK
    <2>1. ReceiverType
        <3>1. initSegments \in [Representations -> Representations \cup {None}]
            OBVIOUS
        <3>2. downloads \in [Representations -> Nat] /\ segmentNumber \in 0..SegmentCount
            OBVIOUS
        <3>3. QED
            BY <3>1, <3>2 DEF ReceiverType
    <2>2. ManagerType
        <3>1. argument \in [Switching -> Choices] /\ videoLogic \in AdaptationSets
            BY <1>2
        <3>2. userChanged \in Seq(BOOLEAN) /\ Len(userChanged) <= MaxChanges
            OBVIOUS
        <3>3. QED
            BY <1>2, <3>1, <3>2 DEF ManagerType
    <2>3. QueueType /\ MadeType
        <3>1. blocked \in [Threads -> {"put", "get", "nothing"}]
            BY DEF Queue!Init, Queue!Callers
        <3>2. queue = <<>> /\ accepted = 0 /\ closed = FALSE /\ made = <<>>
            BY DEF Queue!Init
        <3>3. QueueType
            <4>1. queue \in Seq(Nat) /\ Len(queue) = 0 /\ Len(queue) <= Capacity
                BY <3>2
            <4>2. accepted \in Nat /\ closed \in BOOLEAN
                BY <3>2
            <4>3. QED
                BY <3>1, <4>1, <4>2 DEF QueueType
        <3>4. made \in Seq(Segment) /\ Len(made) = 0 /\ Len(queue) = 0
            BY <3>2
        <3>5. MadeType
            BY <3>4 DEF MadeType
        <3>6. QED
            BY <3>3, <3>5
    <2>4. QED
        BY <1>1, <2>1, <2>2, <2>3, TypeParts DEF PlaceType
<1>4. PlacesOK /\ Phases /\ Exclusion
    BY <1>1 DEF PlacesOK, Phases, Before, Exclusion, FirstInit, Queue!Init
<1>5. Agreement
    BY <1>1 DEF Agreement, Changed, Changing, FirstSwitch
<1>6. InitSegments /\ Making
    BY <1>1 DEF InitSegments, Making, Queue!Init
<1>7. OneSet
    BY <1>1, <1>2 DEF OneSet
<1>8. OneSwitcher
    BY <1>1 DEF OneSwitcher
<1>9. QED
    BY <1>3, <1>4, <1>5, <1>6, <1>7, <1>8 DEF IInv

LEMMA InductiveInvariant == Spec => []IInv
<1>1. IInv /\ [Next]_vars => IInv'
    BY TypeStep, PlacesStep, PhasesStep, ExclusionStep, AgreementStep, InitSegmentsStep,
       OneSetStep, OneSwitcherStep DEF IInv
<1>2. QED
    BY InitInvariant, <1>1, PTL DEF Spec

(* Types: the queue never holds more than its capacity, there is at most one *)
(* segment that is made and not queued, and no segment number is past the    *)
(* end, whatever the interleaving of the three threads.                      *)
THEOREM TypeCorrect == Spec => []TypeOK
<1>1. IInv => TypeOK
    BY DEF IInv
<1>2. QED
    BY <1>1, InductiveInvariant, PTL

(* When no thread is inside SetVideoQuality, MultimediaManager's representation *)
(* is the one the DASHReceiver fetches, and its stream the one of that          *)
(* representation; the adaptation sets agree too unless the user changed it.    *)
THEOREM ManagerAndReceiverAgreeAlways == Spec => []ManagerAndReceiverAgree
<1>1. IInv => ManagerAndReceiverAgree
    <2> SUFFICES ASSUME IInv, isStarted, \A t \in Switching : ~Inside(t)
                 PROVE  Agree
        BY DEF ManagerAndReceiverAgree, Agree
    <2>1. \A t \in Switching : ~Changing(t)
        BY DEF Inside, Changing
    <2>2. pc[Gui] # "idle"
        BY DEF IInv, Phases
    <2>3. QED
        BY <2>1, <2>2 DEF IInv, Agreement
<1>2. QED
    BY <1>1, InductiveInvariant, PTL

(* DASHReceiver keeps for a representation only its own init segment, and    *)
(* downloads each at most once, although DoBuffering asks without the mutex. *)
THEOREM InitSegmentsKeptAlways == Spec => []InitSegmentsKept
<1>1. IInv => InitSegmentsKept
    BY DEF IInv, InitSegments, InitSegmentsKept
<1>2. QED
    BY <1>1, InductiveInvariant, PTL

(* Unless the user changes the settings, every segment is labelled with the  *)
(* representation whose stream it is from, and its init segment is there     *)
(* when the decoder is created.                                              *)
THEOREM LogicSwitchesCleanlyAlways == Spec => []LogicSwitchesCleanly
<1>1. IInv => LogicSwitchesCleanly
    BY DEF IInv, OneSwitcher, LogicSwitchesCleanly
<1>2. QED
    BY <1>1, InductiveInvariant, PTL

(* A stream that is not there (any more) is used only after the user has     *)
(* changed the adaptation set.                                               *)
THEOREM SafeWithinSetAlways == Spec => []SafeWithinSet
<1>1. IInv => SafeWithinSet
    BY DEF IInv, OneSet, SafeWithinSet
<1>2. QED
    BY <1>1, InductiveInvariant, PTL
=============================================================================
