--------------------------- MODULE SegmentNumbers ---------------------------
(***************************************************************************)
(* Which segments the receiver asks for.  A static presentation is asked   *)
(* for from its first to its last segment.  In a dynamic one the receiver  *)
(* starts some segments before the live edge, and nothing but the size of  *)
(* the segment buffer and the pace of the player keeps it from overtaking  *)
(* the edge, where segments do not exist yet.  The player has a pace of    *)
(* its own: so many frames in a second, whatever the frame rate of the     *)
(* presentation is.                                                        *)
(*                                                                         *)
(* Time is counted in seconds, and the durations of segments in units of   *)
(* the timescale, as in the MPD.  uint32_t has WordModulus values.         *)
(***************************************************************************)
EXTENDS Word, SequencesExt

CONSTANTS MPDs,         \* the presentations considered
          BufferSize,   \* segments in the buffer between receiver and decoder
          FrameBuffer,  \* frames in the one between decoder and renderer
          Second,       \* in the unit that the renderer sleeps in
          FrameSleep,   \* what it sleeps after a frame, in that unit
          MaxTime,      \* bound of the clock
          MaxFrames,    \* bound of the frames of a segment
          MaxTaken      \* bound of the segments of a dynamic presentation taken

\* S elements of a SegmentTimeline.  Without @t, start is 0.
Timelines == Seq([start : Nat, duration : Nat, repeat : Nat])

Presentations ==
    [type : {"static", "dynamic"}, duration : Nat, timescale : Nat \ {0},
     mediaPresentationDuration : Nat, availabilityStarttime : Nat,
     timeShiftBufferDepth : Nat, timeline : Timelines]

\* A dynamic presentation without @duration ends the process: the duration
\* divides an integer in the constructor of the receiver.
ASSUME NumbersAssumption ==
    /\ MPDs \subseteq Presentations
    /\ \A m \in MPDs : m.type = "dynamic" => m.duration > 0 /\ m.timeline = <<>>
    /\ BufferSize \in Nat \ {0}
    /\ {FrameBuffer, FrameSleep, MaxTime, MaxFrames, MaxTaken} \subseteq Nat
    /\ Second \in Nat \ {0}
    /\ WordModulus \in Nat \ {0}

\* The clock and the numbers are of type uint32_t: they fit their words, and so
\* does a time shift buffer with a segment more.
ASSUME WordAssumption ==
    /\ MaxTime < WordModulus
    /\ 2 * BufferSize < WordModulus
    /\ \A m \in MPDs : m.type = "dynamic" =>
            m.timeShiftBufferDepth + m.duration <= WordModulus

VARIABLES mpd,
          now,           \* the clock
          began,         \* when the receiver was constructed
          segmentOffset, segmentNumber,  \* of the receiver
          last,          \* number of the segment asked for last
          queued,        \* segments between receiver and decoder
          taken,         \* segments of a dynamic presentation that a decoder has taken
          frames,        \* that the decoders made of those they have finished
          ended          \* GetNextSegment has returned NULL

vars == <<mpd, now, began, segmentOffset, segmentNumber, last, queued,
          taken, frames, ended>>

None == -1

Dynamic == mpd.type = "dynamic"

-----------------------------------------------------------------------------
(* The representation stream *)

\* The start times of one S element.  Repeated ones without @t, or with
\* t = 0, are left out.
StartTimesOf(s) ==
    IF s.repeat = 0 THEN <<s.start>>
    ELSE IF s.start > 0 THEN [j \in 1..s.repeat + 1 |-> Uint(s.start + s.duration * (j - 1))]
    ELSE <<>>

\* CalculateSegmentStartTimes
SegmentStartTimes(timeline) ==
    FlattenSeq([i \in DOMAIN timeline |-> StartTimesOf(timeline[i])])

CeilDiv(a, b) == (a + b - 1) \div b

\* Seconds per segment, in integers.
WholeSeconds(m) == m.duration \div m.timescale

\* Mutant: what is left over at the end is no segment.
GetSizesFloor(m) ==
    IF SegmentStartTimes(m.timeline) # <<>> THEN {Len(SegmentStartTimes(m.timeline))}
    ELSE IF m.type = "dynamic" THEN {WordModulus - 2}
    ELSE IF WholeSeconds(m) = 0 THEN {0, WordModulus - 1}
    ELSE {m.mediaPresentationDuration \div WholeSeconds(m)}

\* GetSize.  Infinity and NaN have no value as uint32_t: it is whatever the
\* processor makes of them.
GetSizes(m) ==
    IF SegmentStartTimes(m.timeline) # <<>> THEN {Len(SegmentStartTimes(m.timeline))}
    ELSE IF m.type = "dynamic" THEN {WordModulus - 2}
    ELSE IF WholeSeconds(m) = 0 THEN {0, WordModulus - 1}
    ELSE {CeilDiv(m.mediaPresentationDuration, WholeSeconds(m))}

\* GetMediaSegment returns NULL only beyond the end of a timeline.
SegmentExists(m, number) ==
    m.timeline # <<>> => number < Len(SegmentStartTimes(m.timeline))

\* GetAverageSegmentDuration: a number of units of the timescale, used as if
\* it were seconds.
GetAverageSegmentDuration(m) == m.duration

GetFirstSegmentNumber(m, t) ==
    Uint(t - GetAverageSegmentDuration(m) - m.availabilityStarttime - m.timeShiftBufferDepth)
        \div GetAverageSegmentDuration(m)

GetCurrentSegmentNumber(m, t) ==
    Uint(t - GetAverageSegmentDuration(m) - m.availabilityStarttime)
        \div GetAverageSegmentDuration(m)

-----------------------------------------------------------------------------
(* The receiver *)

\* Mutant: the earlier of the two.
CalculateSegmentOffsetEarlier(m, t) ==
    LET firstSegNum == GetFirstSegmentNumber(m, t)
        startSegNum == Uint(GetCurrentSegmentNumber(m, t) - 2 * BufferSize)
    IN IF m.type = "static" THEN 0
       ELSE IF startSegNum > firstSegNum THEN firstSegNum ELSE startSegNum

CalculateSegmentOffset(m, t) ==
    LET firstSegNum == GetFirstSegmentNumber(m, t)
        startSegNum == Uint(GetCurrentSegmentNumber(m, t) - 2 * BufferSize)
    IN IF m.type = "static" THEN 0
       ELSE IF startSegNum > firstSegNum THEN startSegNum ELSE firstSegNum

Init ==
    /\ mpd \in MPDs
    /\ now \in IF Dynamic THEN mpd.availabilityStarttime..MaxTime ELSE {0}
    /\ began = now
    /\ segmentOffset = CalculateSegmentOffset(mpd, now)
    /\ segmentNumber = 0
    /\ last = None
    /\ queued = 0
    /\ taken = 0
    /\ frames = 0
    /\ ended = FALSE

\* Mutant: the queue is twice as long.
GetNextSegmentFarther ==
    /\ ~ended
    /\ queued <= 2 * BufferSize
    /\ \E size \in GetSizes(mpd) : segmentNumber < size
    /\ SegmentExists(mpd, Uint(segmentNumber + segmentOffset))
    /\ last' = Uint(segmentNumber + segmentOffset)
    /\ segmentNumber' = segmentNumber + 1
    /\ queued' = queued + 1
    /\ UNCHANGED <<mpd, now, began, segmentOffset, taken, frames, ended>>

\* GetNextSegment.  The next one is asked for when PushBack has accepted the
\* last one: BufferSize segments are in the queue and one more is on its way.
GetNextSegment ==
    /\ ~ended
    /\ queued <= BufferSize
    /\ \E size \in GetSizes(mpd) : segmentNumber < size
    /\ SegmentExists(mpd, Uint(segmentNumber + segmentOffset))
    /\ last' = Uint(segmentNumber + segmentOffset)
    /\ segmentNumber' = segmentNumber + 1
    /\ queued' = queued + 1
    /\ UNCHANGED <<mpd, now, began, segmentOffset, taken, frames, ended>>

GetNoSegment ==
    /\ ~ended
    /\ queued <= BufferSize
    /\ \/ \E size \in GetSizes(mpd) : segmentNumber >= size
       \/ ~SegmentExists(mpd, Uint(segmentNumber + segmentOffset))
    /\ ended' = TRUE
    /\ UNCHANGED <<mpd, now, began, segmentOffset, segmentNumber, last, queued, taken, frames>>

\* SetRepresentation of another period.  The new offset is computed and not
\* stored: the receiver goes on from the one of its construction.
SetPeriod ==
    /\ ~ended
    /\ segmentNumber' = 0
    /\ UNCHANGED <<mpd, now, began, segmentOffset, last, queued, taken, frames, ended>>

\* RenderVideo takes a frame, shows it and sleeps.  What the decoders have
\* handed over, it has taken out of the frame buffer, or it is there still.
\* The clock may be almost a second behind.
Renders(n) ==
    n * FrameSleep <= (now - began + 1) * Second + (FrameBuffer + 1) * FrameSleep

\* A decoder takes a segment when all frames of the one before are handed over.
\* How many that were depends on the frame rate of the presentation; decoding
\* ends with the first error, so that it may be none.  Only in a dynamic
\* presentation does it matter how many segments are taken, and when.
GetFront ==
    /\ queued > 0
    /\ queued' = queued - 1
    /\ \/ /\ ~Dynamic
          /\ UNCHANGED <<taken, frames>>
       \/ /\ Dynamic
          /\ taken < MaxTaken
          /\ taken' = taken + 1
          /\ \E n \in IF taken = 0 THEN {0} ELSE 0..MaxFrames : frames' = frames + n
          /\ Renders(frames')
    /\ UNCHANGED <<mpd, now, began, segmentOffset, segmentNumber, last, ended>>

Tick ==
    /\ Dynamic
    /\ now < MaxTime
    /\ now' = now + 1
    /\ UNCHANGED <<mpd, began, segmentOffset, segmentNumber, last, queued, taken, frames, ended>>

Next == GetNextSegment \/ GetNoSegment \/ SetPeriod \/ GetFront \/ Tick

Spec == Init /\ [][Next]_vars

-----------------------------------------------------------------------------
(* Properties *)

TypeOK ==
    /\ mpd \in MPDs
    /\ now \in 0..MaxTime
    /\ began \in 0..now
    /\ segmentOffset \in 0..WordModulus - 1
    /\ segmentNumber \in Nat
    /\ last \in 0..WordModulus - 1 \cup {None}
    /\ queued \in 0..BufferSize + 1
    /\ taken \in Nat
    /\ frames \in Nat
    /\ ended \in BOOLEAN

\* The number of segments of a static presentation.
Segments(m) ==
    IF m.timeline # <<>>
    THEN LET upTo[i \in 0..Len(m.timeline)] ==
               IF i = 0 THEN 0 ELSE upTo[i - 1] + m.timeline[i].repeat + 1
         IN upTo[Len(m.timeline)]
    ELSE CeilDiv(m.mediaPresentationDuration * m.timescale, m.duration)

\* A static presentation has been asked for to its end, and no further, when
\* the receiver stops: with a timeline if no S element that repeats starts at
\* 0; else if a segment lasts at least a second.  If the duration is not a
\* multiple of the timescale, the division in integers makes segments too
\* short, and the receiver may ask for some that do not exist.
AsksForAll ==
    ended /\ ~Dynamic =>
        IF mpd.timeline # <<>>
        THEN (\A i \in DOMAIN mpd.timeline : mpd.timeline[i].start > 0 \/ mpd.timeline[i].repeat = 0)
                => segmentNumber = Segments(mpd)
        ELSE mpd.duration >= mpd.timescale =>
                /\ segmentNumber >= Segments(mpd)
                /\ mpd.duration % mpd.timescale = 0 => segmentNumber = Segments(mpd)

\* A segment of a dynamic presentation is there from its end, for the time of
\* the time shift buffer and of one segment more.
Available(number, t) ==
    mpd.availabilityStarttime * mpd.timescale + (number + 1) * mpd.duration <= t * mpd.timescale

StillThere(number, t) ==
    (t - mpd.timeShiftBufferDepth - mpd.availabilityStarttime) * mpd.timescale
        < (number + 2) * mpd.duration

\* A dynamic presentation is entered at a segment that is there, if and only
\* if it began long enough ago: else one of the differences of unsigned numbers
\* wraps around, and the first segment asked for is years away.
StartsInWindow ==
    Dynamic /\ mpd.timescale = 1 =>
        LET age       == began - mpd.availabilityStarttime
            OldEnough == /\ age >= mpd.timeShiftBufferDepth + mpd.duration
                         /\ age >= (2 * BufferSize + 1) * mpd.duration
        IN (Available(segmentOffset, began) /\ StillThere(segmentOffset, began)) <=> OldEnough

\* What the player may be ahead of the clock: a frame buffer, the frame that is
\* shown, and the second that has begun.
Slack == Second + (FrameBuffer + 1) * FrameSleep

\* The receiver has entered a dynamic presentation so far behind the live edge
\* that the segments between it and the renderer fit in, and that slack.
StartsBehind ==
    (mpd.availabilityStarttime * mpd.timescale
        + (segmentOffset + BufferSize + 2) * mpd.duration) * Second + Slack * mpd.timescale
        <= (began * mpd.timescale) * Second

\* The segments finished so far have given the renderer work for at least as
\* long as they last: no content of fewer frames per second than it shows, and
\* no damaged segments that others do not make up for.
KeepsRendererBusy ==
    ((taken - 1) * mpd.duration) * Second <= (frames * FrameSleep) * mpd.timescale

\* As long as that is so, the receiver never asks for a segment that is not
\* there yet, however fast the network is, though it never looks at the live
\* edge again.
NeverAhead ==
    Dynamic /\ StartsBehind /\ KeepsRendererBusy => last = None \/ Available(last, now)
=============================================================================
