--------------------------- MODULE RateAdaptation ---------------------------
(***************************************************************************)
(* The loop that adapts the bit rate: a segment of the representation in   *)
(* use is downloaded, its throughput measured (DASHReceiver), the          *)
(* measurement put into the trace of the logic (MultimediaManager), and    *)
(* the logic chooses the representation of the next segment.  One segment  *)
(* is one step: all of it runs in the buffering thread.                    *)
(*                                                                         *)
(* Numbers are scaled down with the width of a word; what is 2^32 in the   *)
(* code is WordModulus here, and the limits of the code keep their ratio   *)
(* to it.  The logics QoeFair and Game maximise a floating-point utility:  *)
(* here they may choose anything.                                          *)
(***************************************************************************)
EXTENDS Word, SequencesExt

CONSTANTS Bandwidth,      \* of each representation, in the order of the MPD
          SegmentBytes,   \* size of a segment of each representation
          Speeds,         \* bits per second that the network may give
          Fills,          \* fill levels of the segment buffer in percent
          TraceCapacity,  \* THROUGHPUTTRACE_SIZE
          MillisPerSecond

Representations == DOMAIN Bandwidth

ASSUME AdaptationAssumption ==
    /\ Bandwidth \in Seq(0..WordModulus - 1) /\ Bandwidth # <<>>
    /\ SegmentBytes \in [Representations -> 0..WordModulus - 1]
    /\ Speeds \subseteq Nat \ {0}
    /\ Fills \subseteq Nat
    /\ TraceCapacity \in Nat \ {0}
    /\ MillisPerSecond \in Nat \ {0}
    /\ WordModulus \in Nat \ {0}

VARIABLES adaptation,      \* the logic the user has chosen
          representation,  \* of the next segment
          last_index,      \* the logic's memory of it
          throughputTrace, \* bit rates of the last segments, newest last
          speed,           \* what the network gives now
          crashed          \* an index was out of range

rateVars == <<adaptation, representation, last_index, throughputTrace, speed, crashed>>

Logics == {"QoeFair", "RateBase", "RateBufferBase", "Game"}

\* The index of a representation that does not exist.
OutOfRange == 0

\* RateBufferBaseAdaptation does not initialise its last_index.
RateInit ==
    /\ adaptation \in Logics
    /\ representation \in Representations
    /\ last_index \in IF adaptation = "RateBufferBase" THEN Representations \cup {OutOfRange}
                                                       ELSE {1}
    /\ throughputTrace = <<>>
    /\ speed \in Speeds
    /\ crashed = FALSE

-----------------------------------------------------------------------------
(* The measurement *)

Bits(r) == SegmentBytes[r] * 8 * MillisPerSecond

\* The clock counts milliseconds.  It is read before and after, and either
\* reading loses its fraction: their difference is too small or too large.
ElapsedTimes(r) ==
    LET time == Bits(r) \div speed IN
    IF Bits(r) % speed = 0 THEN {time} ELSE {time, time + 1}

\* DASHReceiver::UpdateThroughput.  The size is multiplied in 32 bits.  For a
\* segment that took no time the code means to use 1 but does not: it divides
\* by zero, and what the cast makes of infinity depends on the processor.
MeasuredBitRates(r) ==
    UNION {IF time = 0 THEN {0, WordModulus - 1} ELSE {Uint(Bits(r)) \div time} :
              time \in ElapsedTimes(r)}

\* Mutant: a full trace keeps what it has.
UpdatedTraceKept(bitRate) ==
    LET trace == Append(throughputTrace, bitRate) IN
    IF Len(trace) > TraceCapacity THEN throughputTrace ELSE trace

\* UpdateThroughputTraceAdaptationParameter
UpdatedTrace(bitRate) ==
    LET trace == Append(throughputTrace, bitRate) IN
    IF Len(trace) > TraceCapacity THEN Tail(trace) ELSE trace

-----------------------------------------------------------------------------
(* RateBaseAdaptation *)

Product(trace) ==
    LET upTo[i \in 0..Len(trace)] == IF i = 0 THEN 1 ELSE upTo[i - 1] * trace[i]
    IN upTo[Len(trace)]

\* The harmonic mean of the trace, as a fraction.  A rate of zero makes the
\* sum of the inverses infinite and the mean zero.
Numerator(trace) == Len(trace) * Product(trace)
Denominator(trace) ==
    LET Without(i) == Product(SubSeq(trace, 1, i - 1) \o SubSeq(trace, i + 1, Len(trace)))
        upTo[i \in 0..Len(trace)] == IF i = 0 THEN 0 ELSE upTo[i - 1] + Without(i)
    IN IF Product(trace) = 0 THEN 1 ELSE upTo[Len(trace)]

Abs(n) == IF n < 0 THEN -n ELSE n

\* Distance of a bandwidth from the mean, times the denominator.
Distance(r, trace) == Abs(Bandwidth[r] * Denominator(trace) - Numerator(trace))

\* 0x1FFFFFFF: what is farther off is not looked at.
MinValue == WordModulus \div 8 - 1

\* Mutant: the loop remembers the distance and forgets the index.
CloserForgotten(best, r, trace) ==
    IF best.minValue * Denominator(trace) > Distance(r, trace)
    THEN [best EXCEPT !.minValue = Distance(r, trace) \div Denominator(trace)]
    ELSE best

\* One round of the loop.  minValue is an int: the distance loses its fraction
\* when it is stored.
Closer(best, r, trace) ==
    IF best.minValue * Denominator(trace) > Distance(r, trace)
    THEN [minValue |-> Distance(r, trace) \div Denominator(trace), index |-> r]
    ELSE best

\* The first one is the answer if none comes closer than MinValue.
Nearest(trace) ==
    LET upTo[r \in 0..Len(Bandwidth)] ==
            IF r = 0 THEN [minValue |-> MinValue, index |-> 1]
                     ELSE Closer(upTo[r - 1], r, trace)
    IN upTo[Len(Bandwidth)].index

-----------------------------------------------------------------------------
(* RateBufferBaseAdaptation *)

\* The first of those whose bandwidth is closest to the last one's.
Closest(candidates) ==
    LET Gap(r) == Abs(Bandwidth[r] - Bandwidth[last_index]) IN
    IF candidates = {} THEN 1
    ELSE CHOOSE r \in candidates : \A q \in candidates :
            Gap(r) < Gap(q) \/ (Gap(r) = Gap(q) /\ r <= q)

\* The largest below the last one that the network carries; one of 0 is not
\* larger than what the search starts from.
StepDown(download_speed) ==
    Closest({r \in Representations : /\ Bandwidth[r] < Bandwidth[last_index]
                                     /\ Bandwidth[r] < download_speed
                                     /\ Bandwidth[r] > 0})

\* 999999999.99, in its ratio to a word: the search for a smallest starts here.
highest_bitrate == (WordModulus * 1000) \div 4295

\* Mutant: the last one is a candidate too.
StepUpOrStay(download_speed) ==
    Closest({r \in Representations : /\ Bandwidth[r] >= Bandwidth[last_index]
                                     /\ Bandwidth[r] < download_speed
                                     /\ Bandwidth[r] < highest_bitrate})

\* The smallest above the last one.  Without a candidate it is the first one.
StepUp(download_speed) ==
    Closest({r \in Representations : /\ Bandwidth[r] > Bandwidth[last_index]
                                     /\ Bandwidth[r] < download_speed
                                     /\ Bandwidth[r] < highest_bitrate})

LowFill(fillPercent) == (fillPercent * 50) \div 100 < 8

Step(trace, fillPercent) ==
    IF LowFill(fillPercent) THEN StepDown(Last(trace)) ELSE StepUp(Last(trace))

-----------------------------------------------------------------------------



\* IAdaptationLogic::GetRepresentation
Eligible(trace) ==
    CASE adaptation = "RateBase"       -> {Nearest(trace)}
      [] adaptation = "RateBufferBase" -> {Step(trace, f) : f \in Fills}
      [] OTHER                         -> Representations

Usable == adaptation # "RateBufferBase" \/ last_index # OutOfRange

\* MultimediaManager::OnSegmentDownloaded
OnSegmentDownloaded ==
    /\ ~crashed
    /\ Usable
    /\ \E bitRate \in MeasuredBitRates(representation) :
          /\ throughputTrace' = UpdatedTrace(bitRate)
          /\ \E r \in Eligible(UpdatedTrace(bitRate)) :
                /\ representation' = r
                /\ last_index' = IF adaptation = "RateBase" THEN last_index ELSE r
    /\ UNCHANGED <<adaptation, speed, crashed>>

\* std::vector::at throws, and nobody catches.
LastIndexThrows ==
    /\ ~crashed
    /\ ~Usable
    /\ crashed' = TRUE
    /\ UNCHANGED <<adaptation, representation, last_index, throughputTrace, speed>>

NetworkChanges ==
    /\ speed' \in Speeds
    /\ UNCHANGED <<adaptation, representation, last_index, throughputTrace, crashed>>

RateNext == OnSegmentDownloaded \/ LastIndexThrows \/ NetworkChanges

RateSpec == RateInit /\ [][RateNext]_rateVars

\* Segments are downloaded as long as the stream lasts.
FairRateSpec == RateSpec /\ WF_rateVars(OnSegmentDownloaded \/ LastIndexThrows)

-----------------------------------------------------------------------------
(* Properties *)

\* Every variable has its type: a measurement fits its word, the trace its
\* capacity, and a logic that has chosen once has chosen what exists.
RateTypeOK ==
    /\ adaptation \in Logics
    /\ representation \in Representations
    /\ last_index \in Representations \cup {OutOfRange}
    /\ last_index = OutOfRange => throughputTrace = <<>>
    /\ throughputTrace \in Seq(0..WordModulus - 1)
    /\ Len(throughputTrace) <= TraceCapacity
    /\ speed \in Speeds
    /\ crashed \in BOOLEAN

\* RateBase: the representation in use is nearest to the predicted bandwidth,
\* but for the fraction that the comparison loses, unless all of them are too
\* far off for its integers: then it is the first one, on a fast network too.
NearestToPrediction ==
    adaptation = "RateBase" /\ throughputTrace # <<>> =>
        LET d    == Denominator(throughputTrace)
            D(r) == Distance(r, throughputTrace)
        IN IF \E r \in Representations : D(r) < MinValue * d
           THEN \A r \in Representations : D(representation) < D(r) + d
           ELSE representation = 1

\* RateBufferBase: no two choices in a row are the same, unless they are the
\* first one.  Whatever the network and the buffer do, the logic does not keep
\* a quality that it has reached.  Its first choice compares with an index that
\* nobody has set, so it may be what the user has chosen.
NeverStays ==
    [][adaptation = "RateBufferBase" /\ OnSegmentDownloaded =>
          representation' # last_index \/ representation' = 1]_rateVars

\* The representation for every rate that is measured or given.
Answer == [rate \in 0..Max(Speeds \cup {WordModulus}) |-> Nearest(<<rate>>)]

Between(a, b) == IF a <= b THEN a..b ELSE b..a

\* The last segment has been measured so wrongly that between its bit rate and
\* the one of the network the answer changes: its size wrapped around, or the
\* milliseconds are too coarse for how close the bandwidths are.
MeasuredWrongly ==
    /\ throughputTrace # <<>>
    /\ \E rate \in Between(Last(throughputTrace), speed) : Answer[rate] # Answer[speed]

\* RateBase: on a steady network the choice comes to rest on the representation
\* nearest to what the network gives, whatever the measurements were before and
\* although the mean and the distances lose fractions, unless again and again
\* a segment is measured wrongly.
SettlesIfMeasuredRight ==
    adaptation = "RateBase" =>
        \A s \in Speeds :
            <>[](speed = s) => \/ <>[](representation = Answer[s])
                               \/ []<>MeasuredWrongly
=============================================================================
