------------------------ MODULE SegmentNumbersProofs ------------------------
(* Proofs about SegmentNumbers; and about RateAdaptation, whose loops need the
   same induction. *)
EXTENDS SegmentNumbers, RateAdaptation, FiniteSetTheorems, TLAPS

\* A number in a word is a number in a word, and wrapping around never makes a
\* number larger.
LEMMA UintInWord ==
    ASSUME NEW n \in Int PROVE Uint(n) \in 0..WordModulus - 1
BY NumbersAssumption, Z3 DEF Uint

LEMMA UintAtMost ==
    ASSUME NEW n \in Nat PROVE Uint(n) <= n
BY NumbersAssumption, Z3 DEF Uint

LEMMA QuotientInWord ==
    ASSUME NEW n \in 0..WordModulus - 1, NEW d \in Nat, d > 0
    PROVE  n \div d \in 0..WordModulus - 1
BY NumbersAssumption, Z3

LEMMA TimesMonotone ==
    ASSUME NEW a \in Int, NEW b \in Int, NEW c \in Nat, a <= b
    PROVE  a * c <= b * c
BY Z3

LEMMA Distributive ==
    ASSUME NEW a \in Int, NEW b \in Int, NEW c \in Int
    PROVE  /\ (a + b) * c = a * c + b * c
           /\ (a - b) * c = a * c - b * c
BY Z3

\* What TypeOK says of the presentation.
LEMMA Fields ==
    ASSUME TypeOK
    PROVE  /\ mpd.duration \in Nat
           /\ mpd.timescale \in Nat
           /\ mpd.availabilityStarttime \in Nat
           /\ mpd.timeShiftBufferDepth \in Nat
           /\ Dynamic => mpd.duration > 0
           /\ mpd.type \in {"static", "dynamic"}
<1>1. mpd \in MPDs
    BY DEF TypeOK
<1>2. mpd \in Presentations
    BY <1>1, NumbersAssumption
<1> QED
    BY <1>1, <1>2, NumbersAssumption DEF Presentations, Dynamic

-----------------------------------------------------------------------------

\* The receiver starts at a number that fits its word.
LEMMA OffsetInWord ==
    ASSUME NEW m \in MPDs, NEW t \in Nat
    PROVE  CalculateSegmentOffset(m, t) \in 0..WordModulus - 1
<1>1. m \in Presentations
    BY NumbersAssumption
<1>2. /\ m.duration \in Nat
      /\ m.availabilityStarttime \in Nat
      /\ m.timeShiftBufferDepth \in Nat
      /\ m.type \in {"static", "dynamic"}
      /\ m.type = "dynamic" => m.duration > 0
    BY <1>1, NumbersAssumption DEF Presentations
<1>3. CASE m.type = "static"
    BY <1>3, NumbersAssumption DEF CalculateSegmentOffset
<1>4. CASE m.type = "dynamic"
    <2>1. GetFirstSegmentNumber(m, t) \in 0..WordModulus - 1
        <3>1. Uint(t - m.duration - m.availabilityStarttime - m.timeShiftBufferDepth)
                \in 0..WordModulus - 1
            BY <1>2, UintInWord
        <3> QED
            BY <1>2, <1>4, <3>1, QuotientInWord
            DEF GetFirstSegmentNumber, GetAverageSegmentDuration
    <2>2. GetCurrentSegmentNumber(m, t) \in 0..WordModulus - 1
        <3>1. Uint(t - m.duration - m.availabilityStarttime) \in 0..WordModulus - 1
            BY <1>2, UintInWord
        <3> QED
            BY <1>2, <1>4, <3>1, QuotientInWord
            DEF GetCurrentSegmentNumber, GetAverageSegmentDuration
    <2>3. Uint(GetCurrentSegmentNumber(m, t) - 2 * BufferSize) \in 0..WordModulus - 1
        <3>1. GetCurrentSegmentNumber(m, t) - 2 * BufferSize \in Int
            BY <2>2, NumbersAssumption
        <3> QED
            BY <3>1, UintInWord
    <2> QED
        BY <1>4, <2>1, <2>3 DEF CalculateSegmentOffset
<1> QED
    BY <1>2, <1>3, <1>4

\* Every variable keeps its type; the receiver is never more than one segment
\* ahead of a full buffer.
THEOREM TypeCorrect == Spec => []TypeOK
<1>1. Init => TypeOK
    <2> SUFFICES ASSUME Init PROVE TypeOK
        OBVIOUS
    <2>1. mpd \in MPDs /\ mpd \in Presentations
        BY NumbersAssumption DEF Init
    <2>2. now \in 0..MaxTime /\ began \in 0..now
        BY <2>1, NumbersAssumption DEF Init, Presentations
    <2>3. segmentOffset \in 0..WordModulus - 1
        BY <2>1, <2>2, OffsetInWord DEF Init
    <2>4. /\ segmentNumber \in Nat /\ taken \in Nat /\ frames \in Nat /\ queued \in 0..BufferSize + 1
          /\ last \in 0..WordModulus - 1 \cup {None}
        BY NumbersAssumption DEF Init
    <2>5. ended \in BOOLEAN
        BY DEF Init
    <2> QED
        BY <2>1, <2>2, <2>3, <2>4, <2>5 DEF TypeOK
<1>2. TypeOK /\ [Next]_vars => TypeOK'
    <2> SUFFICES ASSUME TypeOK, [Next]_vars PROVE TypeOK'
        OBVIOUS
    <2> USE NumbersAssumption
    <2>1. CASE GetNextSegment
        <3>1. segmentNumber + segmentOffset \in Int
            BY DEF TypeOK
        <3>2. Uint(segmentNumber + segmentOffset) \in 0..WordModulus - 1
            BY <3>1, UintInWord
        <3> QED
            BY <2>1, <3>2 DEF TypeOK, GetNextSegment
    <2>2. CASE GetNoSegment
        BY <2>2 DEF TypeOK, GetNoSegment
    <2>3. CASE SetPeriod
        BY <2>3 DEF TypeOK, SetPeriod
    <2>4. CASE GetFront
        <3>1. /\ UNCHANGED <<mpd, now, began, segmentOffset, segmentNumber, last, ended>>
              /\ queued > 0 /\ queued' = queued - 1
            BY <2>4 DEF GetFront
        <3>2. taken' \in Nat /\ frames' \in Nat
            BY <2>4 DEF TypeOK, GetFront
        <3> QED
            BY <3>1, <3>2 DEF TypeOK
    <2>5. CASE Tick
        BY <2>5 DEF TypeOK, Tick
    <2>6. CASE UNCHANGED vars
        BY <2>6 DEF TypeOK, vars
    <2> QED
        BY <2>1, <2>2, <2>3, <2>4, <2>5, <2>6 DEF Next
<1> QED
    BY <1>1, <1>2, PTL DEF Spec

-----------------------------------------------------------------------------

\* What the receiver has asked for is in the buffer or was taken; what the
\* decoders have finished has been rendered, but for a frame buffer and a frame.
Paced ==
    Dynamic =>
        /\ segmentNumber <= taken + queued
        /\ last # None => last + 1 <= segmentOffset + taken + queued
        /\ Renders(frames)

\* A frame that was rendered in time is so later on.
LEMMA RendersLater ==
    ASSUME TypeOK, Tick, Renders(frames)
    PROVE  Renders(frames)'
<1> DEFINE C == (FrameBuffer + 1) * FrameSleep
           before == (now - began + 1) * Second
           after == (now' - began + 1) * Second
           N == frames * FrameSleep
<1>1. /\ now' = now + 1 /\ UNCHANGED <<began, frames>>
      /\ now \in Nat /\ began \in Nat /\ frames \in Nat
    BY NumbersAssumption DEF Tick, TypeOK
<1>2. before <= after
    BY <1>1, NumbersAssumption, TimesMonotone
<1>3. C \in Int /\ before \in Int /\ after \in Int /\ N \in Int
    BY <1>1, NumbersAssumption
<1>4. N <= before + C
    BY DEF Renders
<1>5. N <= after + C
    <2> HIDE DEF C, before, after, N
    <2> QED
        BY <1>2, <1>3, <1>4
<1> QED
    BY <1>1, <1>5 DEF Renders

LEMMA PacedInit == Init /\ TypeOK => Paced
<1> SUFFICES ASSUME Init, TypeOK PROVE Paced
    OBVIOUS
<1>1. Renders(0)
    <2>1. 0 <= (FrameBuffer + 1) * FrameSleep
        BY NumbersAssumption, Z3
    <2>2. /\ (now - began + 1) * Second = Second
          /\ 0 * FrameSleep = 0
          /\ (FrameBuffer + 1) * FrameSleep \in Int
        BY NumbersAssumption DEF Init, TypeOK
    <2> QED
        BY <2>1, <2>2, NumbersAssumption DEF Renders
<1> QED
    BY <1>1 DEF Init, Paced

LEMMA PacedNext == TypeOK /\ Paced /\ [Next]_vars => Paced'
<1> SUFFICES ASSUME TypeOK, Paced, [Next]_vars, Dynamic PROVE Paced'
    <2>1. [Next]_vars => mpd' = mpd
        BY DEF Next, vars, GetNextSegment, GetNoSegment, SetPeriod, GetFront, Tick
    <2> QED
        BY <2>1 DEF Paced, Dynamic
<1>1. /\ segmentNumber \in Nat /\ segmentOffset \in Nat /\ taken \in Nat /\ queued \in Nat
      /\ now \in Nat /\ began \in Nat /\ last \in Int /\ None \in Int
    BY NumbersAssumption DEF TypeOK, None
<1>2. CASE GetNextSegment
    <2>1. Uint(segmentNumber + segmentOffset) <= segmentNumber + segmentOffset
        BY <1>1, UintAtMost
    <2>2. Uint(segmentNumber + segmentOffset) \in Int
        BY <1>1, UintInWord
    <2>3. UNCHANGED <<now, began, frames>>
        BY <1>2 DEF GetNextSegment
    <2>4. Renders(frames)'
        BY <2>3 DEF Paced, Renders
    <2> QED
        BY <1>1, <1>2, <2>1, <2>2, <2>4 DEF Paced, GetNextSegment, Dynamic
<1>3. CASE GetNoSegment
    BY <1>3 DEF Paced, GetNoSegment, Dynamic, Renders
<1>4. CASE SetPeriod
    BY <1>1, <1>4 DEF Paced, SetPeriod, Dynamic, Renders
<1>5. CASE GetFront
    <2>1. /\ taken' = taken + 1 /\ queued' = queued - 1
          /\ UNCHANGED <<mpd, now, began, segmentOffset, segmentNumber, last>>
          /\ Renders(frames')
        BY <1>5 DEF GetFront
    <2>2. Renders(frames)'
        BY <2>1 DEF Renders
    <2> QED
        BY <1>1, <2>1, <2>2 DEF Paced
<1>6. CASE Tick
    <2>1. UNCHANGED <<mpd, segmentOffset, segmentNumber, last, queued, taken>>
        BY <1>6 DEF Tick
    <2>2. Renders(frames)'
        BY <1>6, RendersLater DEF Paced
    <2> QED
        BY <2>1, <2>2 DEF Paced
<1>7. CASE UNCHANGED vars
    BY <1>7 DEF Paced, vars, Dynamic, Renders
<1> QED
    BY <1>2, <1>3, <1>4, <1>5, <1>6, <1>7 DEF Next

LEMMA Rearranged ==
    ASSUME NEW n \in Int, NEW s \in Int, NEW t \in Int, NEW z \in Int
    PROVE  (n * s + z) * t = (n * t) * s + z * t
BY Z3

LEMMA AtMostCancels ==
    ASSUME NEW a \in Int, NEW b \in Int, NEW d \in Nat \ {0}, a * d <= b * d
    PROVE  a <= b
BY Z3

LEMMA PacedNotAhead == TypeOK /\ Paced => NeverAhead
<1> SUFFICES ASSUME TypeOK, Paced, Dynamic, StartsBehind, KeepsRendererBusy, last # None
             PROVE  Available(last, now)
    BY DEF NeverAhead
<1> DEFINE D == mpd.duration
           ts == mpd.timescale
           A == mpd.availabilityStarttime * ts
           K == segmentOffset + BufferSize + 2
           F == frames * FrameSleep
           X == (taken - 1) * D
           P == A + K * D
           Q == began * ts
           Y == (now - began) * ts
<1>1. /\ segmentOffset \in Nat /\ taken \in Nat /\ queued \in Nat /\ queued <= BufferSize + 1
      /\ now \in Nat /\ began \in Nat /\ last \in Int /\ frames \in Nat
      /\ K \in Int
    BY NumbersAssumption DEF TypeOK, None
<1>2. D \in Nat /\ ts \in Nat /\ mpd.availabilityStarttime \in Nat
    BY Fields
<1>3. /\ A \in Int /\ F \in Int /\ X \in Int /\ Q \in Int /\ Y \in Int /\ K * D \in Int
      /\ Slack \in Int /\ Slack * ts \in Int /\ Second \in Nat \ {0}
    <2>1. Slack \in Int /\ FrameSleep \in Int /\ Second \in Nat \ {0}
        BY NumbersAssumption DEF Slack
    <2>2. A \in Int /\ Q \in Int /\ Slack * ts \in Int
        BY <1>1, <1>2, <2>1
    <2>3. F \in Int /\ X \in Int
        BY <1>1, <1>2, <2>1
    <2>4. Y \in Int /\ K * D \in Int
        BY <1>1, <1>2
    <2> QED
        BY <2>1, <2>2, <2>3, <2>4
<1>4. P \in Int
    BY <1>3
\* What the decoders have finished is no more than the time that has passed.
<1>5. X * Second <= Y * Second + Slack * ts
    <2> DEFINE n == now - began
    <2>1. n \in Int
        BY <1>1
    <2>2. F <= n * Second + Slack
        <3>1. (n + 1) * Second = n * Second + Second
            BY <2>1, <1>3, Distributive
        <3>2. F <= (n + 1) * Second + (FrameBuffer + 1) * FrameSleep
            BY DEF Paced, Renders
        <3>3. n * Second \in Int /\ (FrameBuffer + 1) * FrameSleep \in Int
            BY <2>1, NumbersAssumption
        <3> HIDE DEF F, n
        <3> QED
            BY <1>3, <3>1, <3>2, <3>3 DEF Slack
    <2>3. n * Second \in Int /\ n * Second + Slack \in Int
        BY <2>1, <1>3
    <2>4. F * ts <= (n * Second + Slack) * ts
        <3> HIDE DEF F, n, ts
        <3> QED
            BY <1>2, <1>3, <2>2, <2>3, TimesMonotone
    <2>5. (n * Second + Slack) * ts = (n * ts) * Second + Slack * ts
        <3> HIDE DEF n, ts
        <3> QED
            BY <1>2, <1>3, <2>1, Rearranged
    <2>6. X * Second <= F * ts
        BY DEF KeepsRendererBusy
    <2>7. /\ X * Second \in Int /\ F * ts \in Int /\ Y * Second \in Int
          /\ (n * Second + Slack) * ts \in Int
        BY <1>2, <1>3, <2>3
    <2>8. (n * ts) * Second = Y * Second
        OBVIOUS
    <2> HIDE DEF X, F, Y, ts, n
    <2> QED
        BY <1>3, <2>4, <2>5, <2>6, <2>7, <2>8
<1>6. P * Second + Slack * ts <= Q * Second
    BY DEF StartsBehind
<1>7. P + X <= Q + Y
    <2>1. /\ (P + X) * Second = P * Second + X * Second
          /\ (Q + Y) * Second = Q * Second + Y * Second
        <3> HIDE DEF P, X, Q, Y
        <3> QED
            BY <1>3, <1>4, Distributive
    <2>2. /\ P * Second \in Int /\ X * Second \in Int
          /\ Q * Second \in Int /\ Y * Second \in Int
        BY <1>3, <1>4
    <2>3. (P + X) * Second <= (Q + Y) * Second
        <3> HIDE DEF P, X, Q, Y, ts
        <3> QED
            BY <1>3, <1>5, <1>6, <2>1, <2>2
    <2> HIDE DEF P, X, Q, Y
    <2> QED
        BY <1>3, <1>4, <2>3, AtMostCancels
<1>8. Q + Y = now * ts
    <2>1. Y = now * ts - Q
        BY <1>1, <1>2, Distributive
    <2>2. now * ts \in Int
        BY <1>1, <1>2
    <2> HIDE DEF Q, Y
    <2> QED
        BY <1>3, <2>1, <2>2
\* The last segment is at most a full buffer and one beyond them.
<1>9. (last + 1) * D <= K * D + X
    <2>1. last + 1 <= K + (taken - 1)
        <3>1. last + 1 <= segmentOffset + taken + queued
            BY DEF Paced
        <3>2. BufferSize \in Nat
            BY NumbersAssumption
        <3> QED
            BY <1>1, <3>1, <3>2
    <2>2. (last + 1) * D <= (K + (taken - 1)) * D
        BY <1>1, <1>2, <2>1, TimesMonotone
    <2>3. (K + (taken - 1)) * D = K * D + (taken - 1) * D
        BY <1>1, <1>2, Distributive
    <2> QED
        BY <2>2, <2>3
<1>10. A + (last + 1) * D <= now * ts
    <2>1. (last + 1) * D \in Int /\ now * ts \in Int
        BY <1>1, <1>2
    <2>2. P = A + K * D
        OBVIOUS
    <2> HIDE DEF A, K, P, X, Q, Y, ts, D
    <2> QED
        BY <1>3, <1>7, <1>8, <1>9, <2>1, <2>2
<1> QED
    BY <1>10 DEF Available

\* For every size of the buffers, every timescale, duration and pace of the
\* renderer: a receiver that starts far enough behind the live edge never asks
\* for a segment too early, as long as the segments keep the renderer busy.
THEOREM LiveEdgeNotOvertaken == Spec => []NeverAhead
<1>1. Init /\ TypeOK => Paced
    BY PacedInit
<1>2. TypeOK /\ Paced /\ [Next]_vars => Paced'
    BY PacedNext
<1>3. TypeOK /\ Paced => NeverAhead
    BY PacedNotAhead
<1> QED
    BY <1>1, <1>2, <1>3, TypeCorrect, PTL DEF Spec

-----------------------------------------------------------------------------

LEMMA DivBounds ==
    ASSUME NEW n \in Int, NEW d \in Nat, d > 0
    PROVE  /\ n \div d \in Int
           /\ (n \div d) * d <= n
           /\ n < (n \div d) * d + d
BY Z3

LEMMA TimesCancel ==
    ASSUME NEW a \in Int, NEW b \in Int, NEW d \in Nat, a * d < b * d
    PROVE  a < b
<1> SUFFICES ASSUME b <= a PROVE FALSE
    OBVIOUS
<1>1. b * d <= a * d
    BY TimesMonotone
<1>2. a * d \in Int /\ b * d \in Int
    OBVIOUS
<1> QED
    BY <1>1, <1>2

\* What wraps around once.
LEMMA UintOnce ==
    ASSUME NEW n \in Int
    PROVE  /\ n \in 0..WordModulus - 1 => Uint(n) = n
           /\ n \in -WordModulus..-1 => Uint(n) = n + WordModulus
BY NumbersAssumption, Z3 DEF Uint

\* The number that CalculateSegmentOffset finds, when the presentation has gone
\* on for `age` seconds.  Segments that have ended are older than d seconds, so
\* nothing is there before; the receiver wants to stay 2 * BufferSize segments
\* behind, and not to fall out of the time shift buffer.
LEMMA EntryPoint ==
    ASSUME NEW m \in MPDs, m.type = "dynamic",
           NEW t \in 0..MaxTime, t >= m.availabilityStarttime
    PROVE  LET d     == m.duration
               depth == m.timeShiftBufferDepth
               age   == t - m.availabilityStarttime
               num   == CalculateSegmentOffset(m, t)
           IN ((num + 1) * d <= age /\ age - depth < (num + 2) * d)
                <=> (age >= depth + d /\ age >= (2 * BufferSize + 1) * d)
<1> DEFINE d == m.duration
           depth == m.timeShiftBufferDepth
           age == t - m.availabilityStarttime
           num == CalculateSegmentOffset(m, t)
           x == age - d
           B == 2 * BufferSize
           cur == Uint(x) \div d
           first == Uint(x - depth) \div d
           start == Uint(cur - B)
<1>1. /\ WordModulus \in Nat \ {0} /\ B \in Nat /\ B > 0 /\ B < WordModulus
      /\ m.availabilityStarttime \in Nat
      /\ d \in Nat /\ d > 0 /\ depth \in Nat /\ depth + d <= WordModulus
      /\ age \in Nat /\ age < WordModulus /\ x \in Int /\ x = age - d
    <2>1. m \in Presentations /\ m.duration > 0
        BY NumbersAssumption
    <2>2. /\ m.availabilityStarttime \in Nat /\ d \in Nat /\ d > 0 /\ depth \in Nat
        BY <2>1, NumbersAssumption DEF Presentations
    <2>3. depth + d <= WordModulus
        BY WordAssumption
    <2>4. WordModulus \in Nat \ {0} /\ B \in Nat /\ B > 0 /\ B < WordModulus
        BY NumbersAssumption, WordAssumption
    <2>5. age \in Nat /\ age < WordModulus /\ x \in Int /\ x = age - d
        BY <2>2, NumbersAssumption, WordAssumption
    <2> QED
        BY <2>2, <2>3, <2>4, <2>5
<1>n. num \in Nat /\ num = IF start > first THEN start ELSE first
    <2>1. /\ t - d - m.availabilityStarttime - depth = x - depth
          /\ t - d - m.availabilityStarttime = x
        BY <1>1
    <2>2. num \in 0..WordModulus - 1
        BY NumbersAssumption, OffsetInWord
    <2> QED
        BY <2>1, <2>2 DEF CalculateSegmentOffset, GetFirstSegmentNumber,
                           GetCurrentSegmentNumber, GetAverageSegmentDuration
<1>f. first = Uint(x - depth) \div d /\ start = Uint(cur - B) /\ cur = Uint(x) \div d
    OBVIOUS
<1> SUFFICES ((num + 1) * d <= age /\ age - depth < (num + 2) * d)
                <=> (age >= depth + d /\ age >= (B + 1) * d)
    OBVIOUS
<1> HIDE DEF d, depth, age, num, x, B, cur, first, start
<1>2. /\ (num + 1) * d = num * d + d
      /\ (num + 2) * d = num * d + 2 * d
      /\ (B + 1) * d = B * d + d
      /\ num * d \in Nat /\ B * d \in Nat
    BY <1>1, <1>n, Distributive
<1>3. CASE age < d
    BY <1>1, <1>n, <1>2, <1>3
<1>4. CASE age >= d
    <2>1. x \in 0..WordModulus - 1 /\ Uint(x) = x
        BY <1>1, <1>4, UintOnce
    <2>2. cur \in Int /\ cur * d <= x /\ x < cur * d + d /\ cur \in 0..WordModulus - 1
        BY <1>1, <1>f, <2>1, DivBounds, QuotientInWord
    <2>3. cur * d \in Int /\ (cur + 1) * d = cur * d + d /\ (cur + 1) * d \in Int
        BY <1>1, <2>2, Distributive
    <2>4. Uint(x - depth) \in 0..WordModulus - 1
        BY <1>1, <2>1, UintInWord
    <2>5. /\ first \in Int /\ first * d <= Uint(x - depth) /\ Uint(x - depth) < first * d + d
          /\ first * d \in Int
        BY <1>1, <1>f, <2>4, DivBounds
    <2>6. start \in 0..WordModulus - 1
        <3>1. cur - B \in Int
            BY <1>1, <2>2
        <3> QED
            BY <1>f, <3>1, UintInWord
    <2>7. num >= start /\ num >= first /\ (num = start \/ num = first)
        BY <1>n, <2>5, <2>6
    <2>8. CASE age < (B + 1) * d
        <3>1. cur * d < B * d
            BY <1>1, <1>2, <2>1, <2>2, <2>3, <2>8
        <3>2. cur < B
            BY <1>1, <2>2, <3>1, TimesCancel
        <3>3. start = cur - B + WordModulus
            <4>1. cur - B \in Int /\ cur - B \in -WordModulus..-1
                BY <1>1, <2>2, <3>2
            <4> QED
                BY <1>f, <4>1, UintOnce
        <3>4. cur + 1 <= num
            <4>1. start >= cur + 1 /\ start \in Int
                <5>1. cur \in Int
                    BY <2>2
                <5> QED
                    BY <1>1, <3>3, <5>1
            <4>2. num >= start /\ cur \in Int /\ num \in Nat
                BY <1>n, <2>2, <2>7
            <4> QED
                BY <4>1, <4>2
        <3>5. (cur + 1) * d <= num * d
            <4>1. cur + 1 \in Int /\ num \in Int /\ d \in Nat
                BY <1>1, <1>n, <2>2
            <4> QED
                BY <3>4, <4>1, TimesMonotone
        <3> QED
            BY <1>1, <1>n, <1>2, <2>2, <2>3, <2>8, <3>5
    <2>9. CASE age >= (B + 1) * d /\ age < depth + d
        <3>1. Uint(x - depth) = x - depth + WordModulus
            BY <1>1, <2>1, <2>9, UintOnce
        <3>2. x < first * d
            BY <1>1, <2>5, <3>1
        <3>3. first * d <= num * d
            BY <1>1, <1>n, <2>5, <2>7, TimesMonotone
        <3> QED
            BY <1>1, <1>n, <1>2, <2>5, <2>9, <3>2, <3>3
    <2>10. CASE age >= (B + 1) * d /\ age >= depth + d
        <3>1. Uint(x - depth) = x - depth
            BY <1>1, <2>1, <2>10, UintOnce
        <3>2. B * d < (cur + 1) * d
            BY <1>1, <1>2, <2>2, <2>3, <2>10
        <3>3. B < cur + 1
            BY <1>1, <2>2, <3>2, TimesCancel
        <3>4. start = cur - B
            BY <1>1, <1>f, <2>2, <3>3, UintOnce
        <3>5. first * d < (cur + 1) * d
            BY <1>1, <2>2, <2>3, <2>5, <3>1
        <3>6. first < cur + 1
            BY <1>1, <2>2, <2>5, <3>5, TimesCancel
        <3>7. num <= cur
            BY <1>1, <1>n, <2>2, <2>5, <2>7, <3>4, <3>6
        <3>8. num * d <= cur * d /\ first * d <= num * d
            BY <1>1, <1>n, <2>2, <2>5, <2>7, <3>7, TimesMonotone
        <3> QED
            BY <1>1, <1>n, <1>2, <2>2, <2>3, <2>5, <2>10, <3>1, <3>8
    <2> QED
        BY <1>1, <1>2, <2>8, <2>9, <2>10
<1> QED
    BY <1>1, <1>3, <1>4

\* The offset is the one of the construction, and the clock is not behind the
\* start of the presentation.
Entered ==
    /\ segmentOffset = CalculateSegmentOffset(mpd, began)
    /\ Dynamic => began >= mpd.availabilityStarttime

LEMMA EnteredInWindow == TypeOK /\ Entered => StartsInWindow
<1> SUFFICES ASSUME TypeOK, Entered, Dynamic, mpd.timescale = 1 PROVE StartsInWindow
    BY DEF StartsInWindow
<1> DEFINE d == mpd.duration
           depth == mpd.timeShiftBufferDepth
           age == began - mpd.availabilityStarttime
<1>1. /\ mpd \in MPDs /\ d \in Nat /\ depth \in Nat /\ mpd.availabilityStarttime \in Nat
      /\ mpd.type = "dynamic" /\ began \in 0..MaxTime /\ segmentOffset \in Nat
      /\ began >= mpd.availabilityStarttime
      /\ segmentOffset = CalculateSegmentOffset(mpd, began)
    BY Fields, NumbersAssumption DEF TypeOK, Dynamic, Entered
<1>2. ((segmentOffset + 1) * d <= age /\ age - depth < (segmentOffset + 2) * d)
            <=> (age >= depth + d /\ age >= (2 * BufferSize + 1) * d)
    BY <1>1, EntryPoint
<1>3. (segmentOffset + 1) * d \in Nat /\ (segmentOffset + 2) * d \in Nat
    BY <1>1
<1>4. /\ Available(segmentOffset, began) <=> (segmentOffset + 1) * d <= age
      /\ StillThere(segmentOffset, began) <=> age - depth < (segmentOffset + 2) * d
    BY <1>1, <1>3 DEF Available, StillThere
<1> QED
    BY <1>2, <1>4 DEF StartsInWindow

\* For every presentation, buffer, clock and width of a word: the first segment
\* asked for is one that exists and is still kept if and only if the
\* presentation has run for long enough, whatever wraps around in between.
THEOREM StartsInWindowAlways == Spec => []StartsInWindow
<1>1. Init => Entered
    <2> SUFFICES ASSUME Init PROVE Entered
        OBVIOUS
    <2>1. mpd \in Presentations
        BY NumbersAssumption DEF Init
    <2>2. Dynamic => now >= mpd.availabilityStarttime
        BY <2>1, NumbersAssumption DEF Init, Presentations
    <2> QED
        BY <2>2 DEF Init, Entered
<1>2. Entered /\ [Next]_vars => Entered'
    <2> SUFFICES ASSUME Entered, [Next]_vars PROVE Entered'
        OBVIOUS
    <2>1. UNCHANGED <<mpd, began, segmentOffset>>
        BY DEF Next, vars, GetNextSegment, GetNoSegment, SetPeriod, GetFront, Tick
    <2> QED
        BY <2>1 DEF Entered, Dynamic, CalculateSegmentOffset, GetFirstSegmentNumber,
                    GetCurrentSegmentNumber, GetAverageSegmentDuration
<1> QED
    BY <1>1, <1>2, EnteredInWindow, TypeCorrect, PTL DEF Spec

-----------------------------------------------------------------------------

\* Induction over the numbers, for a set of them.  If k were missing, adding 1
\* would map the members up to k into themselves and leave out 0.
LEMMA SetInduction ==
    ASSUME NEW S, 0 \in S, \A n \in Nat : n \in S => n + 1 \in S
    PROVE  Nat \subseteq S
<1> SUFFICES ASSUME NEW k \in Nat, k \notin S PROVE FALSE
    OBVIOUS
<1> DEFINE A == S \cap (0..k)
           f == [n \in A |-> n + 1]
           B == {f[n] : n \in A}
<1>1. B \subseteq A
    OBVIOUS
<1>2. f \in [A -> B]
    OBVIOUS
<1>3. \A m, n \in A : f[m] = f[n] => m = n
    OBVIOUS
<1>4. \A b \in B : \E n \in A : f[n] = b
    OBVIOUS
<1>5. ExistsBijection(A, B)
    <2> HIDE DEF A, B, f
    <2> QED
        BY <1>2, <1>3, <1>4 DEF ExistsBijection, Bijection, Injection, IsInjective, Surjection
<1>6. IsFiniteSet(A)
    <2>1. A \in SUBSET (0..k)
        OBVIOUS
    <2>2. IsFiniteSet(0..k)
        BY FS_Interval
    <2> HIDE DEF A
    <2> QED
        BY <2>1, <2>2, FS_Subset
<1>7. Cardinality(B) = Cardinality(A)
    <2> HIDE DEF A, B, f
    <2> QED
        BY <1>5, <1>6, FS_Bijection
<1>8. A = B
    <2> HIDE DEF A, B, f
    <2> QED
        BY <1>1, <1>6, <1>7, FS_Subset
<1> QED
    BY <1>8

LEMMA BoundedInduction ==
    ASSUME NEW n \in Nat, NEW S, 0 \in S, \A i \in 1..n : i - 1 \in S => i \in S
    PROVE  0..n \subseteq S
<1> DEFINE T == {k \in Nat : k <= n => k \in S}
<1>1. 0 \in T
    OBVIOUS
<1>2. ASSUME NEW k \in Nat, k \in T PROVE k + 1 \in T
    <2>1. CASE k + 1 <= n
        <3>1. k + 1 \in 1..n /\ (k + 1) - 1 = k /\ k \in S
            BY <1>2, <2>1
        <3> QED
            BY <3>1
    <2>2. CASE k + 1 > n
        BY <2>2
    <2> QED
        BY <2>1, <2>2
<1>3. Nat \subseteq T
    <2> HIDE DEF T
    <2> QED
        BY <1>1, <1>2, SetInduction
<1> QED
    BY <1>3

\* A step that is taken n times gives a value each time.
Steps(X) == [Nat -> [X -> X]]
Runs(base, step, n, X) ==
    {f \in [0..n -> X] : f[0] = base /\ \A i \in 1..n : f[i] = step[i][f[i - 1]]}

LEMMA Iteration ==
    ASSUME NEW X, NEW base \in X, NEW step \in Steps(X), NEW n \in Nat
    PROVE  \E f : f \in Runs(base, step, n, X)
<1> USE DEF Steps
<1> DEFINE Iterates(f, k) == f[0] = base /\ \A i \in 1..k : f[i] = step[i][f[i - 1]]
           S == {k \in Nat : \E f \in [0..k -> X] : Iterates(f, k)}
<1>1. 0 \in S
    <2>1. [i \in 0..0 |-> base] \in [0..0 -> X] /\ Iterates([i \in 0..0 |-> base], 0)
        OBVIOUS
    <2> QED
        BY <2>1
<1>2. ASSUME NEW k \in Nat, k \in S PROVE k + 1 \in S
    <2>1. PICK f \in [0..k -> X] : Iterates(f, k)
        BY <1>2
    <2> DEFINE g == [i \in 0..k + 1 |-> IF i = k + 1 THEN step[k + 1][f[k]] ELSE f[i]]
    <2>2. f[k] \in X
        OBVIOUS
    <2>3. step[k + 1][f[k]] \in X
        BY <2>2
    <2>4. g \in [0..k + 1 -> X]
        BY <2>3
    <2>5. g[0] = base
        BY <2>1
    <2>6. ASSUME NEW i \in 1..k + 1 PROVE g[i] = step[i][g[i - 1]]
        <3>1. CASE i = k + 1
            BY <3>1
        <3>2. CASE i \in 1..k
            BY <2>1, <3>2
        <3> QED
            BY <3>1, <3>2
    <2>7. Iterates(g, k + 1)
        BY <2>5, <2>6
    <2> HIDE DEF g, Iterates
    <2> QED
        BY <2>4, <2>7
<1>3. Nat \subseteq S
    <2> HIDE DEF S
    <2> QED
        BY <1>1, <1>2, SetInduction
<1> QED
    BY <1>3 DEF Runs

LEMMA SequenceOf ==
    ASSUME NEW R, NEW n \in Nat, NEW f \in [1..n -> R] PROVE f \in Seq(R) /\ Len(f) = n
OBVIOUS

LEMMA ElementOf ==
    ASSUME NEW R, NEW s \in Seq(R), NEW i \in 1..Len(s) PROVE s[i] \in R
OBVIOUS

LEMMA Concatenation ==
    ASSUME NEW R, NEW a \in Seq(R), NEW b \in Seq(R)
    PROVE  /\ a \o b \in Seq(R) /\ Len(a \o b) = Len(a) + Len(b)
           /\ Len(a) \in Nat /\ Len(b) \in Nat
OBVIOUS

\* What FlattenSeq computes, if its recursion has a solution.
LEMMA FlattenIs ==
    ASSUME NEW s, Len(s) # 0, NEW f,
           f = [i \in 1..Len(s) |-> IF i = 1 THEN s[i] ELSE f[i - 1] \o s[i]]
    PROVE  \E g : /\ g = [i \in 1..Len(s) |-> IF i = 1 THEN s[i] ELSE g[i - 1] \o s[i]]
                  /\ FlattenSeq(s) = g[Len(s)]
<1> DEFINE g == CHOOSE h : h = [i \in 1..Len(s) |-> IF i = 1 THEN s[i] ELSE h[i - 1] \o s[i]]
<1>1. g = [i \in 1..Len(s) |-> IF i = 1 THEN s[i] ELSE g[i - 1] \o s[i]]
    OBVIOUS
<1>2. FlattenSeq(s) = g[Len(s)]
    BY DEF FlattenSeq
<1> QED
    BY <1>1, <1>2

-----------------------------------------------------------------------------

\* The S elements whose start times are all listed.
Listed(timeline) ==
    \A i \in DOMAIN timeline : timeline[i].start > 0 \/ timeline[i].repeat = 0

LEMMA StartTimesLength ==
    ASSUME NEW s \in [start : Nat, duration : Nat, repeat : Nat], s.start > 0 \/ s.repeat = 0
    PROVE  StartTimesOf(s) \in Seq(Int) /\ Len(StartTimesOf(s)) = s.repeat + 1
<1>1. s.start \in Nat /\ s.duration \in Nat /\ s.repeat \in Nat
    OBVIOUS
<1>2. CASE s.repeat = 0
    BY <1>1, <1>2 DEF StartTimesOf
<1>3. CASE s.repeat # 0
    <2> DEFINE f == [j \in 1..s.repeat + 1 |-> Uint(s.start + s.duration * (j - 1))]
    <2>1. StartTimesOf(s) = f
        BY <1>1, <1>3 DEF StartTimesOf
    <2>2. ASSUME NEW j \in 1..s.repeat + 1
          PROVE  Uint(s.start + s.duration * (j - 1)) \in Int
        <3>1. s.start + s.duration * (j - 1) \in Int
            BY <1>1
        <3> QED
            BY <3>1, UintInWord
    <2>3. f \in [1..s.repeat + 1 -> Int]
        BY <2>2
    <2> HIDE DEF f
    <2> QED
        BY <1>1, <2>1, <2>3
<1> QED
    BY <1>2, <1>3

\* The number of start times is the number of segments that the S elements
\* stand for.
LEMMA TimelineLength ==
    ASSUME NEW m \in Presentations, m.timeline # <<>>, Listed(m.timeline)
    PROVE  /\ Len(SegmentStartTimes(m.timeline)) = Segments(m)
           /\ Segments(m) \in Nat \ {0}
           /\ SegmentStartTimes(m.timeline) # <<>>
<1> DEFINE tl == m.timeline
           n == Len(tl)
           seqs == [i \in DOMAIN tl |-> StartTimesOf(tl[i])]
           upTo == CHOOSE u : u = [i \in 0..n |-> IF i = 0 THEN 0 ELSE u[i - 1] + tl[i].repeat + 1]
<1>1. /\ tl \in Seq([start : Nat, duration : Nat, repeat : Nat]) /\ n \in Nat \ {0}
      /\ DOMAIN tl = 1..n
    BY DEF Presentations, Timelines
<1>2. \A i \in 1..n : /\ tl[i].repeat \in Nat
                      /\ StartTimesOf(tl[i]) \in Seq(Int)
                      /\ Len(StartTimesOf(tl[i])) = tl[i].repeat + 1
    <2> SUFFICES ASSUME NEW i \in 1..n
                 PROVE  /\ tl[i].repeat \in Nat
                        /\ StartTimesOf(tl[i]) \in Seq(Int)
                        /\ Len(StartTimesOf(tl[i])) = tl[i].repeat + 1
        OBVIOUS
    <2>1. tl[i] \in [start : Nat, duration : Nat, repeat : Nat]
        <3> HIDE DEF tl
        <3> QED
            BY <1>1, ElementOf
    <2>2. tl[i].start > 0 \/ tl[i].repeat = 0
        BY <1>1 DEF Listed
    <2> HIDE DEF tl
    <2> QED
        BY <2>1, <2>2, StartTimesLength
<1>3. /\ seqs \in Seq(Seq(Int)) /\ Len(seqs) = n
      /\ \A i \in 1..n : seqs[i] \in Seq(Int) /\ Len(seqs[i]) = tl[i].repeat + 1
    <2> HIDE DEF tl
    <2>1. \A i \in 1..n : seqs[i] = StartTimesOf(tl[i])
        BY <1>1
    <2>2. seqs = [i \in 1..n |-> StartTimesOf(tl[i])]
        BY <1>1
    <2>3. seqs \in [1..n -> Seq(Int)]
        <3> HIDE DEF n
        <3> QED
            BY <1>2, <2>2
    <2> HIDE DEF seqs, n
    <2>4. seqs \in Seq(Seq(Int)) /\ Len(seqs) = n
        BY <1>1, <2>3, SequenceOf
    <2> QED
        BY <1>2, <2>1, <2>4
<1>4. upTo = [i \in 0..n |-> IF i = 0 THEN 0 ELSE upTo[i - 1] + tl[i].repeat + 1]
    <2> DEFINE step == [i \in Nat |-> [x \in Nat |-> IF i \in 1..n THEN x + tl[i].repeat + 1 ELSE x]]
    <2>1. step \in Steps(Nat)
        BY <1>2 DEF Steps
    <2>2. PICK u : u \in Runs(0, step, n, Nat)
        <3>1. n \in Nat /\ 0 \in Nat
            BY <1>1
        <3> HIDE DEF step, n, tl
        <3> QED
            BY <2>1, <3>1, Iteration
    <2>4. u \in [0..n -> Nat] /\ u[0] = 0 /\ \A i \in 1..n : u[i] = step[i][u[i - 1]]
        BY <2>2 DEF Runs
    <2>3. u = [i \in 0..n |-> IF i = 0 THEN 0 ELSE u[i - 1] + tl[i].repeat + 1]
        <3>1. ASSUME NEW i \in 1..n PROVE u[i] = u[i - 1] + tl[i].repeat + 1
            <4>1. u[i - 1] \in Nat /\ i \in Nat
                <5> HIDE DEF n, step
                <5> QED
                    BY <1>1, <2>4
            <4>2. step[i][u[i - 1]] = u[i - 1] + tl[i].repeat + 1
                <5> HIDE DEF n, tl
                <5> QED
                    BY <4>1
            <4> QED
                BY <2>4, <4>2
        <3>2. \A i \in 0..n : u[i] = IF i = 0 THEN 0 ELSE u[i - 1] + tl[i].repeat + 1
            <4>1. n \in Nat
                BY <1>1
            <4> HIDE DEF n, tl, step
            <4> TAKE i \in 0..n
            <4>2. CASE i = 0
                BY <2>4, <4>2
            <4>3. CASE i # 0
                <5>1. i \in 1..n
                    BY <4>1, <4>3
                <5> QED
                    BY <3>1, <4>3, <5>1
            <4> QED
                BY <4>2, <4>3
        <3> HIDE DEF n, tl, step
        <3> QED
            BY <2>4, <3>2
    <2> QED
        BY <2>3
<1>5. Segments(m) = upTo[n]
    BY DEF Segments
<1>6. \E f : f = [i \in 1..n |-> IF i = 1 THEN seqs[i] ELSE f[i - 1] \o seqs[i]]
    <2> DEFINE X == Seq(Int)
               step == [i \in Nat |-> [x \in X |-> IF i \in 1..n THEN x \o seqs[i] ELSE x]]
    <2>1. step \in Steps(X)
        BY <1>3 DEF Steps
    <2>5. PICK h : h \in Runs(<<>>, step, n, X)
        <3>1. n \in Nat /\ <<>> \in X
            BY <1>1
        <3> HIDE DEF step, n, X
        <3> QED
            BY <2>1, <3>1, Iteration
    <2>2. h \in [0..n -> X] /\ h[0] = <<>> /\ \A i \in 1..n : h[i] = step[i][h[i - 1]]
        BY <2>5 DEF Runs
    <2> DEFINE f == [i \in 1..n |-> h[i]]
    <2>3. ASSUME NEW i \in 1..n PROVE h[i] = IF i = 1 THEN seqs[i] ELSE h[i - 1] \o seqs[i]
        <3>1. h[i] = h[i - 1] \o seqs[i]
            <4>1. h[i - 1] \in X /\ i \in Nat
                <5> HIDE DEF n, step, X
                <5> QED
                    BY <1>1, <2>2
            <4>2. step[i][h[i - 1]] = h[i - 1] \o seqs[i]
                <5> HIDE DEF n, seqs, X
                <5> QED
                    BY <4>1
            <4> QED
                BY <2>2, <4>2
        <3>2. CASE i = 1
            <4>1. h[i - 1] = <<>>
                BY <2>2, <3>2
            <4>2. seqs[i] \in Seq(Int)
                BY <1>3
            <4> HIDE DEF seqs
            <4> QED
                BY <3>1, <3>2, <4>1, <4>2
        <3> QED
            BY <3>1, <3>2
    <2>4. f = [i \in 1..n |-> IF i = 1 THEN seqs[i] ELSE f[i - 1] \o seqs[i]]
        <3>1. ASSUME NEW i \in 1..n PROVE h[i] = IF i = 1 THEN seqs[i] ELSE f[i - 1] \o seqs[i]
            <4>1. CASE i = 1
                BY <2>3, <4>1
            <4>2. CASE i # 1
                <5>1. i - 1 \in 1..n
                    BY <1>1, <4>2
                <5>2. f[i - 1] = h[i - 1]
                    <6> HIDE DEF n
                    <6> QED
                        BY <5>1
                <5> HIDE DEF f, n, seqs
                <5> QED
                    BY <2>3, <4>2, <5>2
            <4> QED
                BY <4>1, <4>2
        <3>2. f = [i \in 1..n |-> h[i]]
            OBVIOUS
        <3> HIDE DEF f, n, seqs
        <3> QED
            BY <3>1, <3>2
    <2> QED
        BY <2>4
<1>7. PICK g : /\ g = [i \in 1..n |-> IF i = 1 THEN seqs[i] ELSE g[i - 1] \o seqs[i]]
               /\ FlattenSeq(seqs) = g[n]
    <2> HIDE DEF seqs, n
    <2> QED
        BY <1>1, <1>3, <1>6, FlattenIs
<1> HIDE DEF seqs, upTo, n, tl
<1>8. ASSUME NEW i \in 1..n
      PROVE  /\ g[i] = IF i = 1 THEN seqs[i] ELSE g[i - 1] \o seqs[i]
             /\ upTo[i] = upTo[i - 1] + tl[i].repeat + 1
    <2>1. i \in 0..n /\ i # 0
        BY <1>1
    <2>2. upTo[i] = upTo[i - 1] + tl[i].repeat + 1
        BY <1>4, <2>1
    <2> QED
        BY <1>7, <2>2
<1>9. \A i \in 1..n : g[i] \in Seq(Int) /\ Len(g[i]) = upTo[i] /\ upTo[i] \in Nat \ {0}
    <2> DEFINE S == {i \in 0..n : i = 0 \/ (/\ g[i] \in Seq(Int) /\ Len(g[i]) = upTo[i]
                                           /\ upTo[i] \in Nat \ {0})}
    <2>1. 0 \in S
        BY <1>1
    <2>2. ASSUME NEW i \in 1..n, i - 1 \in S PROVE i \in S
        <3>1. CASE i = 1
            <4>1. upTo[0] = 0
                BY <1>1, <1>4
            <4>2. upTo[1] = tl[1].repeat + 1
                BY <1>2, <1>8, <3>1, <4>1
            <4>3. g[1] = seqs[1]
                BY <1>8, <3>1
            <4> QED
                BY <1>2, <1>3, <3>1, <4>2, <4>3
        <3>2. CASE i # 1
            <4>1. /\ g[i - 1] \in Seq(Int) /\ Len(g[i - 1]) = upTo[i - 1]
                  /\ upTo[i - 1] \in Nat \ {0}
                BY <2>2, <3>2
            <4>2. g[i] = g[i - 1] \o seqs[i] /\ upTo[i] = upTo[i - 1] + tl[i].repeat + 1
                BY <1>8, <3>2
            <4>3. seqs[i] \in Seq(Int) /\ Len(seqs[i]) = tl[i].repeat + 1 /\ tl[i].repeat \in Nat
                BY <1>2, <1>3
            <4>4. g[i] \in Seq(Int) /\ Len(g[i]) = Len(g[i - 1]) + Len(seqs[i])
                BY <4>1, <4>2, <4>3, Concatenation
            <4>5. upTo[i] \in Nat \ {0}
                BY <4>1, <4>2, <4>3
            <4>6. Len(g[i]) = upTo[i]
                <5>1. Len(g[i]) = upTo[i - 1] + (tl[i].repeat + 1)
                    BY <4>1, <4>3, <4>4
                <5>2. upTo[i - 1] \in Int /\ tl[i].repeat \in Int
                    BY <4>1, <4>3
                <5>3. upTo[i] = upTo[i - 1] + (tl[i].repeat + 1)
                    BY <4>2, <5>2
                <5> QED
                    BY <5>1, <5>3
            <4> QED
                BY <4>4, <4>5, <4>6
        <3> QED
            BY <3>1, <3>2
    <2>3. 0..n \subseteq S
        <3> HIDE DEF S
        <3> QED
            BY <1>1, <2>1, <2>2, BoundedInduction
    <2> QED
        BY <2>3
<1>10. /\ SegmentStartTimes(m.timeline) = g[n]
       /\ g[n] \in Seq(Int) /\ Len(g[n]) = upTo[n] /\ upTo[n] \in Nat \ {0}
    <2>1. SegmentStartTimes(m.timeline) = FlattenSeq(seqs)
        BY DEF SegmentStartTimes, seqs, tl
    <2>2. n \in 1..n
        BY <1>1
    <2> QED
        BY <1>7, <1>9, <2>1, <2>2
<1> QED
    BY <1>5, <1>10

-----------------------------------------------------------------------------

LEMMA CeilDivBounds ==
    ASSUME NEW a \in Nat, NEW b \in Nat, b > 0
    PROVE  /\ CeilDiv(a, b) \in Nat
           /\ a <= CeilDiv(a, b) * b
           /\ (CeilDiv(a, b) - 1) * b < a
<1> DEFINE c == CeilDiv(a, b)
<1>1. c = (a + b - 1) \div b /\ a + b - 1 \in Nat
    BY DEF CeilDiv
<1>2. c \in Int /\ c * b <= a + b - 1 /\ a + b - 1 < c * b + b
    BY <1>1, DivBounds
<1> HIDE DEF c
<1>3. c * b \in Int /\ (c - 1) * b = c * b - 1 * b
    BY <1>2, Distributive
<1>4. (0 - 1) * b < c * b
    BY <1>2, <1>3
<1>5. 0 - 1 < c
    BY <1>2, <1>4, TimesCancel
<1>6. c \in Nat /\ a <= c * b /\ (c - 1) * b < a
    BY <1>2, <1>3, <1>5
<1> QED
    BY <1>6 DEF c

LEMMA Associative ==
    ASSUME NEW a \in Int, NEW b \in Int, NEW c \in Int PROVE (a * b) * c = a * (b * c)
BY Z3

LEMMA Divides ==
    ASSUME NEW n \in Nat, NEW d \in Nat, d > 0, n % d = 0 PROVE n = (n \div d) * d
BY Z3

\* Counting whole seconds, nothing is left out; if the segments last whole
\* seconds, nothing is counted twice.
LEMMA WholeSecondsSuffice ==
    ASSUME NEW total \in Nat, NEW duration \in Nat, NEW timescale \in Nat, timescale > 0,
           duration >= timescale
    PROVE  LET w == duration \div timescale
               size == CeilDiv(total, w)
               exact == CeilDiv(total * timescale, duration)
           IN /\ w \in Nat /\ w > 0 /\ size \in Nat
              /\ size >= exact
              /\ duration % timescale = 0 => size = exact
<1> DEFINE w == duration \div timescale
           size == CeilDiv(total, w)
           exact == CeilDiv(total * timescale, duration)
<1>1. w \in Int /\ w * timescale <= duration /\ duration < w * timescale + timescale
    BY DivBounds
<1>2. w \in Nat /\ w > 0
    <2> HIDE DEF w
    <2>1. w * timescale \in Int /\ 0 * timescale < w * timescale
        BY <1>1
    <2>2. 0 < w
        BY <1>1, <2>1, TimesCancel
    <2> QED
        BY <1>1, <2>2
<1>3. size \in Nat /\ total <= size * w /\ (size - 1) * w < total
    <2> HIDE DEF w
    <2> QED
        BY <1>2, CeilDivBounds
<1>4. /\ exact \in Nat /\ total * timescale <= exact * duration
      /\ (exact - 1) * duration < total * timescale
    <2>1. total * timescale \in Nat /\ duration > 0
        OBVIOUS
    <2> QED
        BY <2>1, CeilDivBounds
<1> HIDE DEF w, size, exact
<1>5. size >= exact
    <2>1. total * timescale <= (size * w) * timescale
        <3>1. total \in Int /\ size * w \in Int
            BY <1>2, <1>3
        <3> QED
            BY <1>3, <3>1, TimesMonotone
    <2>2. (size * w) * timescale = (w * timescale) * size
        BY <1>2, <1>3, Associative
    <2>3. (w * timescale) * size <= duration * size
        <3>1. w * timescale \in Int
            BY <1>2
        <3> QED
            BY <1>1, <1>3, <3>1, TimesMonotone
    <2>4. duration * size = size * duration
        BY <1>3
    <2>5. (exact - 1) * duration < size * duration
        <3>1. /\ (exact - 1) * duration \in Int /\ size * duration \in Int
              /\ total * timescale \in Int /\ (w * timescale) * size \in Int
            BY <1>2, <1>3, <1>4
        <3> QED
            BY <1>4, <2>1, <2>2, <2>3, <2>4, <3>1
    <2>6. exact - 1 < size
        BY <1>3, <1>4, <2>5, TimesCancel
    <2> QED
        BY <1>3, <1>4, <2>6
<1>6. ASSUME duration % timescale = 0 PROVE size <= exact
    <2>1. duration = w * timescale
        BY <1>6, Divides DEF w
    <2>2. exact * duration = (exact * w) * timescale
        BY <1>2, <1>4, <2>1, Associative
    <2>3. total <= exact * w
        <3> SUFFICES ASSUME exact * w < total PROVE FALSE
            BY <1>2, <1>4
        <3>1. exact * w \in Int /\ exact * w + 1 <= total
            BY <1>2, <1>4
        <3>2. (exact * w + 1) * timescale <= total * timescale
            BY <3>1, TimesMonotone
        <3>3. (exact * w + 1) * timescale = (exact * w) * timescale + 1 * timescale
            BY <3>1, Distributive
        <3>4. (exact * w) * timescale \in Int /\ total * timescale \in Int
            BY <3>1
        <3> QED
            BY <1>4, <2>2, <3>2, <3>3, <3>4
    <2>4. (size - 1) * w < exact * w
        <3>1. (size - 1) * w \in Int /\ exact * w \in Int
            BY <1>2, <1>3, <1>4
        <3> QED
            BY <1>3, <2>3, <3>1
    <2>5. size - 1 < exact
        BY <1>2, <1>3, <1>4, <2>4, TimesCancel
    <2> QED
        BY <1>3, <1>4, <2>5
<1> QED
    BY <1>2, <1>3, <1>4, <1>5, <1>6 DEF w, size, exact

\* The presentations whose segments AsksForAll counts.
Countable(m) ==
    IF m.timeline # <<>> THEN Listed(m.timeline) ELSE m.duration >= m.timescale

LEMMA SizeOfCountable ==
    ASSUME NEW m \in Presentations, m.type = "static", Countable(m)
    PROVE  \E size \in Nat :
              /\ GetSizes(m) = {size}
              /\ m.timeline # <<>> => /\ size = Len(SegmentStartTimes(m.timeline))
                                      /\ size = Segments(m)
              /\ m.timeline = <<>> => /\ size >= Segments(m)
                                      /\ m.duration % m.timescale = 0 => size = Segments(m)
<1>1. CASE m.timeline # <<>>
    BY <1>1, TimelineLength DEF Countable, GetSizes
<1>2. CASE m.timeline = <<>>
    <2>1. SegmentStartTimes(m.timeline) = <<>>
        <3> DEFINE seqs == [i \in DOMAIN m.timeline |-> StartTimesOf(m.timeline[i])]
        <3>1. seqs = <<>>
            BY <1>2
        <3> HIDE DEF seqs
        <3>2. Len(seqs) = 0
            BY <3>1
        <3>3. FlattenSeq(seqs) = <<>>
            BY <3>1, <3>2 DEF FlattenSeq
        <3> QED
            BY <3>3 DEF SegmentStartTimes, seqs
    <2>2. /\ m.duration \in Nat /\ m.timescale \in Nat /\ m.timescale > 0
          /\ m.mediaPresentationDuration \in Nat /\ m.duration >= m.timescale
        BY <1>2 DEF Presentations, Countable
    <2> DEFINE size == CeilDiv(m.mediaPresentationDuration, WholeSeconds(m))
    <2>3. /\ WholeSeconds(m) # 0 /\ size \in Nat
          /\ size >= CeilDiv(m.mediaPresentationDuration * m.timescale, m.duration)
          /\ m.duration % m.timescale = 0 =>
                size = CeilDiv(m.mediaPresentationDuration * m.timescale, m.duration)
        <3> DEFINE total == m.mediaPresentationDuration
                   duration == m.duration
                   timescale == m.timescale
                   w == duration \div timescale
        <3>1. /\ w \in Nat /\ w > 0 /\ CeilDiv(total, w) \in Nat
              /\ CeilDiv(total, w) >= CeilDiv(total * timescale, duration)
              /\ duration % timescale = 0 =>
                    CeilDiv(total, w) = CeilDiv(total * timescale, duration)
            <4> HIDE DEF total, duration, timescale
            <4>1. /\ total \in Nat /\ duration \in Nat /\ timescale \in Nat
                  /\ timescale > 0 /\ duration >= timescale
                BY <2>2 DEF total, duration, timescale
            <4> QED
                BY <4>1, WholeSecondsSuffice
        <3>2. WholeSeconds(m) = w /\ size = CeilDiv(total, w) /\ w # 0
            BY <3>1 DEF WholeSeconds
        <3> HIDE DEF w, total
        <3> QED
            BY <3>1, <3>2 DEF total
    <2>4. GetSizes(m) = {size}
        BY <1>2, <2>1, <2>3 DEF GetSizes
    <2>5. Segments(m) = CeilDiv(m.mediaPresentationDuration * m.timescale, m.duration)
        BY <1>2 DEF Segments
    <2> HIDE DEF size
    <2> QED
        BY <1>2, <2>3, <2>4, <2>5
<1> QED
    BY <1>1, <1>2

\* The receiver of a static presentation counts from the first segment on, never
\* beyond the last one, and stops there only.
CountsOn ==
    ~Dynamic /\ Countable(mpd) =>
        /\ segmentOffset = 0
        /\ \A size \in GetSizes(mpd) : /\ segmentNumber <= size
                                       /\ ended => segmentNumber = size

LEMMA CountsOnInit == Init => CountsOn
<1> SUFFICES ASSUME Init, ~Dynamic, Countable(mpd) PROVE CountsOn
    BY DEF CountsOn
<1>1. mpd \in Presentations
    BY NumbersAssumption DEF Init
<1>2. mpd.type = "static"
    BY <1>1 DEF Presentations, Dynamic
<1>3. segmentOffset = 0
    BY <1>2 DEF Init, CalculateSegmentOffset
<1>4. PICK size \in Nat : GetSizes(mpd) = {size}
    BY <1>1, <1>2, SizeOfCountable
<1> QED
    BY <1>3, <1>4 DEF Init, CountsOn

LEMMA CountsOnNext == TypeOK /\ CountsOn /\ [Next]_vars => CountsOn'
<1> SUFFICES ASSUME TypeOK, CountsOn, [Next]_vars, ~Dynamic, Countable(mpd) PROVE CountsOn'
    <2>1. [Next]_vars => mpd' = mpd
        BY DEF Next, vars, GetNextSegment, GetNoSegment, SetPeriod, GetFront, Tick
    <2> QED
        BY <2>1 DEF CountsOn, Dynamic
<1>1. mpd \in Presentations /\ mpd.type = "static" /\ segmentNumber \in Nat
    BY NumbersAssumption DEF TypeOK, Presentations, Dynamic
<1>2. PICK size \in Nat :
          /\ GetSizes(mpd) = {size}
          /\ mpd.timeline # <<>> => size = Len(SegmentStartTimes(mpd.timeline))
    BY <1>1, SizeOfCountable
<1>3. segmentOffset = 0 /\ segmentNumber <= size /\ (ended => segmentNumber = size)
    BY <1>2 DEF CountsOn
<1>4. CASE GetNextSegment
    <2>1. /\ ~ended /\ segmentNumber < size /\ segmentNumber' = segmentNumber + 1
          /\ UNCHANGED <<mpd, segmentOffset, ended>>
        BY <1>2, <1>4 DEF GetNextSegment
    <2> QED
        BY <1>1, <1>2, <1>3, <2>1 DEF CountsOn
<1>5. CASE GetNoSegment
    <2>1. UNCHANGED <<mpd, segmentOffset, segmentNumber>>
        BY <1>5 DEF GetNoSegment
    <2>2. segmentNumber >= size
        <3>1. CASE \E s \in GetSizes(mpd) : segmentNumber >= s
            BY <1>2, <3>1
        <3>2. CASE ~SegmentExists(mpd, Uint(segmentNumber + segmentOffset))
            <4>1. segmentNumber + segmentOffset = segmentNumber
                BY <1>1, <1>3
            <4>2. ~(Uint(segmentNumber) < size)
                BY <1>2, <3>2, <4>1 DEF SegmentExists
            <4>3. Uint(segmentNumber) <= segmentNumber /\ Uint(segmentNumber) \in Int
                BY <1>1, UintAtMost, UintInWord
            <4> QED
                BY <1>1, <4>2, <4>3
        <3> QED
            BY <1>5, <3>1, <3>2 DEF GetNoSegment
    <2>3. segmentNumber = size
        BY <1>1, <1>3, <2>2
    <2> QED
        BY <1>2, <1>3, <2>1, <2>3 DEF CountsOn
<1>6. CASE SetPeriod
    <2>1. ~ended /\ segmentNumber' = 0 /\ UNCHANGED <<mpd, segmentOffset, ended>>
        BY <1>6 DEF SetPeriod
    <2> QED
        BY <1>2, <1>3, <2>1 DEF CountsOn
<1>7. CASE GetFront \/ Tick \/ UNCHANGED vars
    <2>1. UNCHANGED <<mpd, segmentOffset, segmentNumber, ended>>
        BY <1>7 DEF GetFront, Tick, vars
    <2> QED
        BY <1>2, <1>3, <2>1 DEF CountsOn
<1> QED
    BY <1>4, <1>5, <1>6, <1>7 DEF Next

\* For every static presentation, with a timeline of any length or without one:
\* when the receiver stops it has asked for all segments, and for no more but
\* where the division in integers makes segments too short.
THEOREM AsksForAllAlways == Spec => []AsksForAll
<1>1. TypeOK /\ CountsOn => AsksForAll
    <2> SUFFICES ASSUME TypeOK, CountsOn, ended, ~Dynamic, Countable(mpd)
                 PROVE  IF mpd.timeline # <<>> THEN segmentNumber = Segments(mpd)
                        ELSE /\ segmentNumber >= Segments(mpd)
                             /\ mpd.duration % mpd.timescale = 0
                                    => segmentNumber = Segments(mpd)
        BY DEF AsksForAll, Countable, Listed
    <2>1. mpd \in Presentations /\ mpd.type = "static"
        BY NumbersAssumption DEF TypeOK, Presentations, Dynamic
    <2>2. PICK size \in Nat :
              /\ GetSizes(mpd) = {size}
              /\ mpd.timeline # <<>> => size = Segments(mpd)
              /\ mpd.timeline = <<>> => /\ size >= Segments(mpd)
                                        /\ mpd.duration % mpd.timescale = 0
                                                => size = Segments(mpd)
        BY <2>1, SizeOfCountable
    <2>3. segmentNumber = size
        BY <2>2 DEF CountsOn
    <2> QED
        BY <2>2, <2>3
<1> QED
    BY <1>1, CountsOnInit, CountsOnNext, TypeCorrect, PTL DEF Spec

-----------------------------------------------------------------------------
(* RateAdaptation *)

\* What holds of the first value and from each value to the next holds of all.
LEMMA RecursionType ==
    ASSUME NEW X, NEW n \in Nat, NEW p, \E f : p = [i \in 0..n |-> f[i]], p[0] \in X,
           \A i \in 1..n : p[i - 1] \in X => p[i] \in X
    PROVE  p \in [0..n -> X]
<1> DEFINE S == {i \in 0..n : p[i] \in X}
<1>1. 0 \in S
    OBVIOUS
<1>2. ASSUME NEW i \in 1..n, i - 1 \in S PROVE i \in S
    BY <1>2
<1>3. 0..n \subseteq S
    <2> HIDE DEF S
    <2> QED
        BY <1>1, <1>2, BoundedInduction
<1> QED
    BY <1>3

\* The product of numbers is a number.
LEMMA ProductIsNumber ==
    ASSUME NEW trace \in Seq(Nat) PROVE Product(trace) \in Nat
<1> DEFINE n == Len(trace)
           step == [i \in Nat |-> [x \in Nat |-> IF i \in 1..n THEN x * trace[i] ELSE x]]
           p == CHOOSE u : u = [i \in 0..n |-> IF i = 0 THEN 1 ELSE u[i - 1] * trace[i]]
<1>1. n \in Nat
    OBVIOUS
<1>2. step \in Steps(Nat)
    <2>1. ASSUME NEW i \in Nat, NEW x \in Nat
          PROVE  (IF i \in 1..n THEN x * trace[i] ELSE x) \in Nat
        <3>1. CASE i \in 1..n
            <4>1. trace[i] \in Nat
                BY <3>1, ElementOf
            <4> QED
                BY <3>1, <4>1
        <3> QED
            BY <3>1
    <2> QED
        BY <2>1 DEF Steps
<1>3. \A i \in 1..n, x \in Nat : step[i][x] = x * trace[i]
    OBVIOUS
<1>4. PICK u : u \in Runs(1, step, n, Nat)
    <2>1. n \in Nat /\ 1 \in Nat
        BY <1>1
    <2> HIDE DEF n, step
    <2> QED
        BY <1>2, <2>1, Iteration
<1>5. u \in [0..n -> Nat] /\ u[0] = 1 /\ \A i \in 1..n : u[i] = step[i][u[i - 1]]
    BY <1>4 DEF Runs
<1>6. u = [i \in 0..n |-> IF i = 0 THEN 1 ELSE u[i - 1] * trace[i]]
    <2>1. ASSUME NEW i \in 1..n PROVE u[i] = u[i - 1] * trace[i]
        <3> HIDE DEF n, step
        <3>1. i - 1 \in 0..n /\ i \in 0..n /\ i # 0
            BY <1>1
        <3>2. u[i - 1] \in Nat
            BY <1>5, <3>1
        <3> QED
            BY <1>3, <1>5, <3>1, <3>2
    <2> HIDE DEF n, step
    <2> QED
        BY <1>1, <1>5, <2>1
<1>7. p = [i \in 0..n |-> IF i = 0 THEN 1 ELSE p[i - 1] * trace[i]]
    <2> HIDE DEF n
    <2> QED
        BY <1>6
<1>8. p \in [0..n -> Nat]
    <2> DEFINE R == Nat
    <2> HIDE DEF p
    <2>1. ASSUME NEW i \in 1..n, p[i - 1] \in Nat PROVE p[i] \in Nat
        <3>1. trace[i] \in Nat
            BY ElementOf
        <3> HIDE DEF n
        <3>2. p[i] = p[i - 1] * trace[i]
            BY <1>1, <1>7
        <3> QED
            BY <2>1, <3>1, <3>2
    <2> HIDE DEF n
    <2>2. p[0] = 1
        BY <1>1, <1>7
    <2>3. \E f : p = [i \in 0..n |-> f[i]]
        BY <1>7
    <2>4. p[0] \in R /\ \A i \in 1..n : p[i - 1] \in R => p[i] \in R
        BY <2>1, <2>2
    <2> HIDE DEF R
    <2>5. p \in [0..n -> R]
        BY <1>1, <2>3, <2>4, RecursionType
    <2> QED
        BY <2>5 DEF R
<1>9. Product(trace) = p[n]
    BY DEF Product
<1> QED
    <2> HIDE DEF n, p
    <2> QED
        BY <1>1, <1>8, <1>9

\* So is the denominator of the mean.
LEMMA DenominatorIsNumber ==
    ASSUME NEW trace \in Seq(Nat) PROVE Denominator(trace) \in Nat
<1> DEFINE n == Len(trace)
           Without(i) == Product(SubSeq(trace, 1, i - 1) \o SubSeq(trace, i + 1, n))
           step == [i \in Nat |-> [x \in Nat |-> IF i \in 1..n THEN x + Without(i) ELSE x]]
           p == CHOOSE u : u = [i \in 0..n |-> IF i = 0 THEN 0 ELSE u[i - 1] + Without(i)]
<1>1. n \in Nat
    OBVIOUS
<1>2. ASSUME NEW i \in 1..n PROVE Without(i) \in Nat
    <2> DEFINE R == Nat
               a == SubSeq(trace, 1, i - 1)
               b == SubSeq(trace, i + 1, n)
    <2>1. a \in Seq(R) /\ b \in Seq(R)
        OBVIOUS
    <2> HIDE DEF a, b, R
    <2>2. a \o b \in Seq(R)
        BY <2>1, Concatenation
    <2> QED
        BY <2>2, ProductIsNumber DEF a, b, R
<1> HIDE DEF Without, n
<1>3. step \in Steps(Nat)
    BY <1>2 DEF Steps
<1>4. \A i \in 1..n, x \in Nat : step[i][x] = x + Without(i)
    BY <1>1
<1>5. PICK u : u \in Runs(0, step, n, Nat)
    <2>1. 0 \in Nat
        OBVIOUS
    <2> HIDE DEF step
    <2> QED
        BY <1>1, <1>3, <2>1, Iteration
<1>6. u \in [0..n -> Nat] /\ u[0] = 0 /\ \A i \in 1..n : u[i] = step[i][u[i - 1]]
    BY <1>5 DEF Runs
<1>7. u = [i \in 0..n |-> IF i = 0 THEN 0 ELSE u[i - 1] + Without(i)]
    <2> HIDE DEF step
    <2>1. ASSUME NEW i \in 1..n PROVE u[i] = u[i - 1] + Without(i)
        <3>1. u[i - 1] \in Nat
            BY <1>1, <1>6
        <3> QED
            BY <1>4, <1>6, <3>1
    <2> QED
        BY <1>1, <1>6, <2>1
<1>8. p = [i \in 0..n |-> IF i = 0 THEN 0 ELSE p[i - 1] + Without(i)]
    BY <1>7
<1>9. p \in [0..n -> Nat]
    <2> DEFINE R == Nat
    <2> HIDE DEF p
    <2>1. ASSUME NEW i \in 1..n, p[i - 1] \in Nat PROVE p[i] \in Nat
        <3>1. p[i] = p[i - 1] + Without(i)
            BY <1>1, <1>8
        <3> QED
            BY <1>2, <2>1, <3>1
    <2>2. p[0] = 0
        BY <1>1, <1>8
    <2>3. \E f : p = [i \in 0..n |-> f[i]]
        BY <1>8
    <2>4. p[0] \in R /\ \A i \in 1..n : p[i - 1] \in R => p[i] \in R
        BY <2>1, <2>2
    <2> HIDE DEF R
    <2>5. p \in [0..n -> R]
        BY <1>1, <2>3, <2>4, RecursionType
    <2> QED
        BY <2>5 DEF R
<1>10. Denominator(trace) = IF Product(trace) = 0 THEN 1 ELSE p[n]
    BY DEF Denominator, Without, n
<1> QED
    <2> HIDE DEF p
    <2> QED
        BY <1>1, <1>9, <1>10

LEMMA DistanceIsNumber ==
    ASSUME NEW trace \in Seq(Nat), NEW r \in Representations
    PROVE  Distance(r, trace) \in Nat
<1>1. Denominator(trace) \in Nat /\ Product(trace) \in Nat /\ Len(trace) \in Nat
    BY DenominatorIsNumber, ProductIsNumber
<1>2. Bandwidth[r] \in Nat
    BY AdaptationAssumption DEF Representations
<1>3. /\ Bandwidth[r] * Denominator(trace) \in Nat
      /\ Len(trace) * Product(trace) \in Nat
    BY <1>1, <1>2
<1> QED
    BY <1>3 DEF Distance, Numerator, Abs

\* What the loop over the representations knows after the first r of them: none
\* is nearer than MinValue and the answer is the first one, or the answer is
\* nearer, and no representation beats it by more than the lost fraction.
Choosable == [minValue : Int, index : Representations]
BestOf(best, r, trace) ==
    LET d    == Denominator(trace)
        D(q) == Distance(q, trace)
    IN /\ best \in Choosable
       /\ \A q \in 1..r : best.minValue * d <= D(q)
       /\ \/ best.minValue = MinValue /\ best.index = 1
          \/ /\ best.minValue * d <= D(best.index)
             /\ D(best.index) < best.minValue * d + d
             /\ D(best.index) < MinValue * d

LEMMA CloserIsChoice ==
    ASSUME NEW trace \in Seq(Nat), NEW r \in Representations, NEW best \in Choosable
    PROVE  Closer(best, r, trace) \in Choosable
<1> DEFINE d == Denominator(trace)
           D == Distance(r, trace)
<1>1. d \in Nat /\ D \in Nat /\ best.minValue \in Int
    BY DenominatorIsNumber, DistanceIsNumber DEF Choosable
<1>2. CASE best.minValue * d > D
    <2>1. d # 0
        BY <1>1, <1>2
    <2>2. D \div d \in Int
        <3> HIDE DEF D, d
        <3> QED
            BY <1>1, <2>1, Z3
    <2> QED
        BY <1>2, <2>2 DEF Closer, Choosable
<1> QED
    BY <1>2 DEF Closer

LEMMA CloserIsBest ==
    ASSUME NEW trace \in Seq(Nat), NEW r \in Representations, NEW best,
           BestOf(best, r - 1, trace)
    PROVE  BestOf(Closer(best, r, trace), r, trace)
<1> DEFINE d == Denominator(trace)
           D(q) == Distance(q, trace)
           next == Closer(best, r, trace)
           M == MinValue
<1>1. /\ d \in Nat /\ D(r) \in Nat /\ best \in Choosable /\ best.minValue \in Int /\ M \in Int
      /\ next \in Choosable
    BY DenominatorIsNumber, DistanceIsNumber, CloserIsChoice, AdaptationAssumption
    DEF Choosable, BestOf, MinValue
<1>2. /\ Representations = 1..Len(Bandwidth) /\ r \in Nat /\ r > 0 /\ Len(Bandwidth) \in Nat
      /\ \A q \in 1..r : q \in 1..r - 1 \/ q = r
    BY AdaptationAssumption DEF Representations
<1>3. \A q \in 1..r : D(q) \in Nat
    BY <1>2, DistanceIsNumber
<1>4. \A q \in 1..r - 1 : best.minValue * d <= D(q)
    BY DEF BestOf
<1>5. best.minValue * d \in Int /\ M * d \in Int
    BY <1>1
<1>6. CASE best.minValue * d > D(r)
    <2>1. next = [minValue |-> D(r) \div d, index |-> r]
        BY <1>6 DEF Closer
    <2>2. d > 0
        BY <1>1, <1>6
    <2>3. /\ D(r) \div d \in Int
          /\ (D(r) \div d) * d \in Int
          /\ (D(r) \div d) * d <= D(r)
          /\ D(r) < (D(r) \div d) * d + d
        <3> DEFINE x == D(r)
        <3>1. x \in Int /\ d \in Nat /\ d > 0
            BY <1>1, <2>2
        <3> HIDE DEF x, d
        <3>2. /\ x \div d \in Int
              /\ (x \div d) * d <= x
              /\ x < (x \div d) * d + d
            BY <3>1, DivBounds
        <3>3. (x \div d) * d \in Int
            BY <3>1, <3>2
        <3> QED
            BY <3>2, <3>3 DEF x, d
    <2>4. \A q \in 1..r : (D(r) \div d) * d <= D(q)
        <3> SUFFICES ASSUME NEW q \in 1..r PROVE (D(r) \div d) * d <= D(q)
            OBVIOUS
        <3>1. D(q) \in Nat /\ (q = r \/ best.minValue * d <= D(q))
            BY <1>2, <1>3, <1>4
        <3> DEFINE x == D(r)
                   y == D(q)
                   a == (D(r) \div d) * d
                   b == best.minValue * d
        <3>2. x \in Nat /\ y \in Nat /\ a \in Int /\ b \in Int /\ a <= x /\ x < b
            BY <1>1, <1>5, <1>6, <2>3, <3>1
        <3>3. y = x \/ b <= y
            BY <3>1
        <3> HIDE DEF x, y, a, b
        <3>4. a <= y
            BY <3>2, <3>3
        <3> QED
            BY <3>4 DEF a, y
    <2>5. D(r) < M * d
        <3>1. CASE best.minValue = M
            BY <1>6, <3>1
        <3>2. CASE best.minValue # M
            <4>1. /\ best.minValue * d <= D(best.index)
                  /\ D(best.index) < M * d
                  /\ best.index \in Representations
                BY <3>2 DEF BestOf, Choosable
            <4>2. D(best.index) \in Nat
                BY <4>1, DistanceIsNumber
            <4> HIDE DEF D, d, M
            <4> QED
                BY <1>1, <1>5, <1>6, <4>1, <4>2
        <3> QED
            BY <3>1, <3>2
    <2> QED
        BY <1>1, <2>1, <2>3, <2>4, <2>5 DEF BestOf
<1>7. CASE ~(best.minValue * d > D(r))
    <2>1. next = best
        BY <1>7 DEF Closer
    <2>2. best.minValue * d <= D(r)
        BY <1>1, <1>5, <1>7
    <2> QED
        BY <1>1, <1>2, <1>4, <2>1, <2>2 DEF BestOf
<1> QED
    BY <1>6, <1>7

LEMMA NearestIsBest ==
    ASSUME NEW trace \in Seq(Nat)
    PROVE  \E best : BestOf(best, Len(Bandwidth), trace) /\ Nearest(trace) = best.index
<1> DEFINE n == Len(Bandwidth)
           first == [minValue |-> MinValue, index |-> 1]
           step == [r \in Nat |-> [x \in Choosable |->
                       IF r \in 1..n THEN Closer(x, r, trace) ELSE x]]
           p == CHOOSE u : u = [r \in 0..n |-> IF r = 0 THEN [minValue |-> MinValue, index |-> 1]
                                               ELSE Closer(u[r - 1], r, trace)]
<1>1. n \in Nat /\ 1 \in 1..n /\ Representations = 1..n
    BY AdaptationAssumption DEF Representations
<1>2. first \in Choosable
    BY <1>1, AdaptationAssumption DEF Choosable, MinValue
<1> HIDE DEF n
<1>3. \A r \in 1..n, x \in Choosable : Closer(x, r, trace) \in Choosable
    BY <1>1, CloserIsChoice
<1>4. step \in Steps(Choosable)
    BY <1>3 DEF Steps
<1>5. \A r \in 1..n, x \in Choosable : step[r][x] = Closer(x, r, trace)
    BY <1>1
<1>6. PICK u : u \in Runs(first, step, n, Choosable)
    <2> HIDE DEF step, first
    <2> QED
        BY <1>1, <1>2, <1>4, Iteration
<1>7. u \in [0..n -> Choosable] /\ u[0] = first /\ \A r \in 1..n : u[r] = step[r][u[r - 1]]
    BY <1>6 DEF Runs
<1>8. u = [r \in 0..n |-> IF r = 0 THEN [minValue |-> MinValue, index |-> 1]
                          ELSE Closer(u[r - 1], r, trace)]
    <2> HIDE DEF step
    <2>1. ASSUME NEW r \in 1..n PROVE u[r] = Closer(u[r - 1], r, trace)
        <3>1. u[r - 1] \in Choosable
            BY <1>1, <1>7
        <3> QED
            BY <1>5, <1>7, <3>1
    <2> QED
        BY <1>1, <1>7, <2>1
<1>9. p = [r \in 0..n |-> IF r = 0 THEN [minValue |-> MinValue, index |-> 1]
                          ELSE Closer(p[r - 1], r, trace)]
    BY <1>8
<1> HIDE DEF p
<1>10. BestOf(p[n], n, trace)
    <2> DEFINE S == {r \in 0..n : BestOf(p[r], r, trace)}
    <2>1. 0 \in S
        <3>1. p[0] = first
            BY <1>1, <1>9
        <3> QED
            BY <1>1, <1>2, <3>1 DEF BestOf
    <2>2. ASSUME NEW r \in 1..n, r - 1 \in S PROVE r \in S
        <3>1. p[r] = Closer(p[r - 1], r, trace)
            BY <1>1, <1>9
        <3>2. BestOf(p[r - 1], r - 1, trace)
            BY <2>2
        <3>3. BestOf(Closer(p[r - 1], r, trace), r, trace)
            BY <1>1, <3>2, CloserIsBest
        <3> QED
            BY <1>1, <3>1, <3>3
    <2>3. 0..n \subseteq S
        <3> HIDE DEF S
        <3> QED
            BY <1>1, <2>1, <2>2, BoundedInduction
    <2> QED
        BY <1>1, <2>3
<1>11. Nearest(trace) = p[n].index
    BY DEF Nearest, p, n
<1> QED
    BY <1>10, <1>11 DEF n

\* What the logic chooses is nearest to the mean of any trace.
LEMMA NearestIsNearest ==
    ASSUME NEW trace \in Seq(Nat)
    PROVE  LET d    == Denominator(trace)
               D(r) == Distance(r, trace)
           IN /\ Nearest(trace) \in Representations
              /\ IF \E r \in Representations : D(r) < MinValue * d
                 THEN \A r \in Representations : D(Nearest(trace)) < D(r) + d
                 ELSE Nearest(trace) = 1
<1> DEFINE d == Denominator(trace)
           D(r) == Distance(r, trace)
           M == MinValue
           R == Representations
           k == Nearest(trace)
<1>1. PICK best : BestOf(best, Len(Bandwidth), trace) /\ k = best.index
    BY NearestIsBest
<1>2. /\ R = 1..Len(Bandwidth)
      /\ M \in Int
    BY AdaptationAssumption DEF Representations, MinValue
<1>3. d \in Nat /\ \A r \in R : D(r) \in Nat
    BY DenominatorIsNumber, DistanceIsNumber
<1>4. /\ k \in R /\ best.minValue \in Int
      /\ \A r \in R : best.minValue * d <= D(r)
      /\ \/ best.minValue = M /\ k = 1
         \/ D(k) < best.minValue * d + d /\ D(k) < M * d
    BY <1>1, <1>2 DEF BestOf, Choosable
<1>5. best.minValue * d \in Int /\ M * d \in Int
    BY <1>2, <1>3, <1>4
<1> HIDE DEF d, D, M, R, k
<1>6. CASE best.minValue = M /\ k = 1
    <2>1. ~ \E r \in R : D(r) < M * d
        BY <1>3, <1>4, <1>5, <1>6
    <2>2. \A r \in R : D(k) < D(r) + d \/ ~(D(r) < M * d)
        BY <2>1
    <2> QED
        BY <1>4, <1>6, <2>1 DEF d, D, M, R, k
<1>7. CASE D(k) < best.minValue * d + d /\ D(k) < M * d
    <2>1. \A r \in R : D(k) < D(r) + d
        BY <1>3, <1>4, <1>5, <1>7
    <2>2. \E r \in R : D(r) < M * d
        BY <1>4, <1>7
    <2> QED
        BY <1>4, <2>1, <2>2 DEF d, D, M, R, k
<1> QED
    BY <1>4, <1>6, <1>7

-----------------------------------------------------------------------------

LEMMA LeastNumber ==
    ASSUME NEW S, S \subseteq Nat, S # {}
    PROVE  \E n \in S : \A m \in S : n <= m
<1> SUFFICES ASSUME \A n \in S : \E m \in S : m < n PROVE FALSE
    <2>1. \A n, m \in S : n <= m \/ m < n
        OBVIOUS
    <2> QED
        BY <2>1
<1> DEFINE T == {n \in Nat : \A m \in S : n < m}
<1>1. 0 \in T
    <2>1. 0 \notin S
        OBVIOUS
    <2> QED
        BY <2>1
<1>2. ASSUME NEW n \in Nat, n \in T PROVE n + 1 \in T
    <2>1. n + 1 \notin S
        <3> SUFFICES ASSUME n + 1 \in S PROVE FALSE
            OBVIOUS
        <3>1. PICK m \in S : m < n + 1
            OBVIOUS
        <3> QED
            BY <1>2, <3>1
    <2> QED
        BY <1>2, <2>1
<1>3. Nat \subseteq T
    <2> HIDE DEF T
    <2> QED
        BY <1>1, <1>2, SetInduction
<1>4. PICK n : n \in S
    OBVIOUS
<1>5. n \in Nat /\ n \in T
    <2> HIDE DEF T
    <2> QED
        BY <1>3, <1>4
<1> QED
    BY <1>4, <1>5

\* One of several numbers is the first of those where a function is least.
LEMMA FirstOfLeast ==
    ASSUME NEW C, C \subseteq Nat, C # {}, NEW g \in [C -> Nat]
    PROVE  \E r \in C : \A q \in C : g[r] < g[q] \/ (g[r] = g[q] /\ r <= q)
<1> DEFINE V == {g[r] : r \in C}
<1>1. V \subseteq Nat /\ V # {}
    OBVIOUS
<1>2. PICK v \in V : \A w \in V : v <= w
    <2> HIDE DEF V
    <2> QED
        BY <1>1, LeastNumber
<1> DEFINE L == {r \in C : g[r] = v}
<1>3. L \subseteq Nat /\ L # {}
    BY <1>2
<1>4. PICK r \in L : \A q \in L : r <= q
    <2> HIDE DEF L
    <2> QED
        BY <1>3, LeastNumber
<1>5. \A q \in C : v <= g[q]
    BY <1>2
<1> QED
    BY <1>4, <1>5

\* RateBufferBase chooses a candidate if there is one.
LEMMA ClosestIsCandidate ==
    ASSUME last_index \in Representations,
           NEW C, C \subseteq Representations, C # {}
    PROVE  Closest(C) \in C
<1> DEFINE Gap(r) == Abs(Bandwidth[r] - Bandwidth[last_index])
           g == [r \in C |-> Gap(r)]
<1>1. C \subseteq Nat /\ \A r \in Representations : Bandwidth[r] \in Int
    BY AdaptationAssumption DEF Representations
<1>2. g \in [C -> Nat]
    BY <1>1 DEF Abs
<1>3. \A r \in C : g[r] = Gap(r)
    OBVIOUS
<1>4. \E r \in C : \A q \in C : g[r] < g[q] \/ (g[r] = g[q] /\ r <= q)
    <2> HIDE DEF g
    <2> QED
        BY <1>1, <1>2, FirstOfLeast
<1>5. \E r \in C : \A q \in C : Gap(r) < Gap(q) \/ (Gap(r) = Gap(q) /\ r <= q)
    <2> HIDE DEF g, Gap
    <2> QED
        BY <1>3, <1>4
<1>6. Closest(C) = CHOOSE r \in C : \A q \in C :
                            Gap(r) < Gap(q) \/ (Gap(r) = Gap(q) /\ r <= q)
    BY DEF Closest
<1> HIDE DEF Gap
<1> QED
    BY <1>5, <1>6

\* It is never the last one, but maybe the first one.
LEMMA StepMoves ==
    ASSUME last_index \in Representations,
           NEW trace, NEW fillPercent
    PROVE  /\ Step(trace, fillPercent) \in Representations
           /\ \/ Step(trace, fillPercent) # last_index
              \/ Step(trace, fillPercent) = 1
<1>1. \A r \in Representations : Bandwidth[r] \in Int
    BY AdaptationAssumption DEF Representations
<1>2. 1 \in Representations
    BY AdaptationAssumption DEF Representations
<1>3. ASSUME NEW C, C \subseteq Representations, last_index \notin C
      PROVE  /\ Closest(C) \in Representations
             /\ Closest(C) # last_index \/ Closest(C) = 1
    <2>1. CASE C = {}
        BY <1>2, <2>1 DEF Closest
    <2>2. CASE C # {}
        BY <1>3, <2>2, ClosestIsCandidate
    <2> QED
        BY <2>1, <2>2
<1> DEFINE Below(s) == {r \in Representations : /\ Bandwidth[r] < Bandwidth[last_index]
                                                /\ Bandwidth[r] < s
                                                /\ Bandwidth[r] > 0}
           Above(s) == {r \in Representations : /\ Bandwidth[r] > Bandwidth[last_index]
                                                /\ Bandwidth[r] < s
                                                /\ Bandwidth[r] < highest_bitrate}
<1>4. \A s : /\ Below(s) \subseteq Representations /\ last_index \notin Below(s)
             /\ Above(s) \subseteq Representations /\ last_index \notin Above(s)
    BY <1>1
<1>5. \A s : StepDown(s) = Closest(Below(s)) /\ StepUp(s) = Closest(Above(s))
    BY DEF StepDown, StepUp
<1> HIDE DEF Below, Above
<1>6. \A s : /\ StepDown(s) \in Representations
             /\ StepDown(s) # last_index \/ StepDown(s) = 1
             /\ StepUp(s) \in Representations
             /\ StepUp(s) # last_index \/ StepUp(s) = 1
    BY <1>3, <1>4, <1>5
<1> QED
    BY <1>6 DEF Step

-----------------------------------------------------------------------------

LEMMA WordsAreNumbers ==
    ASSUME NEW s \in Seq(0..WordModulus - 1) PROVE s \in Seq(Nat)
<1> DEFINE n == Len(s)
           W == 0..WordModulus - 1
<1>1. W \subseteq Nat
    BY AdaptationAssumption
<1>2. s \in Seq(W)
    OBVIOUS
<1> HIDE DEF W
<1>3. n \in Nat /\ s \in [1..n -> W]
    BY <1>2
<1> HIDE DEF n
<1>4. s \in [1..n -> Nat]
    BY <1>1, <1>3
<1>5. s \in Seq(Nat)
    BY <1>3, <1>4, SequenceOf
<1> QED
    BY <1>5

\* A measurement fits its word.
LEMMA MeasurementInWord ==
    ASSUME speed \in Speeds, NEW r \in Representations, NEW bitRate \in MeasuredBitRates(r)
    PROVE  bitRate \in 0..WordModulus - 1
<1> DEFINE b == Bits(r)
<1>1. speed \in Nat /\ speed > 0 /\ WordModulus \in Nat /\ WordModulus > 0
    BY AdaptationAssumption
<1>2. b \in Nat
    <2>1. SegmentBytes[r] \in Nat /\ MillisPerSecond \in Nat
        BY AdaptationAssumption
    <2> DEFINE x == SegmentBytes[r] * 8
               y == MillisPerSecond
    <2>2. x \in Nat /\ y \in Nat
        BY <2>1
    <2> HIDE DEF x, y
    <2>3. x * y \in Nat
        BY <2>2
    <2> QED
        BY <2>3 DEF Bits, x, y
<1> HIDE DEF b
<1>3. PICK time \in ElapsedTimes(r) :
          bitRate \in IF time = 0 THEN {0, WordModulus - 1} ELSE {Uint(b) \div time}
    BY DEF MeasuredBitRates, b
<1>4. time \in Nat
    <2>1. b \div speed \in Nat
        BY <1>1, <1>2, Z3
    <2>2. time = b \div speed \/ time = b \div speed + 1
        BY DEF ElapsedTimes, b
    <2> QED
        BY <2>1, <2>2
<1>5. Uint(b) \in 0..WordModulus - 1
    BY <1>2, UintInWord
<1>6. CASE time = 0
    BY <1>1, <1>3, <1>6
<1>7. CASE time # 0
    <2>1. bitRate = Uint(b) \div time
        BY <1>3, <1>7
    <2> DEFINE x == Uint(b)
    <2>2. x \in 0..WordModulus - 1 /\ time \in Nat /\ time > 0
        BY <1>5, <1>7, <1>4
    <2> HIDE DEF x
    <2>3. x \div time \in 0..WordModulus - 1
        BY <1>1, <2>2, Z3
    <2> QED
        BY <2>1, <2>3 DEF x
<1> QED
    BY <1>6, <1>7

\* The trace keeps its type and its capacity, and is not empty afterwards.
LEMMA TraceUpdated ==
    ASSUME throughputTrace \in Seq(0..WordModulus - 1),
           Len(throughputTrace) <= TraceCapacity, NEW bitRate \in 0..WordModulus - 1
    PROVE  LET trace == UpdatedTrace(bitRate)
           IN /\ trace \in Seq(0..WordModulus - 1)
              /\ Len(trace) <= TraceCapacity
              /\ trace # <<>>
<1> DEFINE R == 0..WordModulus - 1
           trace == Append(throughputTrace, bitRate)
<1>1. TraceCapacity \in Nat /\ TraceCapacity > 0
    BY AdaptationAssumption
<1>2. bitRate \in R /\ throughputTrace \in Seq(R)
    OBVIOUS
<1> HIDE DEF R
<1>3. trace \in Seq(R) /\ Len(trace) = Len(throughputTrace) + 1 /\ Len(throughputTrace) \in Nat
    BY <1>2
<1> HIDE DEF trace
<1>4. UpdatedTrace(bitRate) = IF Len(trace) > TraceCapacity THEN Tail(trace) ELSE trace
    BY DEF UpdatedTrace, trace
<1>5. CASE Len(trace) > TraceCapacity
    <2>1. trace # <<>>
        BY <1>1, <1>3, <1>5
    <2>2. Tail(trace) \in Seq(R) /\ Len(Tail(trace)) = Len(trace) - 1
        BY <1>3, <2>1
    <2>3. Len(Tail(trace)) > 0 /\ Len(Tail(trace)) <= TraceCapacity
        BY <1>1, <1>3, <1>5, <2>2
    <2>4. Tail(trace) # <<>>
        <3>1. Len(<<>>) = 0
            OBVIOUS
        <3> DEFINE t == Tail(trace)
        <3>2. Len(t) > 0
            BY <2>3
        <3> HIDE DEF t
        <3>3. t # <<>>
            BY <3>1, <3>2
        <3> QED
            BY <3>3 DEF t
    <2> QED
        BY <1>4, <1>5, <2>2, <2>3, <2>4 DEF R
<1>6. CASE ~(Len(trace) > TraceCapacity)
    <2>1. trace # <<>> /\ Len(trace) <= TraceCapacity
        BY <1>1, <1>3, <1>6
    <2> QED
        BY <1>3, <1>4, <1>6, <2>1 DEF R
<1> QED
    BY <1>5, <1>6

\* RateBase alone does not remember the choice, and needs no memory: the choice
\* is that of the trace.
RateInv ==
    /\ RateTypeOK
    /\ last_index = OutOfRange => adaptation = "RateBufferBase"
    /\ adaptation = "RateBase" /\ throughputTrace # <<>>
           => representation = Nearest(throughputTrace)

LEMMA RateInitially ==
    RateInit => RateInv
<1> SUFFICES ASSUME RateInit PROVE RateInv
    OBVIOUS
<1>1. 1 \in Representations /\ OutOfRange # 1
    BY AdaptationAssumption DEF Representations, OutOfRange
<1>2. last_index \in Representations \cup {OutOfRange}
    BY <1>1 DEF RateInit
<1>3. last_index = OutOfRange => adaptation = "RateBufferBase"
    BY <1>1 DEF RateInit
<1>4. throughputTrace = <<>> /\ Len(throughputTrace) <= TraceCapacity
    BY AdaptationAssumption DEF RateInit
<1>5. throughputTrace \in Seq(0..WordModulus - 1)
    BY <1>4
<1>6. /\ adaptation \in Logics /\ representation \in Representations
      /\ speed \in Speeds /\ crashed \in BOOLEAN
    BY DEF RateInit
<1> QED
    BY <1>2, <1>3, <1>4, <1>5, <1>6 DEF RateInv, RateTypeOK

LEMMA RateAdapts ==
    ASSUME RateInv, OnSegmentDownloaded
    PROVE  /\ RateInv'
           /\ adaptation = "RateBufferBase"
                  => representation' # last_index \/ representation' = 1
<1>1. PICK bitRate \in MeasuredBitRates(representation) :
          /\ throughputTrace' = UpdatedTrace(bitRate)
          /\ \E r \in Eligible(UpdatedTrace(bitRate)) :
                /\ representation' = r
                /\ last_index' = IF adaptation = "RateBase" THEN last_index ELSE r
    BY DEF OnSegmentDownloaded
<1> DEFINE trace == UpdatedTrace(bitRate)
<1>2. PICK r \in Eligible(trace) :
          /\ representation' = r
          /\ last_index' = IF adaptation = "RateBase" THEN last_index ELSE r
    BY <1>1
<1>3. adaptation' = adaptation /\ speed' = speed /\ crashed' = crashed
    BY DEF OnSegmentDownloaded
<1>4. /\ trace \in Seq(0..WordModulus - 1) /\ Len(trace) <= TraceCapacity /\ trace # <<>>
      /\ throughputTrace' = trace
    <2>1. bitRate \in 0..WordModulus - 1
        BY MeasurementInWord DEF RateInv, RateTypeOK
    <2> QED
        BY <1>1, <2>1, TraceUpdated DEF RateInv, RateTypeOK
<1>5. last_index \in Representations
    <2>1. last_index # OutOfRange
        BY DEF OnSegmentDownloaded, Usable, RateInv
    <2> QED
        BY <2>1 DEF RateInv, RateTypeOK
<1> HIDE DEF trace
<1>6. trace \in Seq(Nat)
    BY <1>4, WordsAreNumbers
<1>7. /\ r \in Representations
      /\ adaptation = "RateBase" => r = Nearest(trace)
      /\ adaptation = "RateBufferBase" => r # last_index \/ r = 1
    <2>1. CASE adaptation = "RateBase"
        <3>1. r = Nearest(trace)
            BY <1>2, <2>1 DEF Eligible
        <3> QED
            BY <1>6, <2>1, <3>1, NearestIsNearest
    <2>2. CASE adaptation = "RateBufferBase"
        <3>1. PICK f \in Fills : r = Step(trace, f)
            BY <1>2, <2>2 DEF Eligible
        <3> QED
            BY <1>5, <2>2, <3>1, StepMoves
    <2>3. CASE adaptation \notin {"RateBase", "RateBufferBase"}
        BY <1>2, <2>3 DEF Eligible
    <2> QED
        BY <2>1, <2>2, <2>3
<1>8. last_index' \in Representations /\ representation' = r
    BY <1>2, <1>5, <1>7
<1>9. last_index' # OutOfRange
    BY <1>8, AdaptationAssumption DEF Representations, OutOfRange
<1>10. RateInv'
    BY <1>3, <1>4, <1>7, <1>8, <1>9 DEF RateInv, RateTypeOK
<1> QED
    BY <1>7, <1>8, <1>10

LEMMA RateKeeps ==
    ASSUME RateInv, [RateNext]_rateVars PROVE RateInv'
<1>1. CASE OnSegmentDownloaded
    BY <1>1, RateAdapts
<1>2. CASE LastIndexThrows
    BY <1>2 DEF LastIndexThrows, RateInv, RateTypeOK
<1>3. CASE NetworkChanges
    BY <1>3 DEF NetworkChanges, RateInv, RateTypeOK
<1>4. CASE UNCHANGED rateVars
    BY <1>4 DEF rateVars, RateInv, RateTypeOK
<1> QED
    BY <1>1, <1>2, <1>3, <1>4 DEF RateNext

LEMMA RateInvariant ==
    RateSpec => []RateInv
<1>1. RateInit => RateInv
    BY RateInitially
<1>2. RateInv /\ [RateNext]_rateVars => RateInv'
    BY RateKeeps
<1> QED
    BY <1>1, <1>2, PTL DEF RateSpec

\* The adaptation keeps its types: measurements wrap around within their word, the
\* trace has its capacity, and every choice is a representation.
THEOREM RateTypeCorrect ==
    RateSpec => []RateTypeOK
<1>1. RateInv => RateTypeOK
    BY DEF RateInv
<1> QED
    BY <1>1, RateInvariant, PTL

\* RateBase uses the representation nearest to the harmonic mean of the trace, but
\* for the fraction that the loop of GetRepresentation loses, and the first one if
\* all are farther off than its first minValue.
THEOREM NearestToPredictionAlways ==
    RateSpec => []NearestToPrediction
<1>1. RateInv => NearestToPrediction
    <2> SUFFICES ASSUME RateInv, adaptation = "RateBase", throughputTrace # <<>>
                 PROVE  NearestToPrediction
        BY DEF NearestToPrediction
    <2>1. throughputTrace \in Seq(0..WordModulus - 1)
        BY DEF RateInv, RateTypeOK
    <2>2. throughputTrace \in Seq(Nat)
        BY <2>1, WordsAreNumbers
    <2>3. representation = Nearest(throughputTrace)
        BY DEF RateInv
    <2> QED
        BY <2>2, <2>3, NearestIsNearest DEF NearestToPrediction
<1> QED
    BY <1>1, RateInvariant, PTL

\* RateBufferBase never takes two segments in a row from one representation, but
\* from the first one: no candidate of GetRepresentation is the last choice.
THEOREM NeverStaysAlways ==
    RateSpec => NeverStays
<1> DEFINE Moves == adaptation = "RateBufferBase" /\ OnSegmentDownloaded
                        => representation' # last_index \/ representation' = 1
<1>1. RateInv => [Moves]_rateVars
    BY RateAdapts
<1> QED
    BY <1>1, RateInvariant, PTL DEF RateSpec, NeverStays
=============================================================================
