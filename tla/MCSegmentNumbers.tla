-------------------------- MODULE MCSegmentNumbers --------------------------
(* SegmentNumbers with a buffer of two segments. *)
EXTENDS SegmentNumbers

Template(type, duration, timescale, total, depth) ==
    [type |-> type, duration |-> duration, timescale |-> timescale,
     mediaPresentationDuration |-> total, availabilityStarttime |-> 0,
     timeShiftBufferDepth |-> depth, timeline |-> <<>>]

\* Multiples, remainders, and a segment of less than a second.
Static == {Template("static", d, t, total, 0) : d \in 1..4, t \in {1, 2, 3}, total \in {0, 4, 5}}

\* A time shift buffer that is shorter and one that is longer than the four
\* segments that the receiver means to stay behind.
Live == {Template("dynamic", d, t, 0, depth) : d \in {1, 2}, t \in {1, 2}, depth \in {1, 3, 7}}

S(start, duration, repeat) == [start |-> start, duration |-> duration, repeat |-> repeat]

Timeline == {[Template("static", 0, 1, 4, 0) EXCEPT !.timeline = t] :
    t \in {<<S(0, 2, 0), S(2, 2, 1)>>, <<S(1, 2, 2)>>, <<S(0, 2, 2)>>, <<S(3, 1, 0), S(0, 1, 1), S(6, 1, 0)>>}}

Instance == Static \cup Live \cup Timeline
=============================================================================
