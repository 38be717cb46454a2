-------------------------- MODULE MCRateAdaptation --------------------------
(* RateAdaptation with five representations in a word of eight bits: two are so
   close that a millisecond decides between them, one has no bandwidth, and
   the segments of the largest wrap around; the fastest network is out of the
   reach of RateBase, and the smallest segments take no time on it. *)
EXTENDS RateAdaptation

Bandwidths == <<8, 0, 10, 12, 64>>
Sizes == <<1, 1, 2, 3, 4>>
=============================================================================
