-------------------------- MODULE MCSegmentReader ---------------------------
(* SegmentReader on segments of a few bytes, two decoders. *)
EXTENDS SegmentReader
=============================================================================
