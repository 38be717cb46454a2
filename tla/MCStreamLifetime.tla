-------------------------- MODULE MCStreamLifetime --------------------------
(* Two streams of three segments, each of a frame and a flush, one after the other, with the real capacity of the frame buffer. *)
EXTENDS StreamLifetime
=============================================================================
