------------------------- MODULE MCPlaybackSession -------------------------
(* PlaybackSession on a stream of a few segments. *)
EXTENDS PlaybackSession
=============================================================================
