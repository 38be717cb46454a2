------------------------ MODULE MCMediaObjectBuffer ------------------------
(* MediaObjectBuffer with the threads of the player: the buffering thread, two decoders
   and the thread that stops. *)
EXTENDS MediaObjectBuffer
=============================================================================
