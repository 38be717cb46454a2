------------------------- MODULE MCDownloadChunk ----------------------------
(* DownloadChunk on a chunk of a few blocks and two aborting threads. *)
EXTENDS DownloadChunk
=============================================================================
