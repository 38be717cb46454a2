---------------------------- MODULE MCNdnTransfer ----------------------------
(* NdnTransfer on two small files, for two threads. *)
EXTENDS NdnTransfer

\* Not there, empty, one whole packet, one whole and one shorter packet.
Sizes == {-1, 0, 2, 3}
=============================================================================
