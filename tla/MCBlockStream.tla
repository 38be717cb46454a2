--------------------------- MODULE MCBlockStream ----------------------------
(* BlockStream with a few bytes, in blocks of several sizes. *)
EXTENDS BlockStream
=============================================================================
