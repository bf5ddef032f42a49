------------------------- MODULE MCThumbCoordinator -------------------------
(* ThumbCoordinator for TLC; the bounds are in the .cfg file.              *)
EXTENDS ThumbCoordinator
=============================================================================
