--------------------------- MODULE MCFrameHandover ---------------------------
(* Three pictures in two frame buffers, the first buffer used again.       *)
EXTENDS FrameHandover

MCFbOf == <<11, 12, 11>>
=============================================================================
