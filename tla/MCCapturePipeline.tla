------------------------- MODULE MCCapturePipeline -------------------------
(***************************************************************************)
(* Instances of CapturePipeline for TLC.  With 2 * THREAD_COUNT + 1 frames *)
(* the first result is streamed that can neither share bgr_buf nor have    *)
(* been drawn on by one that does.                                         *)
(***************************************************************************)
EXTENDS CapturePipeline

=============================================================================
