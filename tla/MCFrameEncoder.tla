--------------------------- MODULE MCFrameEncoder ---------------------------
(***************************************************************************)
(* Instances of FrameEncoder for TLC.  With four buffers both threads can  *)
(* convert at once, and two failures can use up the heap.                  *)
(***************************************************************************)
EXTENDS FrameEncoder, TLC

\* Which buffer the heap gives makes no difference.
Symmetry == Permutations(DmaBuffer)

=============================================================================
