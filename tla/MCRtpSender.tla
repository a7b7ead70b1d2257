---------------------------- MODULE MCRtpSender ----------------------------
(***************************************************************************)
(* Instances of RtpSender for TLC, with fragments of 3 bytes and lengths   *)
(* cut modulo 8.  The sizes are a failure (0), a short frame (2), one with *)
(* a short last fragment (5), one whose last fragment is empty (6), and    *)
(* one that is cut to exactly a packet (11).                               *)
(***************************************************************************)
EXTENDS RtpSender

=============================================================================
