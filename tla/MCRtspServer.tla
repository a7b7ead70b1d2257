---------------------------- MODULE MCRtspServer ----------------------------
(***************************************************************************)
(* Instances of RtspServer for TLC.  MAX_RTSP_CLIENT is 1, as in the       *)
(* build.  Three patient clients follow each other; of two impatient ones, *)
(* one replaces the other.                                                 *)
(***************************************************************************)
EXTENDS RtspServer

=============================================================================
