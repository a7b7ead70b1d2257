---------------------------- MODULE MCThreadPool ----------------------------
(***************************************************************************)
(* An instance of ThreadPool for TLC.  The pool never needs more than      *)
(* maxThreads_ + 1 thread ids (ThreadObjectsBounded); the run has one      *)
(* more, so that the bound could be exceeded.                              *)
(***************************************************************************)
EXTENDS ThreadPool

=============================================================================
