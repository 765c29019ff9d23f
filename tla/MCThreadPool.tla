---------------------------- MODULE MCThreadPool ----------------------------
(***************************************************************************)
(* ThreadPool for TLC.  The configuration gives the jobs and the workers.  *)
(***************************************************************************)
EXTENDS ThreadPool

=============================================================================
