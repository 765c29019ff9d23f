---------------------------- MODULE MCAsyncMutex ----------------------------
(***************************************************************************)
(* AsyncMutex for TLC.  The configuration gives the slots, the values      *)
(* and the bound on the waiter count.                                      *)
(***************************************************************************)
EXTENDS AsyncMutex

=============================================================================
