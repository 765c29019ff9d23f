------------------------------ MODULE MCRwLock ------------------------------
(***************************************************************************)
(* RwLock for TLC.  The configurations give the slots, the values          *)
(* and the id at which allocation wraps around.                            *)
(***************************************************************************)
EXTENDS RwLock

=============================================================================
