---------------------------- MODULE MCTaskScope ----------------------------
(***************************************************************************)
(* TaskScope for TLC: the program tree of the runs.                         *)
(***************************************************************************)
EXTENDS TaskScope, TLC

CONSTANTS c1, t1, t2, t3

\* main submits t1, which opens a scope for t2, which opens one for t3.  If
\* scopes are shared, t3 may instead become t2's sibling.
Chain == t1 :> c1 @@ t2 :> t1 @@ t3 :> t2

=============================================================================
