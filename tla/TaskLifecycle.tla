--------------------------- MODULE TaskLifecycle ---------------------------
(***************************************************************************)
(* What the executor promises its users about a task, with no threads,      *)
(* queues or locks: a task is accepted while the executor is open and has   *)
(* room, runs user code in turns, may be doomed by a cancellation request,  *)
(* and settles once, for good.  Executor implements this specification.     *)
(***************************************************************************)
EXTENDS Naturals, FiniteSets

CONSTANTS Tasks, Capacity

VARIABLES
    life,     \* what task_status reports
    open,     \* submissions are accepted
    doomed,   \* tasks asked to cancel
    running   \* tasks whose user code is executing

absVars == <<life, open, doomed, running>>

Settled == {"Completed", "Canceled", "Failed"}
Live == {t \in Tasks : life[t] = "Pending"}

Init ==
    /\ life = [t \in Tasks |-> "Unknown"]
    /\ open = FALSE
    /\ doomed = {} /\ running = {}

\* An executor is started only when none of its predecessor's tasks is left.
Open ==
    /\ ~open /\ Live = {}
    /\ open' = TRUE
    /\ UNCHANGED <<life, doomed, running>>

\* Shutdown closes it, dooming either nothing (drain) or every live task.
Close ==
    /\ open
    /\ open' = FALSE
    /\ doomed' \in {doomed, doomed \cup Live}
    /\ UNCHANGED <<life, running>>

Accept(t) ==
    /\ open /\ life[t] = "Unknown"
    /\ Cardinality(Live) < Capacity
    /\ life' = [life EXCEPT ![t] = "Pending"]
    /\ UNCHANGED <<open, doomed, running>>

Doom(t) ==
    /\ life[t] = "Pending"
    /\ doomed' = doomed \cup {t}
    /\ UNCHANGED <<life, open, running>>

\* A doomed task never gets another turn.
Resume(t) ==
    /\ life[t] = "Pending" /\ t \notin doomed
    /\ running' = running \cup {t}
    /\ UNCHANGED <<life, open, doomed>>

Pause(t) ==
    /\ running' = running \ {t}
    /\ UNCHANGED <<life, open, doomed>>

\* Only a doomed task ends Canceled, and none ends in the middle of its turn.
Settle(t, v) ==
    /\ life[t] = "Pending" /\ t \notin running
    /\ v = "Canceled" => t \in doomed
    /\ life' = [life EXCEPT ![t] = v]
    /\ UNCHANGED <<open, doomed, running>>

Next ==
    \/ Open \/ Close
    \/ \E t \in Tasks : Accept(t) \/ Doom(t) \/ Resume(t) \/ Pause(t)
    \/ \E t \in Tasks, v \in Settled : Settle(t, v)

Spec == Init /\ [][Next]_absVars

=============================================================================
