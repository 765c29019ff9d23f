---------------------------- MODULE GuardedValue ----------------------------
(***************************************************************************)
(* What the asynchronous locks promise: a value that many slots may hold    *)
(* for reading or one for writing, that only a writer changes, and that     *)
(* nobody acquires any more once the lock is closed.  RwLock and AsyncMutex *)
(* implement this specification; a mutex only has writers.                  *)
(***************************************************************************)
CONSTANTS Slots, Values

VARIABLES
    reading,   \* the slots that hold the value for reading
    writing,   \* the slots that hold it for writing
    value,
    open

lockVars == <<reading, writing, value, open>>

Init ==
    /\ reading = {} /\ writing = {}
    /\ value \in Values
    /\ open = TRUE

AcquireRead(s) ==
    /\ open /\ writing = {}
    /\ reading' = reading \cup {s}
    /\ UNCHANGED <<writing, value, open>>

AcquireWrite(s) ==
    /\ open /\ writing = {} /\ reading = {}
    /\ writing' = {s}
    /\ UNCHANGED <<reading, value, open>>

Release(s) ==
    /\ reading' = reading \ {s}
    /\ writing' = writing \ {s}
    /\ UNCHANGED <<value, open>>

Store(s, v) ==
    /\ s \in writing
    /\ value' = v
    /\ UNCHANGED <<reading, writing, open>>

\* The writer leaves a value behind as it releases the lock.
StoreAndRelease(s, v) ==
    /\ s \in writing
    /\ value' = v
    /\ writing' = writing \ {s}
    /\ UNCHANGED <<reading, open>>

Close ==
    /\ open' = FALSE
    /\ UNCHANGED <<reading, writing, value>>

Next ==
    \/ Close
    \/ \E s \in Slots : AcquireRead(s) \/ AcquireWrite(s) \/ Release(s)
    \/ \E s \in Slots, v \in Values : Store(s, v) \/ StoreAndRelease(s, v)

Spec == Init /\ [][Next]_lockVars

=============================================================================
