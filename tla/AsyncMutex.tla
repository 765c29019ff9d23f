----------------------------- MODULE AsyncMutex -----------------------------
(***************************************************************************)
(* The asynchronous mutex (runtime/src/async_runtime/concurrent.rs).  As in *)
(* RwLock, every entry point runs under the mutex of the inner state, and a *)
(* slot is what a caller keeps of one acquisition: a future, then a guard.  *)
(* The i64 and the descriptor-backed interfaces share the inner state and   *)
(* are modelled together: both give the owner the value and take it back.   *)
(* unlock_i64, guard_set and guard_unlock take the handle and check that    *)
(* the mutex is locked, not by whom.  The model assumes callers that pass   *)
(* it only while they own the mutex (s \in holding), as their safety        *)
(* comments and the guards of the library do.                               *)
(***************************************************************************)
EXTENDS Naturals, Sequences, SequencesExt

CONSTANTS
    Slots,
    Values,
    MaxWaiters,     \* bound on the waiter count, which Result can leave too high
    AbandonsGrant   \* callers also cancel futures that are already ready

VARIABLES
    locked, closed, waiters, payload,
    alive,     \* the handle has not been dropped
    future,    \* "none", "pending", "locked" (ready with the lock) or "failed"
    arrivals,  \* the slots with registered_waiter, in the order they registered
    holding    \* slots whose owner has a guard

vars == <<locked, closed, waiters, payload, alive, future, arrivals, holding>>

Init ==
    /\ locked = FALSE /\ closed = FALSE /\ waiters = 0
    /\ payload \in Values
    /\ alive = TRUE
    /\ future = [s \in Slots |-> "none"]
    /\ arrivals = <<>>
    /\ holding = {}

Registered(s) == Contains(arrivals, s)

\* saturating_sub(1)
Fewer(n) == IF n = 0 THEN 0 ELSE n - 1

Start(s) ==
    /\ alive /\ future[s] = "none" /\ s \notin holding
    /\ future' = [future EXCEPT ![s] = "pending"]
    /\ UNCHANGED <<locked, closed, waiters, payload, alive, arrivals, holding>>

\* Faulty variant: a closed mutex leaves its waiters pending.
BadPollClosed(s) == FALSE /\ UNCHANGED vars

\* The waiter stays registered.
PollClosed(s) ==
    /\ future[s] = "pending" /\ closed
    /\ future' = [future EXCEPT ![s] = "failed"]
    /\ UNCHANGED <<locked, closed, waiters, payload, alive, arrivals, holding>>

\* Faulty variant: a poll does not look at the flag.
BadAvailable == TRUE

\* Faulty variant: nobody takes a lock that others wait for.
BadYielding == ~locked /\ arrivals = <<>>

Available == ~locked

\* Faulty variant: the count is lowered, the registration kept.
BadUnregister(s) ==
    /\ waiters' = IF Registered(s) THEN Fewer(waiters) ELSE waiters
    /\ UNCHANGED arrivals

Unregister(s) ==
    /\ waiters' = IF Registered(s) THEN Fewer(waiters) ELSE waiters
    /\ arrivals' = Remove(arrivals, s)

\* Whoever polls first takes a free lock.
PollLocks(s) ==
    /\ future[s] = "pending" /\ ~closed /\ Available
    /\ locked' = TRUE
    /\ Unregister(s)
    /\ future' = [future EXCEPT ![s] = "locked"]
    /\ UNCHANGED <<closed, payload, alive, holding>>

\* Faulty variant: every poll registers.
BadNewWaiter(s) == TRUE

NewWaiter(s) == ~Registered(s)

PollRegisters(s) ==
    /\ future[s] = "pending" /\ ~closed /\ ~Available
    /\ NewWaiter(s) /\ waiters < MaxWaiters
    /\ waiters' = waiters + 1
    /\ arrivals' = Append(arrivals, s)
    /\ UNCHANGED <<locked, closed, payload, alive, future, holding>>

\* A future that is consumed while registered is not taken off the count.
Result(s) ==
    /\ future[s] # "none"
    /\ holding' = IF future[s] = "locked" THEN holding \cup {s} ELSE holding
    /\ future' = [future EXCEPT ![s] = "none"]
    /\ arrivals' = Remove(arrivals, s)
    /\ UNCHANGED <<locked, closed, waiters, payload, alive>>

\* cancel and drop: a lock the future already has stays locked.
Abandon(s) ==
    /\ future[s] # "none"
    /\ future[s] = "locked" => AbandonsGrant
    /\ Unregister(s)
    /\ future' = [future EXCEPT ![s] = "none"]
    /\ UNCHANGED <<locked, closed, payload, alive, holding>>

GuardSet(s, v) ==
    /\ alive /\ s \in holding
    /\ ~closed /\ locked
    /\ payload' = v
    /\ UNCHANGED <<locked, closed, waiters, alive, future, arrivals, holding>>

\* A closed mutex stays as it is.
Unlocked == IF closed THEN locked ELSE FALSE

\* The guard is gone even when the call returns an error.
GuardUnlock(s) ==
    /\ alive /\ s \in holding
    /\ locked' = Unlocked
    /\ holding' = holding \ {s}
    /\ UNCHANGED <<closed, waiters, payload, alive, future, arrivals>>

\* sengoo_async_mutex_unlock_i64 stores and unlocks in one call.
UnlockI64(s, v) ==
    /\ alive /\ s \in holding
    /\ locked' = Unlocked
    /\ payload' = IF closed \/ ~locked THEN payload ELSE v
    /\ holding' = holding \ {s}
    /\ UNCHANGED <<closed, waiters, alive, future, arrivals>>

Close ==
    /\ alive
    /\ closed' = TRUE
    /\ UNCHANGED <<locked, waiters, payload, alive, future, arrivals, holding>>

\* The compiler keeps the mutex alive for every guard; futures may outlive it.
Drop ==
    /\ alive /\ holding = {}
    /\ \A s \in Slots : future[s] # "locked"
    /\ alive' = FALSE
    /\ closed' = TRUE
    /\ UNCHANGED <<locked, waiters, payload, future, arrivals, holding>>

Poll(s) == PollClosed(s) \/ PollLocks(s) \/ PollRegisters(s)

Next ==
    \/ Close \/ Drop
    \/ \E s \in Slots :
        Start(s) \/ Poll(s) \/ Result(s) \/ Abandon(s) \/ GuardUnlock(s)
    \/ \E s \in Slots, v \in Values : GuardSet(s, v) \/ UnlockI64(s, v)

Spec == Init /\ [][Next]_vars

\* A pending future is polled again; a ready one is awaited; guards are dropped.
FairSpec ==
    /\ Spec
    /\ \A s \in Slots :
        /\ WF_vars(Poll(s))
        /\ WF_vars(future[s] \in {"locked", "failed"} /\ Result(s))
        /\ WF_vars(GuardUnlock(s))

-----------------------------------------------------------------------------
\* No future is registered twice.
TypeOK ==
    /\ locked \in BOOLEAN /\ closed \in BOOLEAN /\ alive \in BOOLEAN
    /\ waiters \in 0..MaxWaiters
    /\ payload \in Values
    /\ future \in [Slots -> {"none", "pending", "locked", "failed"}]
    /\ arrivals \in Seq(Slots) /\ IsInjective(arrivals)
    /\ holding \subseteq Slots

Owns(s) == s \in holding \/ future[s] = "locked"

\* The count covers the registered futures, through closing, canceling and
\* consuming them: no saturating_sub ever hides a count gone wrong.
CountCoversWaiters == waiters >= Len(arrivals)

\* If only owners unlock and store, the mutex has at most one owner, so a
\* read-modify-write between lock and unlock loses no update, and it is
\* granted to nobody once closed.
Guarded == INSTANCE GuardedValue WITH
    reading <- {},
    writing <- {s \in Slots : Owns(s)},
    value <- payload,
    open <- ~closed

ImplementsGuardedValue == Guarded!Spec

\* Closing the mutex wakes everyone who waits for it.
CloseWakesWaiters == \A s \in Slots : closed /\ future[s] = "pending" ~> future[s] # "pending"

\* A lock that was released while somebody waits for it is taken again: the
\* unlock wakes nobody, the next poll of a waiting future finds the lock free.
ReleasedLockIsTaken == (~locked /\ arrivals # <<>>) ~> (locked \/ closed \/ arrivals = <<>>)

\* What the documentation of Mutex says: the lock is acquired in FIFO order,
\* so nobody gets it before a future that already waits for it.
AcquiredInOrder ==
    [][\A s \in Slots : arrivals # <<>> /\ ~Owns(s) /\ Owns(s)' => s = Head(arrivals)]_vars

=============================================================================
