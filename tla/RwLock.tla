------------------------------- MODULE RwLock -------------------------------
(***************************************************************************)
(* The asynchronous reader-writer lock (runtime/src/async_runtime/          *)
(* concurrent.rs).  Every entry point holds the mutex of the lock's inner   *)
(* state from its first read to its last write, so each is one action.  A   *)
(* slot is what a caller keeps of one acquisition: first a future, then the *)
(* guard token the future yields.  Pending futures ask to be polled again   *)
(* at once; a poll that finds nothing to do is a stuttering step.           *)
(***************************************************************************)
EXTENDS Integers, Sequences, FiniteSets

CONSTANTS
    Slots,
    Values,
    MaxId,          \* stands for i64::MAX, where the id counters wrap around
    AbandonsGrant   \* callers also cancel futures that are already ready

ASSUME IdAssumption == MaxId \in Nat \ {0}

VARIABLES
    readers, writer, closed, nextGuardId, nextWaiterId,
    guards,    \* guards[g]: the kind of guard g, Absent if the map has no g
    waiters, waiterQueue, payload,
    alive,     \* the lock's handle has not been dropped
    future,    \* "none", "pending" or "ready", per slot
    kind, waiterId, outcome,
    token      \* the guard the slot's owner holds

innerVars == <<readers, writer, closed, nextGuardId, nextWaiterId, guards, waiters,
               waiterQueue, payload>>
slotVars == <<future, kind, waiterId, outcome, token>>
vars == <<innerVars, slotVars, alive>>

Kinds == {"Read", "Write"}
Absent == "Absent"   \* no such key in the map
None == 0
Invalid == -1
Ids == 1..MaxId

Init ==
    /\ readers = 0 /\ writer = FALSE /\ closed = FALSE
    /\ nextGuardId = 1 /\ nextWaiterId = 1
    /\ guards = [g \in Ids |-> Absent]
    /\ waiters = [w \in Ids |-> Absent]
    /\ waiterQueue = <<>>
    /\ payload \in Values
    /\ alive = TRUE
    /\ future = [s \in Slots |-> "none"]
    /\ kind = [s \in Slots |-> "Read"]
    /\ waiterId = [s \in Slots |-> None]
    /\ outcome = [s \in Slots |-> None]
    /\ token = [s \in Slots |-> None]

-----------------------------------------------------------------------------
\* Faulty variant: the id counter does not wrap around.
BadSuccessor(id) == id + 1

Successor(id) == IF id = MaxId THEN 1 ELSE id + 1

\* The j-th id the allocation loop tries.
Candidate(next, j) == IF next + j <= MaxId THEN next + j ELSE next + j - MaxId

\* Faulty variant: the loop does not look for the id in the map.
BadFreshId(next, used) == next

\* The first id from next on that the map does not contain.
FreshId(next, used) ==
    LET free == {j \in 0..(MaxId - 1) : used[Candidate(next, j)] = Absent}
    IN  Candidate(next, CHOOSE j \in free : \A i \in free : j <= i)

\* The allocation loop ends: there are never i64::MAX live ids.
HasFreeId(used) == \E id \in Ids : used[id] = Absent

\* Faulty variant: a waiting writer does not hold back new readers.
BadHasWaitingWriter == FALSE

HasWaitingWriter == \E w \in Ids : waiters[w] = "Write"

FirstWaiter ==
    LET queued == SelectSeq(waiterQueue, LAMBDA w : waiters[w] # Absent)
    IN  IF queued = <<>> THEN None ELSE Head(queued)

\* Faulty variant: a write guard is granted while readers hold theirs.
BadFree(k) == ~writer

Free(k) == ~writer /\ (k = "Write" => readers = 0)

\* The rule for a slot's first poll.
NewcomerCanAcquire(s) ==
    /\ Free(kind[s])
    /\ IF kind[s] = "Read" THEN ~HasWaitingWriter ELSE FirstWaiter = None

\* Faulty variant: a registered waiter is treated like a newcomer.
BadWaiterCanAcquire(s) == NewcomerCanAcquire(s)

\* rwlock_waiter_can_acquire, for a slot that is registered.
WaiterCanAcquire(s) ==
    /\ waiters[waiterId[s]] # Absent
    /\ FirstWaiter = waiterId[s]
    /\ Free(waiters[waiterId[s]])

AcquireGuard(k) ==
    LET id == FreshId(nextGuardId, guards) IN
    /\ HasFreeId(guards)
    /\ nextGuardId' = Successor(id)
    /\ guards' = [guards EXCEPT ![id] = k]
    /\ readers' = IF k = "Read" THEN readers + 1 ELSE readers
    /\ writer' = IF k = "Write" THEN TRUE ELSE writer

RegisterWaiter(k) ==
    LET id == FreshId(nextWaiterId, waiters) IN
    /\ HasFreeId(waiters)
    /\ nextWaiterId' = Successor(id)
    /\ waiters' = [waiters EXCEPT ![id] = k]
    /\ waiterQueue' = Append(waiterQueue, id)

\* Faulty variant: the future forgets its registration, the lock does not.
BadUnregisterWaiter(s) ==
    /\ waiterId' = [waiterId EXCEPT ![s] = None]
    /\ UNCHANGED <<waiters, waiterQueue>>

\* A future that has not registered leaves nothing behind.
UnregisterWaiter(s) ==
    /\ IF waiterId[s] = None
       THEN UNCHANGED <<waiters, waiterQueue>>
       ELSE /\ waiters' = [waiters EXCEPT ![waiterId[s]] = Absent]
            /\ waiterQueue' = SelectSeq(waiterQueue, LAMBDA w : w # waiterId[s])
    /\ waiterId' = [waiterId EXCEPT ![s] = None]

-----------------------------------------------------------------------------
\* The slot is not in use.
Vacant(s) == future[s] = "none" /\ token[s] = None

Start(s, k) ==
    /\ alive /\ Vacant(s)
    /\ future' = [future EXCEPT ![s] = "pending"]
    /\ kind' = [kind EXCEPT ![s] = k]
    /\ UNCHANGED <<innerVars, alive, waiterId, outcome, token>>

PollClosed(s) ==
    /\ future[s] = "pending" /\ closed
    /\ UnregisterWaiter(s)
    /\ outcome' = [outcome EXCEPT ![s] = Invalid]
    /\ future' = [future EXCEPT ![s] = "ready"]
    /\ UNCHANGED <<readers, writer, closed, nextGuardId, nextWaiterId, guards, payload,
                   alive, kind, token>>

PollGrants(s) ==
    /\ future[s] = "pending" /\ ~closed
    /\ IF waiterId[s] # None THEN WaiterCanAcquire(s) ELSE NewcomerCanAcquire(s)
    /\ UnregisterWaiter(s)
    /\ AcquireGuard(kind[s])
    /\ outcome' = [outcome EXCEPT ![s] = FreshId(nextGuardId, guards)]
    /\ future' = [future EXCEPT ![s] = "ready"]
    /\ UNCHANGED <<closed, nextWaiterId, payload, alive, kind, token>>

PollRegisters(s) ==
    /\ future[s] = "pending" /\ ~closed
    /\ waiterId[s] = None /\ ~NewcomerCanAcquire(s)
    /\ RegisterWaiter(kind[s])
    /\ waiterId' = [waiterId EXCEPT ![s] = FreshId(nextWaiterId, waiters)]
    /\ UNCHANGED <<readers, writer, closed, nextGuardId, guards, payload, alive,
                   future, kind, outcome, token>>

\* The result of a future that is not ready is an error.
Result(s) ==
    /\ future[s] # "none"
    /\ UnregisterWaiter(s)
    /\ token' = [token EXCEPT ![s] = IF outcome[s] = Invalid THEN None ELSE outcome[s]]
    /\ outcome' = [outcome EXCEPT ![s] = None]
    /\ future' = [future EXCEPT ![s] = "none"]
    /\ UNCHANGED <<readers, writer, closed, nextGuardId, nextWaiterId, guards, payload,
                   alive, kind>>

\* cancel and drop: a guard in the outcome is not released.
Abandon(s) ==
    /\ future[s] # "none"
    /\ future[s] = "ready" => AbandonsGrant
    /\ UnregisterWaiter(s)
    /\ outcome' = [outcome EXCEPT ![s] = None]
    /\ future' = [future EXCEPT ![s] = "none"]
    /\ UNCHANGED <<readers, writer, closed, nextGuardId, nextWaiterId, guards, payload,
                   alive, kind, token>>

TryRefuses(k) ==
    IF k = "Read" THEN writer \/ HasWaitingWriter
    ELSE writer \/ readers # 0 \/ \E w \in Ids : waiters[w] # Absent

\* sengoo_async_rwlock_try_read and try_write.  A call that is refused, or made
\* on a closed lock, changes nothing.
Try(s, k) ==
    /\ alive /\ Vacant(s) /\ ~closed
    /\ ~TryRefuses(k)
    /\ AcquireGuard(k)
    /\ kind' = [kind EXCEPT ![s] = k]
    /\ token' = [token EXCEPT ![s] = FreshId(nextGuardId, guards)]
    /\ UNCHANGED <<closed, nextWaiterId, waiters, waiterQueue, payload, alive, future,
                   waiterId, outcome>>

\* Faulty variant: a reader that leaves is still counted.
BadRelease(k) ==
    /\ writer' = IF k = "Write" THEN FALSE ELSE writer
    /\ UNCHANGED readers

Release(k) ==
    /\ readers' = IF k = "Read" /\ readers > 0 THEN readers - 1 ELSE readers
    /\ writer' = IF k = "Write" THEN FALSE ELSE writer

\* Guards are released on a closed lock too.
GuardUnlock(s) ==
    /\ alive /\ token[s] # None
    /\ guards[token[s]] = kind[s]
    /\ guards' = [guards EXCEPT ![token[s]] = Absent]
    /\ Release(kind[s])
    /\ token' = [token EXCEPT ![s] = None]
    /\ UNCHANGED <<closed, nextGuardId, nextWaiterId, waiters, waiterQueue, payload,
                   alive, future, kind, waiterId, outcome>>

WriteGuardSet(s, v) ==
    /\ alive /\ token[s] # None
    /\ guards[token[s]] = "Write"
    /\ payload' = v
    /\ UNCHANGED <<readers, writer, closed, nextGuardId, nextWaiterId, guards, waiters,
                   waiterQueue, alive, slotVars>>

Close ==
    /\ alive
    /\ closed' = TRUE
    /\ UNCHANGED <<readers, writer, nextGuardId, nextWaiterId, guards, waiters,
                   waiterQueue, payload, alive, slotVars>>

\* No guard may outlive the lock; futures may.
Drop ==
    /\ alive
    /\ \A s \in Slots : token[s] = None /\ outcome[s] \in {None, Invalid}
    /\ alive' = FALSE
    /\ closed' = TRUE
    /\ UNCHANGED <<readers, writer, nextGuardId, nextWaiterId, guards, waiters,
                   waiterQueue, payload, slotVars>>

Poll(s) == PollClosed(s) \/ PollGrants(s) \/ PollRegisters(s)

Next ==
    \/ Close \/ Drop
    \/ \E s \in Slots : Poll(s) \/ Result(s) \/ Abandon(s) \/ GuardUnlock(s)
    \/ \E s \in Slots, k \in Kinds : Start(s, k) \/ Try(s, k)
    \/ \E s \in Slots, v \in Values : WriteGuardSet(s, v)

Spec == Init /\ [][Next]_vars

\* A pending future is polled again, a ready one is awaited, a guard is dropped.
FairSpec ==
    /\ Spec
    /\ \A s \in Slots :
        /\ WF_vars(Poll(s))
        /\ WF_vars(future[s] = "ready" /\ Result(s))
        /\ WF_vars(GuardUnlock(s))

-----------------------------------------------------------------------------
TypeOK ==
    /\ readers \in Nat /\ writer \in BOOLEAN /\ closed \in BOOLEAN
    /\ nextGuardId \in Ids /\ nextWaiterId \in Ids
    /\ guards \in [Ids -> Kinds \cup {Absent}]
    /\ waiters \in [Ids -> Kinds \cup {Absent}]
    /\ waiterQueue \in Seq(Ids)
    /\ payload \in Values
    /\ alive \in BOOLEAN
    /\ future \in [Slots -> {"none", "pending", "ready"}]
    /\ kind \in [Slots -> Kinds]
    /\ waiterId \in [Slots -> Ids \cup {None}]
    /\ outcome \in [Slots -> Ids \cup {None, Invalid}]
    /\ token \in [Slots -> Ids \cup {None}]

\* The guard a slot owns, in its future or in its owner's hands.
Owned(s) ==
    IF token[s] # None THEN token[s]
    ELSE IF outcome[s] # Invalid THEN outcome[s] ELSE None

\* The lock's counters are those of the guards' map: rwlock_acquire_guard and
\* rwlock_guard_unlock, through whichever entry point and in whatever order,
\* keep `readers` and `writer` equal to what the map contains.
CountersMatchGuards ==
    /\ readers = Cardinality({g \in Ids : guards[g] = "Read"})
    /\ writer = (\E g \in Ids : guards[g] = "Write")

\* A guard id belongs to one owner: ids that wrap around are not handed out
\* twice, every owner's token is in the map with its own kind, and no guard
\* is left in the map when its future is consumed or canceled.
EveryGuardHasOneOwner ==
    /\ \A s \in Slots : Owned(s) # None => guards[Owned(s)] = kind[s]
    /\ \A s, r \in Slots : Owned(s) # None /\ Owned(s) = Owned(r) => s = r
    /\ \A g \in Ids : guards[g] # Absent => \E s \in Slots : Owned(s) = g

\* The waiters' map, the queue and the pending futures agree: canceling,
\* dropping, consuming or closing leaves no waiter behind that would block
\* the lock for ever, and no waiter is queued twice.
WaitersAgree ==
    /\ Len(waiterQueue) = Cardinality({w \in Ids : waiters[w] # Absent})
    /\ \A w \in Ids : waiters[w] # Absent =>
        /\ \E i \in DOMAIN waiterQueue : waiterQueue[i] = w
        /\ \E s \in Slots : waiterId[s] = w /\ future[s] = "pending" /\ kind[s] = waiters[w]

Waiting(s) == waiterId[s] # None

Place(s) == CHOOSE i \in DOMAIN waiterQueue : waiterQueue[i] = waiterId[s]

\* Writer fairness: while a writer is registered, a slot that acquires the
\* lock was registered before it.
WriterNotOvertaken ==
    [][\A w, s \in Slots :
        /\ Waiting(w) /\ kind[w] = "Write" /\ waiterId'[w] = waiterId[w]
        /\ Owned(s) = None /\ Owned(s)' # None
        => Waiting(s) /\ Place(s) < Place(w)]_vars

\* The lock grants readers or one writer, changes the value only through a
\* write guard, and grants nothing after close or drop.
Guarded == INSTANCE GuardedValue WITH
    reading <- {s \in Slots : Owned(s) # None /\ kind[s] = "Read"},
    writing <- {s \in Slots : Owned(s) # None /\ kind[s] = "Write"},
    value <- payload,
    open <- ~closed

ImplementsGuardedValue == Guarded!Spec

\* Nobody waits for ever, reader or writer, if guards are dropped and pending
\* futures are polled.
WaiterLeaves == \A s \in Slots : Waiting(s) ~> ~Waiting(s)

=============================================================================
