----------------------------- MODULE ThreadPool -----------------------------
(***************************************************************************)
(* The work-stealing pool for blocking work (runtime/src/async_runtime/     *)
(* thread_pool.rs) and the spawn_blocking futures over it (concurrent.rs).  *)
(* A worker looks through the queues one lock at a time, so jobs arrive and *)
(* disappear behind its back; it then waits without having held any lock in *)
(* between, and only the 10 ms timeout makes up for a notification that     *)
(* came too early.  Submissions hold the POOL mutex and are one step.       *)
(***************************************************************************)
EXTENDS Naturals, Sequences, FiniteSets, SequencesExt

CONSTANTS
    Jobs,          \* each is submitted at most once
    NumWorkers,
    CanShutdown,   \* the pool may be dropped
    None

ASSUME PoolAssumption == NumWorkers \in Nat \ {0}

VARIABLES
    enabled,     \* the pool exists: POOL and POOL_ENABLED
    queues, nextQueue, shutdown,
    pc,          \* where a worker is, "off" before the pool is enabled
    offset,      \* how many queues pop_or_steal has looked into
    current,     \* the job a worker has taken
    work,        \* jobs whose closure has not been taken out of the handle
    result, completed, canceled,   \* jobs for which the field is set
    runs,        \* how often a job's closure was called
    future       \* "none", "refused", "pending", "ready" or "gone", per job

poolVars == <<enabled, queues, nextQueue, shutdown>>
workerVars == <<pc, offset, current>>
jobVars == <<work, result, completed, canceled, runs>>
vars == <<poolVars, workerVars, jobVars, future>>

Workers == 0..(NumWorkers - 1)

Init ==
    /\ enabled = FALSE
    /\ queues = [w \in Workers |-> <<>>] /\ nextQueue = 0 /\ shutdown = FALSE
    /\ pc = [w \in Workers |-> "off"]
    /\ offset = [w \in Workers |-> 0]
    /\ current = [w \in Workers |-> None]
    /\ work = Jobs /\ result = {} /\ completed = {} /\ canceled = {}
    /\ runs = [j \in Jobs |-> 0]
    /\ future = [j \in Jobs |-> "none"]

-----------------------------------------------------------------------------
\* Enabling the pool again has no effect.
EnableThreadPool ==
    /\ ~enabled /\ ~shutdown
    /\ enabled' = TRUE
    /\ pc' = [w \in Workers |-> "scan"]
    /\ UNCHANGED <<queues, nextQueue, shutdown, offset, current, jobVars, future>>

\* notify_one wakes a worker that waits, if there is one.
NotifyOne ==
    LET waiting == {w \in Workers : pc[w] = "waiting"} IN
    IF waiting = {} THEN UNCHANGED pc
    ELSE \E w \in waiting : pc' = [pc EXCEPT ![w] = "scan"]

\* Faulty variant: the index is not taken modulo the number of queues.
BadNextIndex == nextQueue + 1

NextIndex == (nextQueue + 1) % NumWorkers

\* submit_job and enqueue, which go round the queues.
Submit(j) ==
    /\ future[j] = "none" /\ enabled
    /\ queues' = [queues EXCEPT ![nextQueue] = Append(@, j)]
    /\ nextQueue' = NextIndex
    /\ NotifyOne
    /\ future' = [future EXCEPT ![j] = "pending"]
    /\ UNCHANGED <<enabled, shutdown, offset, current, jobVars>>

\* Without a pool, start returns 0.
SubmitRefused(j) ==
    /\ future[j] = "none" /\ ~enabled
    /\ future' = [future EXCEPT ![j] = "refused"]
    /\ UNCHANGED <<poolVars, workerVars, jobVars>>

\* The pool is taken out of POOL, then dropped; its Drop joins the workers.
Shutdown ==
    /\ CanShutdown /\ enabled
    /\ enabled' = FALSE
    /\ shutdown' = TRUE
    /\ pc' = [w \in Workers |-> IF pc[w] = "waiting" THEN "scan" ELSE pc[w]]
    /\ UNCHANGED <<queues, nextQueue, offset, current, jobVars, future>>

-----------------------------------------------------------------------------
Victim(w) == (w + offset[w]) % NumWorkers

\* Faulty variant: a stolen job stays with its victim.
BadTakeFrom(q, own) == IF own THEN Tail(q) ELSE q

\* What is left of a queue: the owner pops the front, a thief the back.
TakeFrom(q, own) == IF own THEN Tail(q) ELSE Front(q)

\* One lock of pop_or_steal.
Scan(w) ==
    LET v == Victim(w)
        own == offset[w] = 0
        q == queues[v]
    IN
    /\ pc[w] = "scan"
    /\ \/ /\ q # <<>>
          /\ queues' = [queues EXCEPT ![v] = TakeFrom(q, own)]
          /\ current' = [current EXCEPT ![w] = IF own THEN Head(q) ELSE Last(q)]
          /\ offset' = [offset EXCEPT ![w] = 0]
          /\ pc' = [pc EXCEPT ![w] = "took"]
       \/ /\ q = <<>> /\ offset[w] + 1 < NumWorkers
          /\ offset' = [offset EXCEPT ![w] = @ + 1]
          /\ UNCHANGED <<queues, current, pc>>
       \/ /\ q = <<>> /\ offset[w] + 1 = NumWorkers
          /\ offset' = [offset EXCEPT ![w] = 0]
          /\ pc' = [pc EXCEPT ![w] = "idle"]
          /\ UNCHANGED <<queues, current>>
    /\ UNCHANGED <<enabled, nextQueue, shutdown, jobVars, future>>

\* The worker is done with its job.
Release(w) ==
    /\ current' = [current EXCEPT ![w] = None]
    /\ pc' = [pc EXCEPT ![w] = "scan"]

Begin(w) ==
    LET j == current[w] IN
    /\ pc[w] = "took"
    /\ IF j \in canceled \/ j \notin work
       THEN Release(w) /\ UNCHANGED <<work, runs>>
       ELSE /\ work' = work \ {j}
            /\ runs' = [runs EXCEPT ![j] = @ + 1]
            /\ pc' = [pc EXCEPT ![w] = "running"]
            /\ UNCHANGED current
    /\ UNCHANGED <<poolVars, offset, result, completed, canceled, future>>

\* The closure returns, and its result is stored unless the job was canceled.
Return(w) ==
    LET j == current[w] IN
    /\ pc[w] = "running"
    /\ IF j \in canceled
       THEN Release(w) /\ UNCHANGED result
       ELSE /\ result' = result \cup {j}
            /\ pc' = [pc EXCEPT ![w] = "stored"]
            /\ UNCHANGED current
    /\ UNCHANGED <<poolVars, offset, work, completed, canceled, runs, future>>

Complete(w) ==
    /\ pc[w] = "stored"
    /\ completed' = completed \cup {current[w]}
    /\ Release(w)
    /\ UNCHANGED <<poolVars, offset, work, result, canceled, runs, future>>

\* The loop found nothing: the worker exits if the pool is gone.
Idle(w) ==
    /\ pc[w] = "idle"
    /\ pc' = [pc EXCEPT ![w] = IF shutdown THEN "exited" ELSE "settling"]
    /\ UNCHANGED <<poolVars, offset, current, jobVars, future>>

\* wait_for_work looks at the flag once more...
Settle(w) ==
    /\ pc[w] = "settling"
    /\ pc' = [pc EXCEPT ![w] = IF shutdown THEN "scan" ELSE "entering"]
    /\ UNCHANGED <<poolVars, offset, current, jobVars, future>>

\* ...and then waits; wake_mutex protects nothing, notifiers do not take it.
EnterWait(w) ==
    /\ pc[w] = "entering"
    /\ pc' = [pc EXCEPT ![w] = "waiting"]
    /\ UNCHANGED <<poolVars, offset, current, jobVars, future>>

\* Faulty variant: the wait has no timeout.
BadTimedOut(w) == FALSE

TimedOut(w) == pc[w] = "waiting"

Wake(w) ==
    /\ TimedOut(w)
    /\ pc' = [pc EXCEPT ![w] = "scan"]
    /\ UNCHANGED <<poolVars, offset, current, jobVars, future>>

-----------------------------------------------------------------------------
\* The spawn_blocking future.

\* Faulty variant: a future is ready as soon as its closure has been called.
BadIsReady(j) == runs[j] > 0

IsReady(j) == j \in completed

Poll(j) ==
    /\ future[j] = "pending" /\ IsReady(j)
    /\ future' = [future EXCEPT ![j] = "ready"]
    /\ UNCHANGED <<poolVars, workerVars, jobVars>>

\* result does not cancel a job that is still to run.
Result(j) ==
    /\ future[j] \in {"pending", "ready"}
    /\ future' = [future EXCEPT ![j] = "gone"]
    /\ UNCHANGED <<poolVars, workerVars, jobVars>>

\* cancel and drop.
Cancel(j) ==
    /\ future[j] \in {"pending", "ready"}
    /\ canceled' = canceled \cup {j}
    /\ future' = [future EXCEPT ![j] = "gone"]
    /\ UNCHANGED <<poolVars, workerVars, work, result, completed, runs>>

Step(w) ==
    \/ Scan(w) \/ Begin(w) \/ Return(w) \/ Complete(w)
    \/ Idle(w) \/ Settle(w) \/ EnterWait(w) \/ Wake(w)

Next ==
    \/ EnableThreadPool \/ Shutdown
    \/ \E w \in Workers : Step(w)
    \/ \E j \in Jobs : Submit(j) \/ SubmitRefused(j) \/ Poll(j) \/ Result(j) \/ Cancel(j)

Spec == Init /\ [][Next]_vars

\* Worker threads run, their waits time out, closures return, and a pending
\* future, which asks to be polled at once, is polled.
FairSpec ==
    /\ Spec
    /\ \A w \in Workers : WF_vars(Step(w))
    /\ \A j \in Jobs : WF_vars(Poll(j))

-----------------------------------------------------------------------------
TypeOK ==
    /\ enabled \in BOOLEAN /\ shutdown \in BOOLEAN
    /\ queues \in [Workers -> Seq(Jobs)] /\ nextQueue \in Workers
    /\ pc \in [Workers -> {"off", "scan", "took", "running", "stored", "idle", "settling",
                           "entering", "waiting", "exited"}]
    /\ offset \in [Workers -> Workers]
    /\ current \in [Workers -> Jobs \cup {None}]
    /\ \A s \in {work, result, completed, canceled} : s \subseteq Jobs
    /\ runs \in [Jobs -> Nat]
    /\ future \in [Jobs -> {"none", "refused", "pending", "ready", "gone"}]

\* The places where job j is: entries of queues and workers that took it.
Places(j) ==
    {<<w, i>> \in Workers \X (1..Cardinality(Jobs)) :
        i \in DOMAIN queues[w] /\ queues[w][i] = j}
    \cup {<<w, 0>> : w \in {v \in Workers : current[v] = j}}

\* No job is lost or duplicated between the submitter, the owner of its queue
\* and the thieves: one that was accepted and is neither completed nor
\* canceled is in one place, and its closure is called at most once.
EveryJobHeldOnce ==
    \A j \in Jobs :
        /\ runs[j] <= 1
        /\ Cardinality(Places(j)) <= 1
        /\ future[j] = "pending" /\ j \notin completed => Cardinality(Places(j)) = 1

\* A future that reports ready has the value its closure returned.
ReadyHasResult == \A j \in Jobs : future[j] = "ready" => j \in result /\ runs[j] = 1

\* A blocking job that was accepted completes unless its future is consumed
\* or the pool dropped: no wakeup is lost for good and no job is left in a
\* queue nobody looks into.
JobCompletes ==
    \A j \in Jobs : future[j] = "pending" ~> (j \in completed \/ future[j] = "gone" \/ shutdown)

\* Dropping the pool returns: every worker it joins exits.
DropReturns == shutdown ~> \A w \in Workers : pc[w] = "exited"

=============================================================================
