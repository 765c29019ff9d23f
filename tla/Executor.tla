------------------------------ MODULE Executor ------------------------------
(***************************************************************************)
(* The concurrent executor of the Sengoo async runtime                      *)
(* (runtime/src/async_runtime/executor.rs and the part of bridge.rs that    *)
(* calls it): a bounded number of tasks, pinned round-robin to worker       *)
(* threads, polled until they complete, are canceled or panic.              *)
(*                                                                          *)
(* An AGENT is whoever runs user code: a client thread, or a task while a   *)
(* worker polls it.  Agents call spawn, cancel, join and shutdown; enable    *)
(* has an effect for clients only, since no task runs while the slot is     *)
(* empty and unlocked.  Every critical section of the state mutex is one   *)
(* step; what the code does between two critical sections is another.      *)
(* Condition variables are explicit: a thread that waits without a timeout  *)
(* stays put until some step notifies it.                                   *)
(***************************************************************************)
EXTENDS Integers, Sequences, FiniteSets

CONSTANTS
    Tasks,      \* the future frames a program may submit, each at most once
    Clients,    \* threads outside the executor
    NumWorkers, \* worker_count
    Capacity,   \* capacity
    TaskOps,    \* what a polled task may call: subset of OpNames
    None        \* "no agent", "no task"

ASSUME SetsAssumption == Tasks \cap Clients = {} /\ None \notin Tasks \cup Clients
ASSUME WorkersAssumption == NumWorkers \in Nat \ {0}
ASSUME CapacityAssumption == Capacity \in Nat \ {0}
OpNames == {"spawn", "cancel", "join", "shutdown"}
ASSUME OpsAssumption == TaskOps \subseteq OpNames

Workers == 0 .. NumWorkers - 1
Agents == Tasks \cup Clients
Terminal == {"Completed", "Canceled", "Failed"}
TaskStatus == {"Unknown", "Pending"} \cup Terminal

VARIABLES
    slot,        \* EXECUTOR holds Some(executor)
    slotHolder,  \* who keeps EXECUTOR locked across steps (inside shutdown)
    accepting, mode, stopWorkers, active, nextWorker, queues, controls,
    status,      \* statuses, "Unknown" when the map has no entry
    worker,      \* ConcurrentTask.worker_index
    cancelReq,   \* ConcurrentTask.cancel_requested
    due,         \* QueuedTask.next_wakeup is None or has passed
    stage,       \* where a frame is, see Stages
    verdict,     \* the status a frame is about to be finished with
    releases,    \* how often the cancel or drop hook has released the frame
    cancelAck,   \* tasks for which cancel has returned true
    alive,       \* worker threads that have not returned
    idle,        \* workers waiting on worker_ready[w] without a timeout
    stack,       \* the tasks a worker is polling, innermost last
    apc, arg     \* what each agent is calling, and on which task

slotVars == <<slot, slotHolder>>
poolVars == <<accepting, mode, stopWorkers, active, nextWorker>>
taskVars == <<controls, status, worker>>
frameVars == <<stage, verdict, releases>>
callVars == <<apc, arg>>
executorVars == <<slotVars, poolVars, queues, taskVars, cancelReq, due, cancelAck,
                  alive, idle, stack>>
vars == <<executorVars, frameVars, callVars>>

(***************************************************************************)
(* "fresh": not submitted; "submitting": inside spawn_task_raw;             *)
(* "cooperative": handed to the caller's single-threaded scheduler instead; *)
(* "rejected", "lost": spawn returned 0, with and without release;          *)
(* "queued", then "popped" from the queue, "polling" in user code,          *)
(* "pended" and about to be queued again, "cancel" hook about to run,       *)
(* "finish": about to enter finish_task; "done".                            *)
(***************************************************************************)
InFlight == {"popped", "polling", "pended", "cancel", "finish"}
Stages == {"fresh", "submitting", "cooperative", "rejected", "lost", "queued", "done"}
          \cup InFlight

CallStates == {"user", "isEnabled", "spawn", "cancelEnter", "cancelShared",
               "joinEnter", "joining", "joinWait", "drain", "drainWait", "joinWorkers"}

Init ==
    /\ slot = FALSE /\ slotHolder = None
    /\ accepting = FALSE /\ mode = "None" /\ stopWorkers = FALSE
    /\ active = 0 /\ nextWorker = 0
    /\ queues = [w \in Workers |-> <<>>]
    /\ controls = {}
    /\ status = [t \in Tasks |-> "Unknown"]
    /\ worker = [t \in Tasks |-> 0]
    /\ cancelReq = [t \in Tasks |-> FALSE]
    /\ due = [t \in Tasks |-> TRUE]
    /\ stage = [t \in Tasks |-> "fresh"]
    /\ verdict = [t \in Tasks |-> "Unknown"]
    /\ releases = [t \in Tasks |-> 0]
    /\ cancelAck = {}
    /\ alive = {} /\ idle = {}
    /\ stack = [w \in Workers |-> <<>>]
    /\ apc = [a \in Agents |-> "user"]
    /\ arg = [a \in Agents |-> None]

(***************************************************************************)
(* Helpers.                                                                 *)
(***************************************************************************)
SlotFree == slotHolder = None

\* t is the innermost poll of its worker's thread.
OnTop(t) ==
    LET s == stack[worker[t]] IN s # <<>> /\ s[Len(s)] = t

\* The thread of agent a is executing at call state c, not inside a nested poll.
At(a, c) ==
    /\ apc[a] = c
    /\ a \in Tasks => stage[a] = "polling" /\ OnTop(a)

MayCall(a, op) == At(a, "user") /\ (a \in Tasks => op \in TaskOps)

Goto(a, c, t) ==
    /\ apc' = [apc EXCEPT ![a] = c]
    /\ arg' = [arg EXCEPT ![a] = t]

Return(a) == Goto(a, "user", None)

Push(w, t) == stack' = [stack EXCEPT ![w] = Append(@, t)]

Pop(w) == stack' = [stack EXCEPT ![w] = SubSeq(@, 1, Len(@) - 1)]

Ready(t) == due[t] \/ cancelReq[t]

\* next_ready_task scans the queue once from the front, moving what is not yet
\* due to the back, and takes entry i, the first that is ready.
FirstReady(q, i) ==
    /\ i \in 1 .. Len(q)
    /\ Ready(q[i])
    /\ \A j \in 1 .. i - 1 : ~Ready(q[j])

\* Faulty variant: entries that are not due are popped and forgotten.
BadRotated(q, i) == SubSeq(q, i + 1, Len(q))

\* The queue after that scan: what followed entry i, then what preceded it.
Rotated(q, i) ==
    [j \in 1 .. Len(q) - 1 |-> q[IF j <= Len(q) - i THEN i + j ELSE j - (Len(q) - i)]]

\* Faulty variant: a queue without a ready entry counts as empty.
BadNothingQueued(w) == \A i \in 1 .. Len(queues[w]) : ~Ready(queues[w][i])

\* next_ready_task found neither a ready entry nor a delay to wait for.
NothingQueued(w) == queues[w] = <<>>

\* Faulty variant: the notification is forgotten.
BadNotifyWorker(w) == UNCHANGED idle

\* worker_ready[w].notify_one: only the thread of w ever waits there.
NotifyWorker(w) == idle' = idle \ {w}

\* Faulty variant: the bound is off by one.
BadHasRoom == accepting /\ active <= Capacity

\* spawn_returning_task's condition for taking a frame.
HasRoom == accepting /\ active < Capacity

\* A worker thread takes its first ready entry and enters poll_task.
PopReady(w) ==
    \E i \in 1 .. Len(queues[w]) :
        /\ FirstReady(queues[w], i)
        /\ queues' = [queues EXCEPT ![w] = Rotated(@, i)]
        /\ stage' = [stage EXCEPT ![queues[w][i]] = "popped"]
        /\ Push(w, queues[w][i])

(***************************************************************************)
(* enable: only an empty slot gets a new executor, with fresh workers.      *)
(***************************************************************************)
Enable(c) ==
    /\ At(c, "user")
    /\ SlotFree /\ ~slot
    /\ slot' = TRUE
    /\ accepting' = TRUE /\ mode' = "None" /\ stopWorkers' = FALSE
    /\ active' = 0 /\ nextWorker' = 0
    /\ queues' = [w \in Workers |-> <<>>]
    /\ alive' = Workers
    /\ UNCHANGED <<slotHolder, taskVars, cancelReq, due, frameVars, cancelAck, idle,
                   stack, callVars>>

(***************************************************************************)
(* sengoo_async_spawn_task_raw asks is_enabled, then calls spawn_detached;  *)
(* the slot is unlocked in between.                                         *)
(***************************************************************************)
CallSpawn(a, t) ==
    /\ MayCall(a, "spawn")
    /\ stage[t] = "fresh"
    /\ stage' = [stage EXCEPT ![t] = "submitting"]
    /\ Goto(a, "isEnabled", t)
    /\ UNCHANGED <<executorVars, verdict, releases>>

IsEnabled(a) ==
    /\ At(a, "isEnabled")
    /\ SlotFree
    /\ \/ slot /\ Goto(a, "spawn", arg[a]) /\ UNCHANGED stage
       \/ ~slot /\ Return(a) /\ stage' = [stage EXCEPT ![arg[a]] = "cooperative"]
    /\ UNCHANGED <<executorVars, verdict, releases>>

\* The slot was emptied since is_enabled: spawn_detached returns 0 at once.
SpawnNoExecutor(a) ==
    /\ At(a, "spawn")
    /\ SlotFree /\ ~slot
    /\ stage' = [stage EXCEPT ![arg[a]] = "lost"]
    /\ Return(a)
    /\ UNCHANGED <<executorVars, verdict, releases>>

\* spawn_returning_task gives the frame back and release_rejected frees it.
SpawnRejected(a) ==
    /\ At(a, "spawn")
    /\ SlotFree /\ slot
    /\ ~HasRoom
    /\ stage' = [stage EXCEPT ![arg[a]] = "rejected"]
    /\ releases' = [releases EXCEPT ![arg[a]] = @ + 1]
    /\ Return(a)
    /\ UNCHANGED <<executorVars, verdict>>

SpawnAccepted(a) ==
    LET t == arg[a]
        w == nextWorker % NumWorkers
    IN
    /\ At(a, "spawn")
    /\ SlotFree /\ slot
    /\ HasRoom
    /\ worker' = [worker EXCEPT ![t] = w]
    /\ nextWorker' = (nextWorker + 1) % NumWorkers
    /\ queues' = [queues EXCEPT ![w] = Append(@, t)]
    /\ due' = [due EXCEPT ![t] = TRUE]
    /\ controls' = controls \cup {t}
    /\ status' = [status EXCEPT ![t] = "Pending"]
    /\ active' = active + 1
    /\ NotifyWorker(w)
    /\ stage' = [stage EXCEPT ![t] = "queued"]
    /\ Return(a)
    /\ UNCHANGED <<slotVars, accepting, mode, stopWorkers, cancelReq, verdict,
                   releases, cancelAck, alive, stack>>

(***************************************************************************)
(* cancel clones the executor's Arc under the slot lock, then marks the     *)
(* task under the state lock.                                               *)
(***************************************************************************)
CallCancel(a, t) ==
    /\ MayCall(a, "cancel")
    /\ status[t] # "Unknown"
    /\ Goto(a, "cancelEnter", t)
    /\ UNCHANGED <<executorVars, frameVars>>

CancelEnter(a) ==
    /\ At(a, "cancelEnter")
    /\ SlotFree
    /\ \/ slot /\ Goto(a, "cancelShared", arg[a])
       \/ ~slot /\ Return(a)
    /\ UNCHANGED <<executorVars, frameVars>>

CancelShared(a) ==
    LET t == arg[a] IN
    /\ At(a, "cancelShared")
    /\ \/ /\ status[t] = "Pending" /\ t \in controls
          /\ cancelReq' = [cancelReq EXCEPT ![t] = TRUE]
          /\ cancelAck' = cancelAck \cup {t}
          /\ NotifyWorker(worker[t])
       \/ /\ ~(status[t] = "Pending" /\ t \in controls)
          /\ UNCHANGED <<cancelReq, cancelAck, idle>>
    /\ Return(a)
    /\ UNCHANGED <<slotVars, poolVars, queues, taskVars, due, frameVars, alive, stack>>

(***************************************************************************)
(* join: a worker thread joining a task of its own queue polls that queue   *)
(* while it waits (help_join_on_worker); everyone else waits on             *)
(* task_finished (join_shared).                                             *)
(***************************************************************************)
CallJoin(a, t) ==
    /\ MayCall(a, "join")
    /\ status[t] # "Unknown"
    /\ Goto(a, "joinEnter", t)
    /\ UNCHANGED <<executorVars, frameVars>>

JoinEnter(a) ==
    /\ At(a, "joinEnter")
    /\ SlotFree
    /\ \/ slot /\ Goto(a, "joining", arg[a])
       \/ ~slot /\ Return(a)
    /\ UNCHANGED <<executorVars, frameVars>>

\* Faulty variant: workers wait like everyone else.
BadHelping(a) == FALSE

Helping(a) == a \in Tasks /\ worker[a] = worker[arg[a]]

JoinReturn(a) ==
    /\ At(a, "joining")
    /\ status[arg[a]] # "Pending"
    /\ Return(a)
    /\ UNCHANGED <<executorVars, frameVars>>

JoinHelp(a) ==
    /\ At(a, "joining")
    /\ status[arg[a]] = "Pending"
    /\ Helping(a)
    /\ PopReady(worker[a])
    /\ UNCHANGED <<slotVars, poolVars, taskVars, cancelReq, due, verdict, releases,
                   cancelAck, alive, idle, callVars>>

\* A helper with entries that are not due waits with a timeout and looks again,
\* so only the empty queue makes it wait for task_finished.
JoinSleep(a) ==
    /\ At(a, "joining")
    /\ status[arg[a]] = "Pending"
    /\ Helping(a) => NothingQueued(worker[a])
    /\ Goto(a, "joinWait", arg[a])
    /\ UNCHANGED <<executorVars, frameVars>>

(***************************************************************************)
(* shutdown keeps EXECUTOR locked from take() until the last worker thread  *)
(* has been joined and the statuses are retired.                            *)
(***************************************************************************)
\* Faulty variant: the cancel flags are not set.
BadCancelAll(m) == UNCHANGED cancelReq

\* Cancel mode raises cancel_requested on every registered control.
CancelAll(m) ==
    cancelReq' = [t \in Tasks |-> cancelReq[t] \/ (m = "Cancel" /\ t \in controls)]

ShutdownBegin(c, m) ==
    /\ MayCall(c, "shutdown")
    /\ SlotFree /\ slot
    /\ slot' = FALSE /\ slotHolder' = c
    /\ accepting' = FALSE /\ mode' = m
    /\ CancelAll(m)
    /\ idle' = {}
    /\ Goto(c, "drain", None)
    /\ UNCHANGED <<stopWorkers, active, nextWorker, queues, taskVars, due, frameVars,
                   cancelAck, alive, stack>>

\* Faulty variant: shutdown does not wait for the last task.
BadDrained == TRUE

Drained == active = 0

ShutdownWait(c) ==
    /\ At(c, "drain")
    /\ ~Drained
    /\ Goto(c, "drainWait", None)
    /\ UNCHANGED <<executorVars, frameVars>>

ShutdownStop(c) ==
    /\ At(c, "drain")
    /\ Drained
    /\ stopWorkers' = TRUE
    /\ idle' = {}
    /\ Goto(c, "joinWorkers", None)
    /\ UNCHANGED <<slotVars, accepting, mode, active, nextWorker, queues, taskVars,
                   cancelReq, due, frameVars, cancelAck, alive, stack>>

ShutdownEnd(c) ==
    /\ At(c, "joinWorkers")
    /\ alive = {}
    /\ slotHolder' = None
    /\ Return(c)
    /\ UNCHANGED <<slot, poolVars, queues, taskVars, cancelReq, due, frameVars,
                   cancelAck, alive, idle, stack>>

(***************************************************************************)
(* worker_loop.                                                             *)
(***************************************************************************)
Looping(w) == w \in alive /\ w \notin idle /\ stack[w] = <<>>

WorkerTake(w) ==
    /\ Looping(w)
    /\ ~stopWorkers
    /\ PopReady(w)
    /\ UNCHANGED <<slotVars, poolVars, taskVars, cancelReq, due, verdict, releases,
                   cancelAck, alive, idle, callVars>>

WorkerSleep(w) ==
    /\ Looping(w)
    /\ ~stopWorkers
    /\ NothingQueued(w)
    /\ idle' = idle \cup {w}
    /\ UNCHANGED <<slotVars, poolVars, queues, taskVars, cancelReq, due, frameVars,
                   cancelAck, alive, stack, callVars>>

WorkerExit(w) ==
    /\ Looping(w)
    /\ stopWorkers
    /\ alive' = alive \ {w}
    /\ UNCHANGED <<slotVars, poolVars, queues, taskVars, cancelReq, due, frameVars,
                   cancelAck, idle, stack, callVars>>

(***************************************************************************)
(* poll_task.                                                               *)
(***************************************************************************)
\* Faulty variant: the flag is not looked at before the poll.
BadFirstStage(t) == "polling"

FirstStage(t) == IF cancelReq[t] THEN "cancel" ELSE "polling"

PollBegin(t) ==
    /\ stage[t] = "popped" /\ OnTop(t)
    /\ stage' = [stage EXCEPT ![t] = FirstStage(t)]
    /\ UNCHANGED <<executorVars, callVars, verdict, releases>>

\* The poll runs to completion; DetachedForeignAsyncTask::poll drops the frame.
PollComplete(t) ==
    /\ At(t, "user")
    /\ releases' = [releases EXCEPT ![t] = @ + 1]
    /\ verdict' = [verdict EXCEPT ![t] = "Completed"]
    /\ stage' = [stage EXCEPT ![t] = "finish"]
    /\ UNCHANGED <<executorVars, callVars>>

\* Faulty variant: a panicked future is not dropped.
BadDropAfterPanic(t) == UNCHANGED releases

\* on_scheduler_drop, whose own panic is caught.
DropAfterPanic(t) == releases' = [releases EXCEPT ![t] = @ + 1]

PollPanic(t) ==
    /\ At(t, "user")
    /\ DropAfterPanic(t)
    /\ verdict' = [verdict EXCEPT ![t] = "Failed"]
    /\ stage' = [stage EXCEPT ![t] = "finish"]
    /\ UNCHANGED <<executorVars, callVars>>

PollPending(t) ==
    /\ At(t, "user")
    /\ stage' = [stage EXCEPT ![t] = IF cancelReq[t] THEN "cancel" ELSE "pended"]
    /\ UNCHANGED <<executorVars, callVars, verdict, releases>>

\* A frame that is polled again stays on its thread.
RequeueOn(t) == worker[t]

\* The frame goes to the back of its own queue with a later deadline.
Requeue(t) ==
    /\ stage[t] = "pended" /\ OnTop(t)
    /\ stage' = [stage EXCEPT ![t] = "queued"]
    /\ due' = [due EXCEPT ![t] = FALSE]
    /\ queues' = [queues EXCEPT ![RequeueOn(t)] = Append(@, t)]
    /\ NotifyWorker(RequeueOn(t))
    /\ Pop(worker[t])
    /\ UNCHANGED <<slotVars, poolVars, taskVars, cancelReq, verdict, releases,
                   cancelAck, alive, callVars>>

\* Faulty variant: a future whose cancel hook refuses is queued again.
BadCancelOutcome(t) ==
    /\ stage' = [stage EXCEPT ![t] = "pended"]
    /\ UNCHANGED <<verdict, releases>>

\* cancel_task: the cancel hook, or the drop hook after it, releases the frame;
\* a hook that panics makes the verdict Failed.
CancelOutcome(t) ==
    /\ stage' = [stage EXCEPT ![t] = "finish"]
    /\ \E v \in {"Canceled", "Failed"} : verdict' = [verdict EXCEPT ![t] = v]
    /\ releases' = [releases EXCEPT ![t] = @ + 1]

CancelHook(t) ==
    /\ stage[t] = "cancel" /\ OnTop(t)
    /\ CancelOutcome(t)
    /\ UNCHANGED <<executorVars, callVars>>

\* Faulty variants: shutdown, or a joiner, is not notified.
BadWakeJoinersOnly(a) == IF apc[a] = "joinWait" THEN "joining" ELSE apc[a]
BadWakeDrainOnly(a) == IF apc[a] = "drainWait" THEN "drain" ELSE apc[a]

\* task_finished.notify_all.
Woken(a) ==
    IF apc[a] = "joinWait" THEN "joining"
    ELSE IF apc[a] = "drainWait" THEN "drain"
    ELSE apc[a]

\* Faulty variant: the control stays registered.
BadForget(t) == UNCHANGED controls

Forget(t) == controls' = controls \ {t}

FinishTask(t) ==
    /\ stage[t] = "finish" /\ OnTop(t)
    /\ status[t] = "Pending"
    /\ stage' = [stage EXCEPT ![t] = "done"]
    /\ status' = [status EXCEPT ![t] = verdict[t]]
    /\ Forget(t)
    /\ active' = active - 1
    /\ apc' = [a \in Agents |-> Woken(a)]
    /\ idle' = {}
    /\ Pop(worker[t])
    /\ UNCHANGED <<slotVars, accepting, mode, stopWorkers, nextWorker, queues, worker,
                   cancelReq, due, verdict, releases, cancelAck, alive, arg>>

\* Time: the wakeup deadline of a queued entry passes.
DeadlinePasses(t) ==
    /\ stage[t] = "queued"
    /\ ~due[t]
    /\ due' = [due EXCEPT ![t] = TRUE]
    /\ UNCHANGED <<slotVars, poolVars, queues, taskVars, cancelReq, frameVars,
                   cancelAck, alive, idle, stack, callVars>>

-----------------------------------------------------------------------------
\* The steps of the executor itself, once its callers have made their calls.
AgentStep(a) ==
    \/ IsEnabled(a) \/ SpawnNoExecutor(a) \/ SpawnRejected(a) \/ SpawnAccepted(a)
    \/ CancelEnter(a) \/ CancelShared(a)
    \/ JoinEnter(a) \/ JoinReturn(a) \/ JoinHelp(a) \/ JoinSleep(a)

ShutdownStep(c) == ShutdownWait(c) \/ ShutdownStop(c) \/ ShutdownEnd(c)

WorkerStep(w) == WorkerTake(w) \/ WorkerSleep(w) \/ WorkerExit(w)

PollReturn(t) == PollComplete(t) \/ PollPanic(t) \/ PollPending(t)

FrameStep(t) == PollBegin(t) \/ Requeue(t) \/ CancelHook(t) \/ FinishTask(t)

\* The calls a program chooses to make.
Call(a, t) == CallSpawn(a, t) \/ CallCancel(a, t) \/ CallJoin(a, t)

Shutdown(a) == \E m \in {"Drain", "Cancel"} : ShutdownBegin(a, m)

Next ==
    \/ \E a \in Agents : AgentStep(a) \/ Shutdown(a) \/ ShutdownStep(a)
    \/ \E a \in Agents, t \in Tasks : Call(a, t)
    \/ \E c \in Clients : Enable(c)
    \/ \E w \in Workers : WorkerStep(w)
    \/ \E t \in Tasks : PollReturn(t) \/ FrameStep(t) \/ DeadlinePasses(t)

Spec == Init /\ [][Next]_vars

-----------------------------------------------------------------------------
(***************************************************************************)
(* Fairness.  Every thread that can take a step is scheduled eventually, and *)
(* deadlines pass.  A thread that waits for a mutex gets it if it stays     *)
(* free, no more.  User code is assumed to return from its polls; that it    *)
(* also completes if polled again and again is FuturesComplete.             *)
(***************************************************************************)
WorkerThread(w) ==
    \/ WorkerStep(w)
    \/ \E t \in Tasks : worker[t] = w /\ (FrameStep(t) \/ AgentStep(t) \/ ShutdownStep(t))

ThreadFairness ==
    /\ \A w \in Workers : WF_vars(WorkerThread(w))
    /\ \A c \in Clients : WF_vars(AgentStep(c) \/ ShutdownStep(c))
    /\ \A t \in Tasks : WF_vars(DeadlinePasses(t))

FairSpec == Spec /\ ThreadFairness /\ \A t \in Tasks : SF_vars(PollReturn(t))

FuturesComplete == \A t \in Tasks : SF_vars(PollComplete(t))

-----------------------------------------------------------------------------
(***************************************************************************)
(* Invariants.                                                              *)
(***************************************************************************)
TypeOK ==
    /\ slot \in BOOLEAN /\ slotHolder \in Agents \cup {None}
    /\ accepting \in BOOLEAN /\ mode \in {"None", "Drain", "Cancel"}
    /\ stopWorkers \in BOOLEAN
    /\ active \in 0 .. Capacity /\ nextWorker \in Workers
    /\ queues \in [Workers -> Seq(Tasks)]
    /\ controls \subseteq Tasks
    /\ status \in [Tasks -> TaskStatus]
    /\ worker \in [Tasks -> Workers]
    /\ cancelReq \in [Tasks -> BOOLEAN] /\ due \in [Tasks -> BOOLEAN]
    /\ stage \in [Tasks -> Stages]
    /\ verdict \in [Tasks -> {"Unknown"} \cup Terminal]
    /\ releases \in [Tasks -> Nat]
    /\ cancelAck \subseteq Tasks
    /\ alive \subseteq Workers /\ idle \subseteq Workers
    /\ stack \in [Workers -> Seq(Tasks)]
    /\ apc \in [Agents -> CallStates]
    /\ arg \in [Agents -> Tasks \cup {None}]

\* q holds t; q holds nothing twice.
Holds(q, t) == \E i \in 1 .. Len(q) : q[i] = t
Distinct(q) == \A i, j \in 1 .. Len(q) : q[i] = q[j] => i = j

\* A queue holds exactly the queued tasks pinned to its worker, each once.
QueuesOwn ==
    \A w \in Workers :
        /\ Distinct(queues[w])
        /\ \A t \in Tasks : Holds(queues[w], t) <=> stage[t] = "queued" /\ worker[t] = w

\* A worker's nested polls are of exactly its tasks in flight, each once.
StacksOwn ==
    \A w \in Workers :
        /\ Distinct(stack[w])
        /\ \A t \in Tasks : Holds(stack[w], t) <=> stage[t] \in InFlight /\ worker[t] = w

\* The exported status agrees with where the frame is.
StatusMatchesStage ==
    \A t \in Tasks :
        /\ status[t] = "Pending" <=> stage[t] \in {"queued"} \cup InFlight
        /\ status[t] \in Terminal <=> stage[t] = "done"

\* A task that join_task or task_status calls pending is held exactly once:
\* by the queue of the worker it is pinned to, or by one poll_task call of that
\* worker's thread.  Nested helping (help_join_on_worker), cancellation and
\* shutdown neither lose nor duplicate it.
HeldExactlyOnce == QueuesOwn /\ StacksOwn /\ StatusMatchesStage

\* `active`, which backpressure and shutdown rely on, counts the pending tasks,
\* whose controls are exactly the registered ones, and respects `capacity`.
ActiveCounts ==
    /\ controls = {t \in Tasks : status[t] = "Pending"}
    /\ active = Cardinality(controls)
    /\ active <= Capacity

\* No thread waits without a timeout for something that has already happened:
\* a worker in worker_ready.wait has nothing queued and no stop request, a
\* joiner's target is pending, and shutdown waits only for active tasks.
NoLostWakeup ==
    /\ \A w \in idle : w \in alive /\ queues[w] = <<>> /\ stack[w] = <<>> /\ ~stopWorkers
    /\ \A a \in Agents :
          /\ apc[a] = "joinWait" => status[arg[a]] = "Pending"
          /\ apc[a] = "drainWait" => active # 0

\* The thread a pending task is pinned to has not returned from worker_loop:
\* stop_workers is set only after the last task has finished, and nothing is
\* accepted afterwards, so shutdown strands no task.
NoTaskStranded ==
    \A t \in Tasks : status[t] = "Pending" => worker[t] \in alive

\* Whoever was told that a frame was not taken need not care for it: a frame
\* for which spawn returned 0 has been canceled or dropped.
RefusedIsReleased ==
    \A t \in Tasks : stage[t] \in {"rejected", "lost"} => releases[t] = 1

\* A task whose cancel_task returned true ends canceled, or failed if its
\* cleanup panics, but not completed.
AckedCancelHolds ==
    \A t \in cancelAck : status[t] # "Completed"

\* A frame is released once the runtime is through with it, and only once: by
\* the poll that completes it, the cancel or drop hook, or release_rejected.
ReleasedOnce ==
    \A t \in Tasks :
        /\ releases[t] <= 1
        /\ stage[t] \in {"finish", "done", "rejected"} <=> releases[t] = 1

-----------------------------------------------------------------------------
(***************************************************************************)
(* Action and liveness properties.                                          *)
(***************************************************************************)
\* Executor implements the user's view of a task, in particular: statuses are
\* final, a canceled task gets no further turn, only a task asked to cancel
\* ends Canceled, and a new executor starts with none of its predecessor's
\* tasks still pending.
Lifecycle == INSTANCE TaskLifecycle WITH
    life <- status, open <- accepting,
    doomed <- {t \in Tasks : cancelReq[t]},
    running <- {t \in Tasks : stage[t] = "polling"}

ImplementsLifecycle == Lifecycle!Spec

\* A cancellation request that reaches a pending task settles it, as long as
\* each poll returns: the flag makes next_ready_task ignore its deadline.
CancelSettles ==
    \A t \in Tasks : cancelReq[t] ~> status[t] \in Terminal

\* A queued task is taken from its queue again: next_ready_task moves what is
\* not due behind what is, without starving either.
QueuedIsTaken ==
    \A t \in Tasks : stage[t] = "queued" ~> stage[t] # "queued"

\* shutdown(Cancel) returns even if no future ever completes by itself.
CancelShutdownReturns ==
    \A a \in Agents : apc[a] = "drain" /\ mode = "Cancel" ~> apc[a] = "user"

\* shutdown(Drain), which async main ends with, returns if the accepted
\* futures complete.
DrainReturns ==
    FuturesComplete => \A a \in Agents : apc[a] = "drain" ~> apc[a] = "user"

\* join returns if futures complete: its target settles and the notification
\* reaches the joiner.
JoinReturns ==
    FuturesComplete => \A a \in Agents : apc[a] = "joining" ~> apc[a] = "user"

=============================================================================
