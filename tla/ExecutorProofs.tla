--------------------------- MODULE ExecutorProofs ---------------------------
(***************************************************************************)
(* Proofs about Executor for any set of tasks and clients, any number of    *)
(* workers and any capacity: the safety invariants of its runs, and that it *)
(* implements TaskLifecycle.                                                *)
(***************************************************************************)
EXTENDS ExecutorSteps, FiniteSetTheorems

\* The tuples of variables and unions of names are always expanded.
USE DEF executorVars, slotVars, poolVars, taskVars, frameVars, callVars
USE DEF Agents, Submitting, Naming, ShuttingDown

LEMMA NoneActive ==
    ASSUME IInv, active = 0
    PROVE  controls = {} /\ \A t \in Tasks : status[t] # "Pending"
<1>1. controls = {}
  BY Zenon, FS_EmptySet DEF IInv, ActiveCounts
<1> QED  BY <1>1 DEF IInv, ActiveCounts

LEMMA WorkerRests ==
    ASSUME IInv, NEW w \in Workers, WorkerSleep(w) \/ WorkerExit(w)
    PROVE  IInv'
<1>1. TypeOK'
  BY SMTT(30) DEF WorkerSleep, WorkerExit, IInv, TypeOK
<1>2. HeldExactlyOnce'
  BY HoldersKept DEF WorkerSleep, WorkerExit, IInv
<1>3. SlotLife'
  BY DEF WorkerSleep, WorkerExit, IInv, SlotLife
<1>4. NoLostWakeup'
  BY DEF WorkerSleep, WorkerExit, Looping, NothingQueued, IInv, NoLostWakeup
<1>5. NoTaskStranded'
  <2>1. CASE WorkerSleep(w)
    BY <2>1 DEF WorkerSleep, IInv, NoTaskStranded
  <2>2. CASE WorkerExit(w)
    BY <2>2, NoneActive DEF WorkerExit, IInv, SlotLife, NoTaskStranded
  <2> QED  BY <2>1, <2>2
<1>6. (CallsNameTasks /\ ActiveCounts /\ IsFiniteSet(controls) /\ VerdictEarned /\ ReleasedOnce)'
  BY DEF WorkerSleep, WorkerExit, IInv, CallsNameTasks, ActiveCounts, VerdictEarned, ReleasedOnce
<1> QED  BY SMTT(30), <1>1, <1>2, <1>3, <1>4, <1>5, <1>6 DEF IInv

\* An executor is created when no task is pending, so the queues it replaces
\* are empty.
LEMMA EnableInv ==
    ASSUME IInv, NEW c \in Clients, Enable(c)
    PROVE  IInv'
<1>1. active = 0
  BY DEF Enable, SlotFree, IInv, SlotLife
<1>2. controls = {} /\ \A t \in Tasks : stage[t] # "queued"
  BY <1>1, NoneActive DEF IInv, HeldExactlyOnce, StatusMatchesStage
<1>3. TypeOK'
  <2>1. 0 \in Workers /\ 0 \in 0 .. Capacity
    BY WorkersAssumption, CapacityAssumption DEF Workers
  <2>2. queues' \in [Workers -> Seq(Tasks)]
    BY DEF Enable
  <2> QED  BY Zenon, <2>1, <2>2 DEF Enable, IInv, TypeOK
<1>4. QueuesOwn'
  BY <1>2 DEF Enable, QueuesOwn, Distinct, Holds
<1>5. StacksOwn' /\ StatusMatchesStage'
  BY DEF Enable, IInv, HeldExactlyOnce, StacksOwn, StatusMatchesStage
<1>6. ActiveCounts' /\ IsFiniteSet(controls)'
  BY <1>1, <1>2 DEF Enable, IInv, ActiveCounts
<1>7. SlotLife'
  BY SetsAssumption DEF Enable, SlotFree, IInv, SlotLife
<1>8. NoLostWakeup'
  BY <1>1 DEF Enable, IInv, TypeOK, NoLostWakeup
<1>9. (CallsNameTasks /\ VerdictEarned /\ NoTaskStranded /\ ReleasedOnce)'
  BY DEF Enable, IInv, TypeOK, CallsNameTasks, VerdictEarned, NoTaskStranded, ReleasedOnce
<1> QED  BY <1>3, <1>4, <1>5, <1>6, <1>7, <1>8, <1>9 DEF IInv, HeldExactlyOnce

\* A frame is accepted: it is new to every queue and stack.
LEMMA SpawnAcceptedInv ==
    ASSUME IInv, NEW a \in Agents, SpawnAccepted(a)
    PROVE  IInv'
<1> DEFINE t == arg[a]
           w == nextWorker % NumWorkers
<1>1. /\ t \in Tasks /\ stage[t] = "submitting" /\ apc[a] = "spawn"
      /\ slot /\ accepting /\ active < Capacity
      /\ \A b \in Agents : b # a /\ apc[b] \in Submitting => arg[b] # t
  BY NamedTask DEF SpawnAccepted, HasRoom, At, IInv, CallsNameTasks
<1>2. w \in Workers /\ nextWorker' \in Workers /\ active \in Nat /\ Capacity \in Nat
  <2>1. nextWorker \in Nat /\ NumWorkers \in Nat \ {0}
    BY WorkersAssumption DEF IInv, TypeOK, Workers
  <2>2. w \in 0 .. NumWorkers - 1 /\ (nextWorker + 1) % NumWorkers \in 0 .. NumWorkers - 1
    BY <2>1
  <2> QED  BY <2>2, CapacityAssumption DEF SpawnAccepted, Workers, IInv, TypeOK
<1>3. status[t] = "Unknown" /\ t \notin controls /\ releases[t] # 1
  BY Zenon, <1>1
     DEF IInv, TypeOK, HeldExactlyOnce, StatusMatchesStage, ActiveCounts, ReleasedOnce,
              TaskStatus, InFlight
<1>4. /\ worker' = [worker EXCEPT ![t] = w]
      /\ queues' = [queues EXCEPT ![w] = Append(queues[w], t)]
      /\ due' = [due EXCEPT ![t] = TRUE]
      /\ controls' = controls \cup {t}
      /\ status' = [status EXCEPT ![t] = "Pending"]
      /\ active' = active + 1
      /\ idle' = idle \ {w}
      /\ stage' = [stage EXCEPT ![t] = "queued"]
      /\ apc' = [apc EXCEPT ![a] = "user"] /\ arg' = [arg EXCEPT ![a] = None]
      /\ UNCHANGED <<slotVars, accepting, mode, stopWorkers, cancelReq, verdict,
                     releases, cancelAck, alive, stack>>
  BY DEF SpawnAccepted, NotifyWorker, Return, Goto
<1> HIDE DEF t, w
<1>5. /\ \A v \in Workers : ~Holds(queues[v], t) /\ ~Holds(stack[v], t)
      /\ queues[w] \in Seq(Tasks) /\ Distinct(queues[w])
  BY ZenonT(30), <1>1, <1>2 DEF IInv, TypeOK, HeldExactlyOnce, QueuesOwn, StacksOwn, InFlight
<1>6. /\ queues'[w] \in Seq(Tasks) /\ Distinct(queues'[w])
      /\ \A u : Holds(queues'[w], u) <=> Holds(queues[w], u) \/ u = t
      /\ \A v \in Workers \ {w} : queues'[v] = queues[v]
      /\ queues' \in [Workers -> Seq(Tasks)]
  <2>1. /\ Append(queues[w], t) \in Seq(Tasks) /\ Distinct(Append(queues[w], t))
        /\ \A u : Holds(Append(queues[w], t), u) <=> Holds(queues[w], u) \/ u = t
    BY SMTT(30), <1>1, <1>2, <1>5, AppendHolds
  <2> QED  BY SMTT(30), <1>2, <1>4, <2>1 DEF IInv, TypeOK
<1>7. /\ stage'[t] = "queued" /\ worker'[t] = w /\ status'[t] = "Pending"
      /\ \A u \in Tasks : u # t => /\ stage'[u] = stage[u] /\ worker'[u] = worker[u]
                                   /\ status'[u] = status[u]
  BY <1>1, <1>4 DEF IInv, TypeOK
<1>8. ActiveCounts' /\ IsFiniteSet(controls)'
  <2>1. IsFiniteSet(controls') /\ Cardinality(controls') = Cardinality(controls) + 1
    BY <1>3, <1>4, FS_AddElement DEF IInv
  <2>2. controls' = {u \in Tasks : status'[u] = "Pending"}
    BY <1>1, <1>3, <1>4, <1>7 DEF IInv, ActiveCounts
  <2> QED  BY <1>1, <1>2, <1>4, <2>1, <2>2 DEF IInv, ActiveCounts
<1>9. TypeOK'
  <2>1. active' \in 0 .. Capacity
    BY <1>1, <1>2, <1>4
  <2> QED  BY ZenonT(30), <1>1, <1>2, <1>4, <1>6, <2>1
     DEF IInv, TypeOK, Stages, TaskStatus, CallStates
<1>10. QueuesOwn'
  <2> DEFINE Q == {u \in Tasks : stage[u] = "queued"}
  <2>1. Enters(Q, worker, Q', worker', w, t)
    BY <1>1, <1>7 DEF Enters, InFlight
  <2>2. Owns(queues, Q, worker)
    BY Zenon DEF IInv, HeldExactlyOnce, QueuesOwn, Owns
  <2>3. Gains(queues, queues', w, t) /\ w \in Workers /\ t \in Tasks
    BY Zenon, <1>1, <1>2, <1>6 DEF Gains
  <2>4. Owns(queues', Q', worker')
    <3> HIDE DEF Q
    <3> QED  BY Zenon, <2>1, <2>2, <2>3, OwnsOneMore
  <2> QED  BY Zenon, <2>4 DEF QueuesOwn, Owns
<1>11. StacksOwn'
  <2>1. stack' = stack /\ stage'[t] \notin InFlight
    BY <1>4, <1>7 DEF InFlight
  <2>2. ASSUME NEW v \in Workers, NEW u \in Tasks
        PROVE  Holds(stack[v], u) <=> stage'[u] \in InFlight /\ worker'[u] = v
    <3>1. CASE u = t
      BY Zenon, <1>5, <2>1, <3>1
    <3>2. CASE u # t
      BY Zenon, <1>7, <3>2 DEF IInv, HeldExactlyOnce, StacksOwn
    <3> QED  BY <3>1, <3>2
  <2>3. \A v \in Workers : Distinct(stack[v])
    BY Zenon DEF IInv, HeldExactlyOnce, StacksOwn
  <2> QED  BY Zenon, <2>1, <2>2, <2>3 DEF StacksOwn
<1>12. StatusMatchesStage'
  BY <1>7 DEF IInv, HeldExactlyOnce, StatusMatchesStage, Terminal
<1>13. CallsNameTasks'
  BY ZenonT(30), <1>1, <1>4, <1>7 DEF IInv, TypeOK, CallsNameTasks
<1>14. SlotLife'
  BY <1>1, <1>4 DEF IInv, TypeOK, SlotLife
<1>15. NoLostWakeup'
  <2>1. \A v \in idle' : v \in Workers \ {w}
    BY SMTT(30), <1>4 DEF IInv, TypeOK
  <2>2. \A b \in Agents : apc'[b] = "joinWait" => status'[arg'[b]] = "Pending"
    BY SMTT(30), <1>1, <1>4, <1>7 DEF IInv, TypeOK, NoLostWakeup, CallsNameTasks
  <2>3. active' # 0
    BY <1>2, <1>4
  <2> QED  BY SMTT(30), <1>4, <1>6, <2>1, <2>2, <2>3 DEF IInv, NoLostWakeup
<1>16. NoTaskStranded'
  BY SMTT(30), <1>1, <1>2, <1>4, <1>7 DEF IInv, SlotLife, NoTaskStranded
<1>17. ReleasedOnce'
  BY SMTT(30), <1>1, <1>3, <1>4, <1>7 DEF IInv, ReleasedOnce
<1>18. VerdictEarned'
  BY <1>1, <1>4, <1>7 DEF IInv, VerdictEarned
<1> QED  BY SMTT(30), <1>8, <1>9, <1>10, <1>11, <1>12, <1>13, <1>14, <1>15, <1>16, <1>17, <1>18
         DEF IInv, HeldExactlyOnce

LEMMA FinishTaskInv ==
    ASSUME IInv, NEW t \in Tasks, FinishTask(t)
    PROVE  IInv'
<1> DEFINE w == worker[t]
<1>1. /\ w \in Workers /\ Holds(stack[w], t)
      /\ stack'[w] \in Seq(Tasks) /\ Distinct(stack'[w])
      /\ \A u : Holds(stack'[w], u) <=> Holds(stack[w], u) /\ u # t
      /\ \A v \in Workers \ {w} : stack'[v] = stack[v]
      /\ stack' \in [Workers -> Seq(Tasks)]
  BY Zenon, PopsTop DEF FinishTask
<1>2. /\ stage[t] = "finish" /\ status[t] = "Pending" /\ worker[t] = w
      /\ stage' = [stage EXCEPT ![t] = "done"]
      /\ status' = [status EXCEPT ![t] = verdict[t]]
      /\ controls' = controls \ {t}
      /\ active' = active - 1
      /\ apc' = [a \in Agents |-> Woken(a)]
      /\ idle' = {}
      /\ UNCHANGED <<slotVars, accepting, mode, stopWorkers, nextWorker, queues, worker,
                     cancelReq, due, verdict, releases, cancelAck, alive, arg>>
  BY DEF FinishTask, Forget
<1> HIDE DEF w
<1>3. verdict[t] \in Terminal
  BY <1>2 DEF IInv, VerdictEarned
<1>4. /\ stage'[t] = "done" /\ status'[t] = verdict[t] /\ status'[t] \notin {"Pending", "Unknown"}
      /\ \A u \in Tasks : u # t => stage'[u] = stage[u] /\ status'[u] = status[u]
  BY <1>2, <1>3 DEF IInv, TypeOK, Terminal
<1>5. /\ \A a \in Agents : /\ apc'[a] \notin {"joinWait", "drainWait"}
                           /\ apc[a] \notin {"joinWait", "drainWait"} => apc'[a] = apc[a]
                           /\ apc[a] = "joinWait" => apc'[a] = "joining"
                           /\ apc[a] = "drainWait" => apc'[a] = "drain"
      /\ apc' \in [Agents -> CallStates]
  BY <1>2 DEF IInv, TypeOK, Woken, CallStates
<1>6. ActiveCounts' /\ IsFiniteSet(controls)' /\ active' \in 0 .. Capacity
  <2>1. t \in controls /\ IsFiniteSet(controls)
    BY <1>2 DEF IInv, ActiveCounts
  <2>2. IsFiniteSet(controls') /\ Cardinality(controls') = Cardinality(controls) - 1
        /\ Cardinality(controls') \in Nat
    BY SMTT(30), <1>2, <2>1, FS_RemoveElement, FS_CardinalityType
  <2>3. controls' = {u \in Tasks : status'[u] = "Pending"}
    BY <1>2, <1>4 DEF IInv, ActiveCounts
  <2>4. active = Cardinality(controls) /\ active \in 0 .. Capacity /\ Capacity \in Nat
    BY SMTT(30), CapacityAssumption DEF IInv, ActiveCounts, TypeOK
  <2>5. active' = Cardinality(controls') /\ active' \in 0 .. Capacity /\ active' <= Capacity
    BY SMTT(30), <1>2, <2>2, <2>4
  <2> QED  BY SMTT(30), <2>2, <2>3, <2>5 DEF ActiveCounts
<1>7. TypeOK'
  BY SMTT(30), <1>1, <1>2, <1>3, <1>5, <1>6 DEF IInv, TypeOK, Stages, TaskStatus
<1>8. QueuesOwn'
  <2>1. \A u \in Tasks : stage'[u] = "queued" <=> stage[u] = "queued"
    BY <1>2, <1>4
  <2> QED  BY SMTT(30), <1>2, <2>1 DEF IInv, HeldExactlyOnce, QueuesOwn
<1>9. StacksOwn'
  <2> DEFINE F == {u \in Tasks : stage[u] \in InFlight}
  <2>1. Leaves(F, F', worker, w, t)
    BY <1>2, <1>4 DEF Leaves, InFlight
  <2>2. Owns(stack, F, worker)
    BY Zenon DEF IInv, HeldExactlyOnce, StacksOwn, Owns
  <2>3. Loses(stack, stack', w, t) /\ w \in Workers /\ t \in Tasks
    BY Zenon, <1>1 DEF Loses
  <2>4. Owns(stack', F', worker)
    <3> HIDE DEF F
    <3> QED  BY ZenonT(30), <2>1, <2>2, <2>3, OwnsOneLess
  <2>5. worker' = worker
    BY <1>2
  <2> QED  BY ZenonT(30), <2>4, <2>5 DEF StacksOwn, Owns
<1>10. StatusMatchesStage'
  BY <1>3, <1>4 DEF IInv, HeldExactlyOnce, StatusMatchesStage, InFlight
<1>11. CallsNameTasks'
  <2>1. \A a \in Agents : /\ apc'[a] \in Submitting => apc[a] \in Submitting
                          /\ apc'[a] \in Naming => apc[a] \in Naming
    BY <1>5
  <2>2. arg' = arg /\ \A a \in Agents : apc[a] \in Submitting => arg[a] # t
    BY <1>2, NamedTask
  <2>3. \A u \in Tasks : status[u] # "Unknown" => status'[u] # "Unknown"
    BY SMTT(30), <1>4
  <2> QED  BY <1>4, <2>1, <2>2, <2>3 DEF IInv, CallsNameTasks
<1>12. SlotLife'
  <2>1. ~stopWorkers /\ ~(~slot /\ slotHolder = None)
    BY <1>2, NoneActive DEF IInv, SlotLife
  <2> QED  BY SMTT(30), <1>2, <1>5, <2>1 DEF IInv, SlotLife
<1>13. NoLostWakeup'
  BY <1>2, <1>5 DEF NoLostWakeup
<1>14. NoTaskStranded'
  BY <1>2, <1>4 DEF IInv, NoTaskStranded
<1>15. ReleasedOnce'
  BY SMTT(30), <1>2, <1>4 DEF IInv, ReleasedOnce
<1>16. VerdictEarned'
  BY <1>2, <1>4 DEF IInv, VerdictEarned
<1> QED  BY SMTT(30), <1>6, <1>7, <1>8, <1>9, <1>10, <1>11, <1>12, <1>13, <1>14, <1>15, <1>16
         DEF IInv, HeldExactlyOnce

-----------------------------------------------------------------------------
LEMMA InitInv == Init => IInv
<1> SUFFICES ASSUME Init PROVE IInv
  OBVIOUS
<1>1. TypeOK
  <2>1. 0 \in Workers /\ 0 \in 0 .. Capacity
    BY WorkersAssumption, CapacityAssumption DEF Workers
  <2>2. queues \in [Workers -> Seq(Tasks)] /\ stack \in [Workers -> Seq(Tasks)]
    BY DEF Init
  <2> QED  BY Zenon, <2>1, <2>2 DEF Init, TypeOK, TaskStatus, Stages, CallStates
<1>2. HeldExactlyOnce
  BY DEF Init, HeldExactlyOnce, QueuesOwn, StacksOwn, StatusMatchesStage, Distinct, Holds,
         InFlight, Terminal
<1>3. ActiveCounts /\ IsFiniteSet(controls)
  BY FS_EmptySet, CapacityAssumption DEF Init, ActiveCounts
<1>4. CallsNameTasks /\ SlotLife /\ NoLostWakeup
  BY Zenon, SetsAssumption DEF Init, CallsNameTasks, SlotLife, NoLostWakeup
<1>5. VerdictEarned /\ NoTaskStranded /\ ReleasedOnce
  BY DEF Init, VerdictEarned, NoTaskStranded, ReleasedOnce
<1> QED  BY <1>1, <1>2, <1>3, <1>4, <1>5 DEF IInv

LEMMA NextInv == IInv /\ [Next]_vars => IInv'
<1> SUFFICES ASSUME IInv, [Next]_vars PROVE IInv'
  OBVIOUS
<1>1. ASSUME NEW a \in Agents, AgentStep(a) PROVE IInv'
  BY <1>1, CallSteps, SubmissionSteps, SpawnAcceptedInv, CancelSharedInv, TakeSteps DEF AgentStep
<1>2. ASSUME NEW a \in Agents, Shutdown(a) PROVE IInv'
  BY <1>2, ShutdownBeginInv DEF Shutdown
<1>3. ASSUME NEW a \in Agents, ShutdownStep(a) PROVE IInv'
  BY <1>3, CallSteps, ShutdownStopInv, ShutdownEndInv DEF ShutdownStep
<1>4. ASSUME NEW a \in Agents, NEW t \in Tasks, Call(a, t) PROVE IInv'
  BY <1>4, CallSteps, SubmissionSteps DEF Call
<1>5. ASSUME NEW w \in Workers, WorkerStep(w) PROVE IInv'
  BY <1>5, TakeSteps, WorkerRests DEF WorkerStep
<1>6. ASSUME NEW t \in Tasks, PollReturn(t) \/ FrameStep(t) PROVE IInv'
  BY <1>6, FrameSteps, RequeueInv, FinishTaskInv DEF FrameStep
<1>7. CASE UNCHANGED vars
  <2> USE <1>7 DEF vars
  <2>1. TypeOK'
    BY SMTT(30) DEF IInv, TypeOK
  <2>2. HeldExactlyOnce'
    BY DEF IInv, HeldExactlyOnce, QueuesOwn, StacksOwn, StatusMatchesStage
  <2>3. ActiveCounts' /\ IsFiniteSet(controls)'
    BY SMTT(30) DEF IInv, ActiveCounts
  <2>4. CallsNameTasks' /\ SlotLife' /\ VerdictEarned'
    BY SMTT(30) DEF IInv, CallsNameTasks, SlotLife, VerdictEarned
  <2>5. NoLostWakeup' /\ NoTaskStranded' /\ ReleasedOnce'
    BY DEF IInv, NoLostWakeup, NoTaskStranded, ReleasedOnce
  <2> QED  BY ZenonT(30), <2>1, <2>2, <2>3, <2>4, <2>5 DEF IInv
<1> QED
  BY SMTT(30), <1>1, <1>2, <1>3, <1>4, <1>5, <1>6, <1>7, EnableInv, DeadlinePassesInv DEF Next

\* The strengthened invariant holds in every reachable state of the executor.
THEOREM Inductive == Spec => []IInv
  BY InitInv, NextInv, PTL DEF Spec

\* Every variable of the executor keeps its type; in particular `active` stays
\* within 0 .. capacity.
THEOREM TypeCorrect == Spec => []TypeOK
<1>1. IInv => TypeOK
  BY DEF IInv
<1> QED  BY Inductive, <1>1, PTL

\* A pending task is in its worker's queue once, or in one poll of its worker.
THEOREM PendingHeldOnce == Spec => []HeldExactlyOnce
<1>1. IInv => HeldExactlyOnce
  BY DEF IInv
<1> QED  BY Inductive, <1>1, PTL

\* `active` is the number of pending tasks and never exceeds `capacity`.
THEOREM ActiveIsExact == Spec => []ActiveCounts
<1>1. IInv => ActiveCounts
  BY DEF IInv
<1> QED  BY Inductive, <1>1, PTL

\* No thread sleeps on a condition variable after its condition came true.
THEOREM WakeupsArrive == Spec => []NoLostWakeup
<1>1. IInv => NoLostWakeup
  BY DEF IInv
<1> QED  BY Inductive, <1>1, PTL

\* The worker of a pending task is alive.
THEOREM ShutdownStrandsNothing == Spec => []NoTaskStranded
<1>1. IInv => NoTaskStranded
  BY DEF IInv
<1> QED  BY Inductive, <1>1, PTL

\* A frame the runtime is through with has been released exactly once.
THEOREM FramesReleasedOnce == Spec => []ReleasedOnce
<1>1. IInv => ReleasedOnce
  BY DEF IInv
<1> QED  BY Inductive, <1>1, PTL

=============================================================================
