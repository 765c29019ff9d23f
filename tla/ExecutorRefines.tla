-------------------------- MODULE ExecutorRefines --------------------------
(***************************************************************************)
(* Executor implements TaskLifecycle, for any set of tasks and clients, any *)
(* number of workers and any capacity.                                      *)
(***************************************************************************)
EXTENDS ExecutorProofs

\* The tuples of variables and unions of names are always expanded.
USE DEF executorVars, slotVars, poolVars, taskVars, frameVars, callVars
USE DEF Agents, Submitting, Naming, ShuttingDown

Doomed == {t \in Tasks : cancelReq[t]}
Running == {t \in Tasks : stage[t] = "polling"}

\* A step that changes nothing a user sees.
LEMMA UserSeesNothing ==
    ASSUME UNCHANGED <<status, accepting, cancelReq>>, Running' = Running
    PROVE  UNCHANGED Lifecycle!absVars
  BY DEF Lifecycle!absVars, Running

LEMMA LiveIsControls ==
    ASSUME IInv
    PROVE  Lifecycle!Live = controls /\ Cardinality(Lifecycle!Live) = active
  BY DEF IInv, ActiveCounts, Lifecycle!Live

LEMMA EnableOpens ==
    ASSUME IInv, NEW c \in Clients, Enable(c)
    PROVE  Lifecycle!Open
<1>1. active = 0 /\ ~accepting
  BY DEF Enable, SlotFree, IInv, SlotLife
<1>2. controls = {}
  BY <1>1, NoneActive
<1> QED  BY <1>1, <1>2, LiveIsControls DEF Enable, Lifecycle!Open

LEMMA ShutdownCloses ==
    ASSUME IInv, NEW a \in Agents, NEW m \in {"Drain", "Cancel"}, ShutdownBegin(a, m)
    PROVE  Lifecycle!Close
<1>1. accepting /\ accepting' = FALSE /\ UNCHANGED <<status, stage>>
  BY DEF ShutdownBegin, IInv, SlotLife
<1>2. Doomed' \in {Doomed, Doomed \cup controls}
  <2>1. CASE m = "Drain"
    BY Zenon, <2>1 DEF ShutdownBegin, CancelAll, Doomed
  <2>2. CASE m = "Cancel"
    BY <2>2 DEF ShutdownBegin, CancelAll, Doomed, IInv, TypeOK
  <2> QED  BY <2>1, <2>2
<1> QED  BY <1>1, <1>2, LiveIsControls DEF Lifecycle!Close, Doomed

LEMMA SpawnAccepts ==
    ASSUME IInv, NEW a \in Agents, SpawnAccepted(a)
    PROVE  \E t \in Tasks : Lifecycle!Accept(t)
<1> DEFINE t == arg[a]
<1>1. /\ t \in Tasks /\ stage[t] = "submitting" /\ accepting /\ active < Capacity
      /\ status' = [status EXCEPT ![t] = "Pending"]
      /\ stage' = [stage EXCEPT ![t] = "queued"]
      /\ UNCHANGED <<accepting, cancelReq>>
  BY NamedTask DEF SpawnAccepted, HasRoom, At
<1>2. status[t] = "Unknown"
  BY Zenon, <1>1 DEF IInv, TypeOK, HeldExactlyOnce, StatusMatchesStage, TaskStatus, InFlight
<1>3. Running' = Running
  BY <1>1 DEF Running, IInv, TypeOK
<1>4. Lifecycle!Cardinality(Lifecycle!Live) < Capacity
  <2>1. \A S : Lifecycle!Cardinality(S) = Cardinality(S)
    BY DEF Lifecycle!Cardinality, Cardinality
  <2> QED  BY <1>1, <2>1, LiveIsControls
<1>5. Lifecycle!Accept(t)
  BY <1>1, <1>2, <1>3, <1>4 DEF Lifecycle!Accept, Running
<1> QED  BY <1>1, <1>5

LEMMA CancelDooms ==
    ASSUME IInv, NEW a \in Agents, CancelShared(a)
    PROVE  (\E t \in Tasks : Lifecycle!Doom(t)) \/ UNCHANGED Lifecycle!absVars
<1>1. arg[a] \in Tasks /\ UNCHANGED <<status, accepting, stage>>
  BY NamedTask DEF CancelShared, At
<1>2. CASE status[arg[a]] = "Pending" /\ arg[a] \in controls
  <2>1. cancelReq' = [cancelReq EXCEPT ![arg[a]] = TRUE]
    BY <1>2 DEF CancelShared
  <2>2. Doomed' = Doomed \cup {arg[a]}
    BY <1>1, <2>1 DEF Doomed, IInv, TypeOK
  <2> QED  BY <1>1, <1>2, <2>2 DEF Lifecycle!Doom, Doomed
<1>3. CASE ~(status[arg[a]] = "Pending" /\ arg[a] \in controls)
  BY <1>1, <1>3, UserSeesNothing DEF CancelShared, Running
<1> QED  BY <1>2, <1>3

LEMMA PollResumesOrPauses ==
    ASSUME IInv, NEW t \in Tasks, PollBegin(t) \/ PollReturn(t) \/ CancelHook(t)
    PROVE  Lifecycle!Resume(t) \/ Lifecycle!Pause(t)
<1>1. UNCHANGED <<status, accepting, cancelReq>>
  BY DEF PollBegin, PollReturn, PollComplete, PollPanic, PollPending, CancelHook
<1>2. CASE PollBegin(t) /\ ~cancelReq[t]
  <2>1. status[t] = "Pending" /\ t \notin Doomed
    BY <1>2 DEF PollBegin, IInv, HeldExactlyOnce, StatusMatchesStage, InFlight, Doomed
  <2>2. Running' = Running \cup {t}
    BY <1>2 DEF PollBegin, FirstStage, IInv, TypeOK, Running
  <2> QED  BY SMTT(30), <1>1, <2>1, <2>2 DEF Lifecycle!Resume, Doomed, Running
<1>3. CASE ~(PollBegin(t) /\ ~cancelReq[t])
  <2>1. \E s \in {"cancel", "finish", "pended"} : stage' = [stage EXCEPT ![t] = s]
    BY SMTT(30), <1>3 DEF PollBegin, FirstStage, PollReturn, PollComplete, PollPanic, PollPending,
                CancelHook, CancelOutcome
  <2>2. Running' = Running \ {t}
    BY <2>1 DEF IInv, TypeOK, Running
  <2> QED  BY SMTT(30), <1>1, <2>2 DEF Lifecycle!Pause, Running
<1> QED  BY <1>2, <1>3

LEMMA FinishSettles ==
    ASSUME IInv, NEW t \in Tasks, FinishTask(t)
    PROVE  Lifecycle!Settle(t, verdict[t]) /\ verdict[t] \in Lifecycle!Settled
<1>1. /\ stage[t] = "finish" /\ status[t] = "Pending"
      /\ status' = [status EXCEPT ![t] = verdict[t]]
      /\ stage' = [stage EXCEPT ![t] = "done"]
      /\ UNCHANGED <<accepting, cancelReq>>
  BY DEF FinishTask
<1>2. verdict[t] \in Terminal /\ (verdict[t] = "Canceled" => t \in Doomed)
  BY <1>1 DEF IInv, VerdictEarned, Doomed
<1>3. t \notin Running /\ Running' = Running
  BY <1>1 DEF Running, IInv, TypeOK
<1> QED  BY <1>1, <1>2, <1>3 DEF Lifecycle!Settle, Lifecycle!Settled, Terminal, Doomed, Running

\* Queue traffic, refused submissions and waiting are invisible to users.
LEMMA InternalSteps ==
    ASSUME IInv,
           \/ \E a \in Agents : \/ IsEnabled(a) \/ SpawnNoExecutor(a) \/ SpawnRejected(a)
                              \/ CancelEnter(a) \/ JoinEnter(a) \/ JoinReturn(a) \/ JoinHelp(a)
                              \/ JoinSleep(a) \/ ShutdownStep(a) \/ \E t \in Tasks : Call(a, t)
           \/ \E w \in Workers : WorkerStep(w)
           \/ \E t \in Tasks : Requeue(t) \/ DeadlinePasses(t)
    PROVE  UNCHANGED Lifecycle!absVars
<1>1. UNCHANGED <<status, accepting, cancelReq>>
  BY ZenonT(30)
     DEF IsEnabled, SpawnNoExecutor, SpawnRejected, CancelEnter, JoinEnter, JoinReturn, JoinHelp,
         JoinSleep, ShutdownStep, ShutdownWait, ShutdownStop, ShutdownEnd, Call, CallSpawn,
         CallCancel, CallJoin, WorkerStep, WorkerTake, WorkerSleep, WorkerExit, Requeue,
         DeadlinePasses
<1>2. \/ UNCHANGED stage
      \/ \E t \in Tasks, s \in Stages \ {"polling"} :
            stage[t] # "polling" /\ stage' = [stage EXCEPT ![t] = s]
  <2>1. ASSUME NEW a \in Agents, IsEnabled(a) \/ SpawnNoExecutor(a) \/ SpawnRejected(a)
        PROVE  \E t \in Tasks, s \in Stages \ {"polling"} :
                 stage[t] # "polling" /\ (stage' = [stage EXCEPT ![t] = s] \/ UNCHANGED stage)
    BY <2>1, NamedTask DEF IsEnabled, SpawnNoExecutor, SpawnRejected, At, Stages
  <2>2. ASSUME NEW w \in Workers, PopReady(w)
        PROVE  \E t \in Tasks : stage[t] = "queued" /\ stage' = [stage EXCEPT ![t] = "popped"]
    <3>1. PICK i \in 1 .. Len(queues[w]) : stage' = [stage EXCEPT ![queues[w][i]] = "popped"]
      BY Zenon, <2>2 DEF PopReady
    <3>2. queues[w][i] \in Tasks /\ Holds(queues[w], queues[w][i])
      BY SMTT(30) DEF IInv, TypeOK, Holds
    <3> QED  BY ZenonT(30), <3>1, <3>2 DEF IInv, HeldExactlyOnce, QueuesOwn
  <2>3. ASSUME NEW a \in Agents, JoinHelp(a) PROVE \E w \in Workers : PopReady(w)
    BY <2>3 DEF JoinHelp, Helping, IInv, TypeOK
  <2>4. ASSUME NEW w \in Workers, WorkerTake(w) PROVE PopReady(w)
    BY <2>4 DEF WorkerTake
  <2>5. ASSUME NEW a \in Agents,
               CancelEnter(a) \/ JoinEnter(a) \/ JoinReturn(a) \/ JoinSleep(a) \/ ShutdownStep(a)
        PROVE  UNCHANGED stage
    BY ZenonT(30), <2>5
       DEF CancelEnter, JoinEnter, JoinReturn, JoinSleep, ShutdownStep, ShutdownWait,
                ShutdownStop, ShutdownEnd
  <2>6. ASSUME NEW a \in Agents, NEW t \in Tasks, Call(a, t)
        PROVE  \/ UNCHANGED stage
               \/ stage[t] = "fresh" /\ stage' = [stage EXCEPT ![t] = "submitting"]
    BY <2>6 DEF Call, CallSpawn, CallCancel, CallJoin
  <2>7. ASSUME NEW w \in Workers, WorkerSleep(w) \/ WorkerExit(w) PROVE UNCHANGED stage
    BY <2>7 DEF WorkerSleep, WorkerExit
  <2>8. ASSUME NEW t \in Tasks, Requeue(t) \/ DeadlinePasses(t)
        PROVE  \/ UNCHANGED stage
               \/ stage[t] = "pended" /\ stage' = [stage EXCEPT ![t] = "queued"]
    BY <2>8 DEF Requeue, DeadlinePasses
  <2>9. {"queued", "popped", "submitting"} \subseteq Stages \ {"polling"}
    BY DEF Stages, InFlight
  <2> QED  BY <2>1, <2>2, <2>3, <2>4, <2>5, <2>6, <2>7, <2>8, <2>9 DEF WorkerStep
<1>3. Running' = Running
  BY <1>2 DEF Running, IInv, TypeOK
<1> QED  BY <1>1, <1>3, UserSeesNothing

LEMMA StepImplements == IInv /\ [Next]_vars => [Lifecycle!Next]_(Lifecycle!absVars)
<1> SUFFICES ASSUME IInv, [Next]_vars PROVE Lifecycle!Next \/ UNCHANGED Lifecycle!absVars
  OBVIOUS
<1>1. ASSUME NEW a \in Agents, AgentStep(a)
      PROVE  Lifecycle!Next \/ UNCHANGED Lifecycle!absVars
  BY <1>1, InternalSteps, SpawnAccepts, CancelDooms DEF AgentStep, Lifecycle!Next
<1>2. ASSUME NEW a \in Agents, Shutdown(a) PROVE Lifecycle!Next
  BY <1>2, ShutdownCloses DEF Shutdown, Lifecycle!Next
<1>3. ASSUME NEW t \in Tasks, PollReturn(t) \/ FrameStep(t)
      PROVE  Lifecycle!Next \/ UNCHANGED Lifecycle!absVars
  BY <1>3, PollResumesOrPauses, InternalSteps, FinishSettles DEF FrameStep, Lifecycle!Next
<1>4. ASSUME NEW c \in Clients, Enable(c) PROVE Lifecycle!Next
  BY <1>4, EnableOpens DEF Lifecycle!Next
<1>5. CASE UNCHANGED vars
  BY <1>5, UserSeesNothing DEF vars, Running
<1> QED  BY SMTT(30), <1>1, <1>2, <1>3, <1>4, <1>5, InternalSteps DEF Next

\* The executor, with its queues, nested polls, locks and shutdown, gives its
\* users no more than the life cycle of TaskLifecycle.
THEOREM Refinement == Spec => ImplementsLifecycle
<1>1. Init => Lifecycle!Init
  BY DEF Init, Lifecycle!Init
<1> QED  BY <1>1, Inductive, StepImplements, PTL DEF Spec, ImplementsLifecycle, Lifecycle!Spec

=============================================================================
