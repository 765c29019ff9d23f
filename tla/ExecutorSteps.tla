--------------------------- MODULE ExecutorSteps ---------------------------
(***************************************************************************)
(* The inductive invariant of Executor, and the steps that preserve it      *)
(* without changing how many tasks are active.                              *)
(***************************************************************************)
EXTENDS Executor, TLAPS

(***************************************************************************)
(* The strengthening.  The invariants of Executor need three more facts to  *)
(* be inductive: what the agents' call states say about the frames they     *)
(* name, how the slot, the shutdown in progress and the workers' life hang  *)
(* together, and where a verdict comes from.                                *)
(***************************************************************************)
Submitting == {"isEnabled", "spawn"}
Naming == {"cancelEnter", "cancelShared", "joinEnter", "joining", "joinWait"}
ShuttingDown == {"drain", "drainWait", "joinWorkers"}

\* An agent inside a call on a task names it, and a frame being submitted has
\* one submitter.
CallsNameTasks ==
    /\ \A a \in Agents :
          /\ apc[a] \in Submitting => arg[a] \in Tasks /\ stage[arg[a]] = "submitting"
          /\ apc[a] \in Naming => arg[a] \in Tasks /\ status[arg[a]] # "Unknown"
    /\ \A a, b \in Agents :
          apc[a] \in Submitting /\ apc[b] \in Submitting /\ arg[a] = arg[b] => a = b

\* The slot is full exactly while submissions are accepted.  Workers are alive
\* from enable until shutdown stops them, which it does when no task is left.
SlotLife ==
    /\ accepting = slot
    /\ slot => slotHolder = None /\ ~stopWorkers
    /\ slot \/ (slotHolder # None /\ ~stopWorkers) => alive = Workers
    /\ stopWorkers \/ (~slot /\ slotHolder = None) => active = 0
    /\ \A a \in Agents :
          /\ apc[a] \in ShuttingDown <=> slotHolder = a
          /\ slotHolder = a => (apc[a] = "joinWorkers" <=> stopWorkers)

\* A frame reaches finish_task with a terminal status, and the cancel hook runs
\* only for a task that was asked to cancel.
VerdictEarned ==
    \A t \in Tasks :
        /\ stage[t] = "cancel" => cancelReq[t]
        /\ stage[t] = "finish" => verdict[t] \in Terminal
        /\ stage[t] = "finish" /\ verdict[t] = "Canceled" => cancelReq[t]

IInv ==
    /\ TypeOK /\ HeldExactlyOnce /\ ActiveCounts /\ IsFiniteSet(controls)
    /\ CallsNameTasks /\ SlotLife /\ VerdictEarned
    /\ NoLostWakeup /\ NoTaskStranded /\ ReleasedOnce

\* The tuples of variables and unions of names are always expanded.
USE DEF executorVars, slotVars, poolVars, taskVars, frameVars, callVars
USE DEF Agents, Submitting, Naming, ShuttingDown

-----------------------------------------------------------------------------
(***************************************************************************)
(* What the sequence operations do to the set of tasks a queue or stack     *)
(* holds.                                                                   *)
(***************************************************************************)
LEMMA ElementTyped ==
    ASSUME NEW S, NEW q \in Seq(S), NEW i \in 1 .. Len(q)
    PROVE  q[i] \in S
OBVIOUS

LEMMA AppendHolds ==
    ASSUME NEW S, NEW q \in Seq(S), NEW x \in S, Distinct(q), ~Holds(q, x)
    PROVE  /\ Append(q, x) \in Seq(S) /\ Append(q, x) # <<>>
           /\ Distinct(Append(q, x))
           /\ \A t : Holds(Append(q, x), t) <=> Holds(q, t) \/ t = x
<1>1. /\ Append(q, x) \in Seq(S)
      /\ Len(Append(q, x)) = Len(q) + 1
      /\ \A i \in 1 .. Len(q) : Append(q, x)[i] = q[i]
      /\ Append(q, x)[Len(q) + 1] = x
      /\ Len(q) \in Nat
  OBVIOUS
<1> DEFINE r == Append(q, x)
<1> HIDE DEF r
<1>2. Len(r) = Len(q) + 1 /\ Len(q) \in Nat /\ r[Len(q) + 1] = x
      /\ \A i \in 1 .. Len(q) : r[i] = q[i]
  BY <1>1 DEF r
<1>3. Distinct(r)
  BY <1>2 DEF Distinct, Holds
<1>4. \A t : Holds(r, t) <=> Holds(q, t) \/ t = x
  <2>1. ASSUME NEW t, Holds(r, t) PROVE Holds(q, t) \/ t = x
    BY <1>2, <2>1 DEF Holds
  <2>2. ASSUME NEW t, Holds(q, t) PROVE Holds(r, t)
    BY <1>2, <2>2 DEF Holds
  <2>3. Holds(r, x)
    BY <1>2 DEF Holds
  <2> QED  BY <2>1, <2>2, <2>3
<1>5. r # <<>>
  BY <1>2
<1> QED  BY <1>1, <1>3, <1>4, <1>5 DEF r

LEMMA PopHolds ==
    ASSUME NEW S, NEW q \in Seq(S), q # <<>>, Distinct(q)
    PROVE  LET p == SubSeq(q, 1, Len(q) - 1) IN
           /\ p \in Seq(S)
           /\ Distinct(p)
           /\ \A t : Holds(p, t) <=> Holds(q, t) /\ t # q[Len(q)]
<1> DEFINE m == Len(q) - 1
           p == SubSeq(q, 1, m)
<1>1. Len(q) \in Nat \ {0} /\ m \in Nat /\ \A i \in 1 .. m : q[i] \in S
  OBVIOUS
<1> HIDE DEF m
<1>2. /\ p \in Seq(S)
      /\ Len(p) = IF 1 <= m THEN m - 1 + 1 ELSE 0
      /\ \A i \in 1 .. m - 1 + 1 : p[i] = q[1 + i - 1]
  <2>1. 1 \in Int /\ m \in Int
    BY <1>1
  <2> QED  BY <1>1, <2>1
<1> HIDE DEF p
<1>3. Len(p) = m /\ \A i \in 1 .. m : p[i] = q[i]
  BY <1>1, <1>2
<1>4. Distinct(p) /\ \A t : Holds(p, t) <=> Holds(q, t) /\ t # q[Len(q)]
  BY <1>1, <1>3 DEF Distinct, Holds, m
<1> QED  BY <1>2, <1>4 DEF p, m

\* next_ready_task removes the entry it returns and nothing else.
LEMMA RotatedHolds ==
    ASSUME NEW S, NEW q \in Seq(S), NEW i \in 1 .. Len(q), Distinct(q)
    PROVE  /\ Rotated(q, i) \in Seq(S)
           /\ Distinct(Rotated(q, i))
           /\ \A t : Holds(Rotated(q, i), t) <=> Holds(q, t) /\ t # q[i]
<1> DEFINE n == Len(q) - 1
           at(j) == IF j <= Len(q) - i THEN i + j ELSE j - (Len(q) - i)
           r == [j \in 1 .. n |-> q[at(j)]]
<1>1. Len(q) \in Nat \ {0} /\ n \in Nat /\ \A k \in 1 .. Len(q) : q[k] \in S
  OBVIOUS
<1>2. \A j \in 1 .. n : at(j) \in 1 .. Len(q) /\ at(j) # i
  BY <1>1
<1>3. \A j, k \in 1 .. n : at(j) = at(k) => j = k
  BY <1>1
<1>4. \A k \in 1 .. Len(q) : k # i => \E j \in 1 .. n : at(j) = k
  <2> SUFFICES ASSUME NEW k \in 1 .. Len(q), k # i
               PROVE  \E j \in 1 .. n : at(j) = k
    OBVIOUS
  <2>1. CASE k > i
    <3>1. k - i \in 1 .. n /\ at(k - i) = k
      BY <1>1, <2>1
    <3> QED  BY Zenon, <3>1
  <2>2. CASE k < i
    <3>1. k + (Len(q) - i) \in 1 .. n /\ at(k + (Len(q) - i)) = k
      BY <1>1, <2>2
    <3> QED  BY <3>1
  <2> QED  BY <1>1, <2>1, <2>2
<1>5. r \in [1 .. n -> S] /\ \A j \in 1 .. n : r[j] = q[at(j)]
  BY <1>1, <1>2
<1>6. r \in Seq(S) /\ Len(r) = n
  <2>1. r \in Seq(S)
    BY <1>1, <1>5
  <2>2. DOMAIN r = 1 .. n /\ DOMAIN r = 1 .. Len(r) /\ Len(r) \in Nat
    BY <2>1
  <2> QED  BY <1>1, <2>1, <2>2
<1>7. Rotated(q, i) = r
  BY DEF Rotated
<1> HIDE DEF n, at, r
<1>8. Distinct(r)
  BY <1>2, <1>3, <1>5, <1>6 DEF Distinct
<1>9. \A t : Holds(r, t) <=> Holds(q, t) /\ t # q[i]
  <2>1. ASSUME NEW t, Holds(r, t) PROVE Holds(q, t) /\ t # q[i]
    <3>1. PICK j \in 1 .. n : t = q[at(j)]
      BY <1>5, <1>6, <2>1 DEF Holds
    <3> QED  BY <1>2, <3>1 DEF Distinct, Holds
  <2>2. ASSUME NEW t, Holds(q, t), t # q[i] PROVE Holds(r, t)
    <3>1. PICK k \in 1 .. Len(q) : q[k] = t /\ k # i
      BY <2>2 DEF Holds
    <3>2. PICK j \in 1 .. n : at(j) = k
      BY <1>4, <3>1
    <3> QED  BY <1>5, <1>6, <3>1, <3>2 DEF Holds
  <2> QED  BY <2>1, <2>2
<1> QED  BY <1>6, <1>7, <1>8, <1>9

(***************************************************************************)
(* A family of sequences, one per worker, that holds each task of a set     *)
(* once, at the worker it is pinned to: what QueuesOwn and StacksOwn say.   *)
(***************************************************************************)
Owns(f, S, at) ==
    \A v \in Workers :
        /\ Distinct(f[v])
        /\ \A u \in Tasks : Holds(f[v], u) <=> u \in S /\ at[u] = v

\* g is f but for one more, or one less, task at worker w.
Gains(f, g, w, t) ==
    /\ Distinct(g[w]) /\ \A u : Holds(g[w], u) <=> Holds(f[w], u) \/ u = t
    /\ \A v \in Workers \ {w} : g[v] = f[v]
Loses(f, g, w, t) ==
    /\ Distinct(g[w]) /\ \A u : Holds(g[w], u) <=> Holds(f[w], u) /\ u # t
    /\ \A v \in Workers \ {w} : g[v] = f[v]

\* R is S but for t, which enters, pinned to w, or leaves.
Enters(S, at, R, to, w, t) ==
    /\ t \notin S /\ t \in R /\ to[t] = w
    /\ \A u \in Tasks : u # t => (u \in R <=> u \in S) /\ to[u] = at[u]
Leaves(S, R, at, w, t) ==
    /\ t \notin R /\ at[t] = w
    /\ \A u \in Tasks : u # t => (u \in R <=> u \in S)

\* A worker's sequence gains a task it did not hold, and which is pinned there.
LEMMA OwnsOneMore ==
    ASSUME NEW f, NEW S, NEW at, NEW g, NEW R, NEW to,
           NEW w \in Workers, NEW t \in Tasks,
           Owns(f, S, at), Gains(f, g, w, t), Enters(S, at, R, to, w, t)
    PROVE  Owns(g, R, to)
<1> USE DEF Gains, Enters
<1> SUFFICES ASSUME NEW v \in Workers
             PROVE  /\ Distinct(g[v])
                    /\ \A u \in Tasks : Holds(g[v], u) <=> u \in R /\ to[u] = v
  BY Zenon DEF Owns
<1>1. Distinct(f[v]) /\ \A u \in Tasks : Holds(f[v], u) <=> u \in S /\ at[u] = v
  BY Zenon DEF Owns
<1>2. CASE v = w
  <2>1. ASSUME NEW u \in Tasks PROVE Holds(g[w], u) <=> u \in R /\ to[u] = w
    <3>1. CASE u = t
      BY Zenon, <3>1
    <3>2. CASE u # t
      <4>1. Holds(g[w], u) <=> Holds(f[w], u)
        BY Zenon, <3>2
      <4>2. Holds(f[w], u) <=> u \in S /\ at[u] = w
        BY Zenon, <1>1, <1>2
      <4>3. (u \in R <=> u \in S) /\ to[u] = at[u]
        BY Zenon, <3>2
      <4> QED  BY Zenon, <4>1, <4>2, <4>3
    <3> QED  BY <3>1, <3>2
  <2> QED  BY Zenon, <1>2, <2>1
<1>3. CASE v # w
  <2>1. g[v] = f[v]
    BY <1>3
  <2> QED  BY Zenon, <1>1, <1>3, <2>1
<1> QED  BY <1>2, <1>3

\* A worker's sequence loses the one task that leaves the set.
LEMMA OwnsOneLess ==
    ASSUME NEW f, NEW S, NEW at, NEW g, NEW R,
           NEW w \in Workers, NEW t \in Tasks,
           Owns(f, S, at), Loses(f, g, w, t), Leaves(S, R, at, w, t)
    PROVE  Owns(g, R, at)
<1> USE DEF Loses, Leaves
<1> SUFFICES ASSUME NEW v \in Workers
             PROVE  /\ Distinct(g[v])
                    /\ \A u \in Tasks : Holds(g[v], u) <=> u \in R /\ at[u] = v
  BY Zenon DEF Owns
<1>1. Distinct(f[v]) /\ \A u \in Tasks : Holds(f[v], u) <=> u \in S /\ at[u] = v
  BY Zenon DEF Owns
<1>2. CASE v = w
  BY Zenon, <1>1, <1>2
<1>3. CASE v # w
  <2>1. g[v] = f[v]
    BY <1>3
  <2> QED  BY Zenon, <1>1, <1>3, <2>1
<1> QED  BY <1>2, <1>3

-----------------------------------------------------------------------------
(***************************************************************************)
(* Steps that leave the executor and the frames alone and move one agent    *)
(* from one call state to another.                                          *)
(***************************************************************************)
LEMMA AgentMoves ==
    ASSUME IInv, NEW a \in Agents, NEW c \in CallStates \ Submitting, NEW t \in Tasks \cup {None},
           UNCHANGED <<executorVars, frameVars>>, Goto(a, c, t),
           apc[a] \in ShuttingDown <=> c \in ShuttingDown,
           apc[a] = "joinWorkers" <=> c = "joinWorkers",
           c \in Naming => t \in Tasks /\ status[t] # "Unknown",
           c = "joinWait" => status[t] = "Pending",
           c = "drainWait" => active # 0
    PROVE  IInv'
<1>1. TypeOK'
  BY Zenon DEF IInv, TypeOK, Goto
<1>2. CallsNameTasks'
  BY DEF IInv, TypeOK, CallsNameTasks, Goto
<1>3. SlotLife'
  BY DEF IInv, TypeOK, SlotLife, Goto
<1>4. NoLostWakeup'
  BY DEF IInv, TypeOK, NoLostWakeup, Goto
<1>5. (HeldExactlyOnce /\ ActiveCounts /\ IsFiniteSet(controls) /\ VerdictEarned
       /\ NoTaskStranded /\ ReleasedOnce)'
  BY DEF IInv, HeldExactlyOnce, QueuesOwn, StacksOwn, StatusMatchesStage, ActiveCounts,
         VerdictEarned, NoTaskStranded, ReleasedOnce
<1> QED  BY <1>1, <1>2, <1>3, <1>4, <1>5 DEF IInv

\* What the guards of an agent's step say about the task it names.
LEMMA NamedTask ==
    ASSUME IInv, NEW a \in Agents
    PROVE  /\ apc[a] \in Submitting => arg[a] \in Tasks /\ stage[arg[a]] = "submitting"
           /\ apc[a] \in Naming => arg[a] \in Tasks /\ status[arg[a]] # "Unknown"
  BY DEF IInv, CallsNameTasks

LEMMA CallSteps ==
    ASSUME IInv, NEW a \in Agents,
           \/ \E t \in Tasks : CallCancel(a, t) \/ CallJoin(a, t)
           \/ CancelEnter(a) \/ JoinEnter(a) \/ JoinReturn(a) \/ JoinSleep(a) \/ ShutdownWait(a)
    PROVE  IInv'
<1>1. CASE \E t \in Tasks : CallCancel(a, t)
  BY <1>1, AgentMoves DEF CallCancel, MayCall, At, CallStates
<1>2. CASE \E t \in Tasks : CallJoin(a, t)
  BY <1>2, AgentMoves DEF CallJoin, MayCall, At, CallStates
<1>3. CASE CancelEnter(a)
  BY <1>3, AgentMoves, NamedTask DEF CancelEnter, Return, At, CallStates
<1>4. CASE JoinEnter(a)
  BY <1>4, AgentMoves, NamedTask DEF JoinEnter, Return, At, CallStates
<1>5. CASE JoinReturn(a)
  BY <1>5, AgentMoves DEF JoinReturn, Return, At, CallStates
<1>6. CASE JoinSleep(a)
  BY <1>6, AgentMoves, NamedTask DEF JoinSleep, At, CallStates
<1>7. CASE ShutdownWait(a)
  BY <1>7, AgentMoves DEF ShutdownWait, Drained, At, CallStates
<1> QED  BY <1>1, <1>2, <1>3, <1>4, <1>5, <1>6, <1>7

(***************************************************************************)
(* Steps that keep every frame with whoever holds it.                       *)
(***************************************************************************)
LEMMA HoldersKept ==
    ASSUME HeldExactlyOnce, UNCHANGED <<queues, stack, worker, status>>,
           \A t \in Tasks : /\ stage'[t] = "queued" <=> stage[t] = "queued"
                            /\ stage'[t] \in InFlight <=> stage[t] \in InFlight
                            /\ stage'[t] = "done" <=> stage[t] = "done"
    PROVE  HeldExactlyOnce'
<1>1. QueuesOwn'
  BY DEF HeldExactlyOnce, QueuesOwn
<1>2. StacksOwn'
  BY DEF HeldExactlyOnce, StacksOwn
<1>3. StatusMatchesStage'
  BY DEF HeldExactlyOnce, StatusMatchesStage
<1> QED  BY <1>1, <1>2, <1>3 DEF HeldExactlyOnce

\* spawn_task_raw up to the point where a frame is turned away.
LEMMA SubmissionMoves ==
    ASSUME IInv, NEW a \in Agents, NEW c \in {"user"} \cup Submitting, NEW t \in Tasks,
           NEW s \in {"submitting", "cooperative", "lost", "rejected"},
           UNCHANGED <<executorVars, verdict>>,
           stage' = [stage EXCEPT ![t] = s],
           apc' = [apc EXCEPT ![a] = c],
           arg' = [arg EXCEPT ![a] = IF c = "user" THEN None ELSE t],
           c \in Submitting <=> s = "submitting",
           releases' = IF s = "rejected" THEN [releases EXCEPT ![t] = @ + 1] ELSE releases,
           \/ apc[a] = "user" /\ stage[t] = "fresh"
           \/ apc[a] \in Submitting /\ arg[a] = t
    PROVE  IInv'
<1>1. stage[t] \in {"fresh", "submitting"} /\ status[t] = "Unknown" /\ releases[t] = 0
  <2>1. stage[t] \in {"fresh", "submitting"}
    BY NamedTask
  <2>2. status[t] = "Unknown"
    BY Zenon, <2>1 DEF IInv, TypeOK, HeldExactlyOnce, StatusMatchesStage, TaskStatus, InFlight
  <2>3. releases[t] = 0
    <3>1. releases[t] \in Nat /\ releases[t] <= 1 /\ releases[t] # 1
      BY Zenon, <2>1 DEF IInv, TypeOK, ReleasedOnce
    <3> QED  BY <3>1
  <2> QED  BY <2>1, <2>2, <2>3
<1>2. TypeOK'
  <2>1. releases' \in [Tasks -> Nat]
    BY DEF IInv, TypeOK
  <2>2. stage' \in [Tasks -> Stages] /\ apc' \in [Agents -> CallStates]
        /\ arg' \in [Agents -> Tasks \cup {None}]
    BY SMTT(30) DEF IInv, TypeOK, Stages, CallStates
  <2> QED  BY Zenon, <2>1, <2>2 DEF IInv, TypeOK
<1>3. HeldExactlyOnce'
  BY <1>1, HoldersKept DEF IInv, TypeOK, InFlight
<1>4. CallsNameTasks'
  <2>1. ASSUME NEW b \in Agents, b # a, apc[b] \in Submitting PROVE arg[b] # t
    BY <2>1, NamedTask DEF IInv, CallsNameTasks
  <2> QED  BY Zenon, <2>1 DEF IInv, TypeOK, CallsNameTasks
<1>5. SlotLife'
  BY Zenon DEF IInv, TypeOK, SlotLife
<1>6. NoLostWakeup'
  BY DEF IInv, TypeOK, NoLostWakeup
<1>7. ReleasedOnce'
  BY <1>1 DEF IInv, TypeOK, ReleasedOnce
<1>8. (ActiveCounts /\ IsFiniteSet(controls) /\ VerdictEarned /\ NoTaskStranded)'
  BY SMTT(30) DEF IInv, TypeOK, ActiveCounts, VerdictEarned, NoTaskStranded
<1> QED  BY <1>2, <1>3, <1>4, <1>5, <1>6, <1>7, <1>8 DEF IInv

LEMMA SubmissionSteps ==
    ASSUME IInv, NEW a \in Agents,
           \/ \E t \in Tasks : CallSpawn(a, t)
           \/ IsEnabled(a) \/ SpawnNoExecutor(a) \/ SpawnRejected(a)
    PROVE  IInv'
<1>1. CASE \E t \in Tasks : CallSpawn(a, t)
  <2>1. PICK t \in Tasks : CallSpawn(a, t)
    BY <1>1
  <2> QED  BY Zenon, <2>1, SubmissionMoves DEF CallSpawn, MayCall, At, Goto
<1>2. CASE IsEnabled(a)
  <2>1. arg[a] \in Tasks /\ stage[arg[a]] = "submitting" /\ apc[a] = "isEnabled"
    BY Zenon, <1>2, NamedTask DEF IsEnabled, At
  <2>2. CASE slot
    <3>1. stage' = [stage EXCEPT ![arg[a]] = "submitting"]
      BY <1>2, <2>1, <2>2 DEF IsEnabled, IInv, TypeOK
    <3> QED  BY Zenon, <1>2, <2>1, <2>2, <3>1, SubmissionMoves DEF IsEnabled, Goto
  <2>3. CASE ~slot
    BY <1>2, <2>1, <2>3, SubmissionMoves DEF IsEnabled, Return, Goto
  <2> QED  BY <2>2, <2>3
<1>3. CASE SpawnNoExecutor(a)
  BY Zenon, <1>3, NamedTask, SubmissionMoves DEF SpawnNoExecutor, At, Return, Goto
<1>4. CASE SpawnRejected(a)
  BY Zenon, <1>4, NamedTask, SubmissionMoves DEF SpawnRejected, At, Return, Goto
<1> QED  BY <1>1, <1>2, <1>3, <1>4

(***************************************************************************)
(* poll_task between taking a frame and giving it up: the frame stays on    *)
(* top of its worker's stack.                                               *)
(***************************************************************************)
LEMMA FrameMoves ==
    ASSUME IInv, NEW t \in Tasks, stage[t] \in InFlight \ {"finish"},
           NEW s \in InFlight, s # "popped", NEW v \in Terminal,
           UNCHANGED <<executorVars, callVars>>,
           stage' = [stage EXCEPT ![t] = s],
           s = "cancel" => cancelReq[t],
           IF s = "finish"
             THEN /\ verdict' = [verdict EXCEPT ![t] = v]
                  /\ v = "Canceled" => cancelReq[t]
                  /\ releases' = [releases EXCEPT ![t] = @ + 1]
             ELSE UNCHANGED <<verdict, releases>>
    PROVE  IInv'
<1>1. TypeOK'
  <2>1. releases' \in [Tasks -> Nat] /\ verdict' \in [Tasks -> {"Unknown"} \cup Terminal]
    <3>1. CASE s = "finish"
      <4>1. releases \in [Tasks -> Nat] /\ verdict \in [Tasks -> {"Unknown"} \cup Terminal]
        BY DEF IInv, TypeOK
      <4>2. releases' \in [Tasks -> Nat]
        BY <3>1, <4>1
      <4> QED  BY <3>1, <4>1, <4>2
    <3>2. CASE s # "finish"
      BY <3>2 DEF IInv, TypeOK
    <3> QED  BY <3>1, <3>2
  <2>2. stage' \in [Tasks -> Stages]
    BY DEF IInv, TypeOK, Stages
  <2> QED  BY Zenon, <2>1, <2>2 DEF IInv, TypeOK
<1>2. HeldExactlyOnce'
  BY HoldersKept DEF IInv, TypeOK, InFlight
<1>3. CallsNameTasks'
  BY SMTT(30) DEF IInv, TypeOK, CallsNameTasks, InFlight
<1>4. VerdictEarned'
  BY SMTT(30) DEF IInv, TypeOK, VerdictEarned
<1>5. ReleasedOnce'
  <2>1. releases[t] \in Nat /\ releases[t] <= 1 /\ releases[t] # 1
    BY Zenon DEF IInv, TypeOK, ReleasedOnce, InFlight
  <2>2. CASE s = "finish"
    BY <2>1, <2>2 DEF IInv, TypeOK, ReleasedOnce
  <2>3. CASE s # "finish"
    BY <2>1, <2>3 DEF IInv, TypeOK, ReleasedOnce, InFlight
  <2> QED  BY <2>2, <2>3
<1>6. (ActiveCounts /\ IsFiniteSet(controls) /\ SlotLife /\ NoLostWakeup /\ NoTaskStranded)'
  BY DEF IInv, ActiveCounts, SlotLife, NoLostWakeup, NoTaskStranded
<1> QED  BY Zenon, <1>1, <1>2, <1>3, <1>4, <1>5, <1>6 DEF IInv

LEMMA FrameSteps ==
    ASSUME IInv, NEW t \in Tasks, PollBegin(t) \/ PollReturn(t) \/ CancelHook(t)
    PROVE  IInv'
<1>1. cancelReq[t] \in BOOLEAN
  BY DEF IInv, TypeOK
<1>2. CASE PollBegin(t)
  BY Zenon, <1>1, <1>2, FrameMoves DEF PollBegin, FirstStage, InFlight, Terminal
<1>3. CASE PollComplete(t)
  BY Zenon, <1>3, FrameMoves DEF PollComplete, At, InFlight, Terminal
<1>4. CASE PollPanic(t)
  BY Zenon, <1>4, FrameMoves DEF PollPanic, DropAfterPanic, At, InFlight, Terminal
<1>5. CASE PollPending(t)
  BY Zenon, <1>1, <1>5, FrameMoves DEF PollPending, At, InFlight, Terminal
<1>6. CASE CancelHook(t)
  <2>1. cancelReq[t]
    BY Zenon, <1>6 DEF IInv, VerdictEarned, CancelHook
  <2> QED  BY Zenon, <1>6, <2>1, FrameMoves DEF CancelHook, CancelOutcome, InFlight, Terminal
<1> QED  BY <1>2, <1>3, <1>4, <1>5, <1>6 DEF PollReturn

-----------------------------------------------------------------------------
(***************************************************************************)
(* Cancellation, deadlines, and the life of the workers and of the slot.    *)
(***************************************************************************)
LEMMA CancelSharedInv ==
    ASSUME IInv, NEW a \in Agents, CancelShared(a)
    PROVE  IInv'
<1>1. arg[a] \in Tasks /\ apc[a] = "cancelShared"
  BY NamedTask DEF CancelShared, At
<1>2. cancelReq' \in [Tasks -> BOOLEAN] /\ (\A t \in Tasks : cancelReq[t] => cancelReq'[t])
      /\ cancelAck' \subseteq Tasks /\ idle' \subseteq idle
  BY Zenon, <1>1 DEF CancelShared, NotifyWorker, IInv, TypeOK
<1>3. TypeOK'
  BY <1>1, <1>2 DEF CancelShared, Return, Goto, IInv, TypeOK, CallStates
<1>4. HeldExactlyOnce'
  BY Zenon, HoldersKept DEF CancelShared, IInv
<1>5. CallsNameTasks' /\ SlotLife' /\ NoLostWakeup'
  BY ZenonT(30), <1>1, <1>2
     DEF CancelShared, Return, Goto, IInv, TypeOK, CallsNameTasks, SlotLife, NoLostWakeup
<1>6. VerdictEarned'
  BY ZenonT(30), <1>2 DEF CancelShared, IInv, VerdictEarned
<1>7. (ActiveCounts /\ IsFiniteSet(controls) /\ NoTaskStranded /\ ReleasedOnce)'
  BY DEF CancelShared, IInv, ActiveCounts, NoTaskStranded, ReleasedOnce
<1> QED  BY <1>3, <1>4, <1>5, <1>6, <1>7 DEF IInv

LEMMA ShutdownBeginInv ==
    ASSUME IInv, NEW a \in Agents, NEW m \in {"Drain", "Cancel"}, ShutdownBegin(a, m)
    PROVE  IInv'
<1>1. cancelReq' \in [Tasks -> BOOLEAN] /\ \A t \in Tasks : cancelReq[t] => cancelReq'[t]
  BY DEF ShutdownBegin, CancelAll, IInv, TypeOK
<1>2. TypeOK'
  BY Zenon, <1>1 DEF ShutdownBegin, Goto, IInv, TypeOK, CallStates
<1>3. HeldExactlyOnce'
  BY HoldersKept DEF ShutdownBegin, IInv
<1>4. CallsNameTasks' /\ NoLostWakeup'
  BY DEF ShutdownBegin, Goto, MayCall, At, IInv, TypeOK, CallsNameTasks, NoLostWakeup
<1>5. SlotLife'
  BY ZenonT(30), SetsAssumption
     DEF ShutdownBegin, Goto, MayCall, At, SlotFree, IInv, TypeOK, SlotLife
<1>6. VerdictEarned'
  BY <1>1 DEF ShutdownBegin, IInv, VerdictEarned
<1>7. (ActiveCounts /\ IsFiniteSet(controls) /\ NoTaskStranded /\ ReleasedOnce)'
  BY DEF ShutdownBegin, IInv, ActiveCounts, NoTaskStranded, ReleasedOnce
<1> QED  BY <1>2, <1>3, <1>4, <1>5, <1>6, <1>7 DEF IInv

LEMMA ShutdownStopInv ==
    ASSUME IInv, NEW a \in Agents, ShutdownStop(a)
    PROVE  IInv'
<1>1. TypeOK'
  BY SMTT(30) DEF ShutdownStop, Goto, IInv, TypeOK, CallStates
<1>2. HeldExactlyOnce'
  BY HoldersKept DEF ShutdownStop, IInv
<1>3. CallsNameTasks' /\ NoLostWakeup'
  BY DEF ShutdownStop, Goto, At, IInv, TypeOK, CallsNameTasks, NoLostWakeup
<1>4. SlotLife'
  BY SetsAssumption DEF ShutdownStop, Drained, Goto, At, IInv, TypeOK, SlotLife
<1>5. (ActiveCounts /\ IsFiniteSet(controls) /\ VerdictEarned /\ NoTaskStranded /\ ReleasedOnce)'
  BY Zenon DEF ShutdownStop, IInv, ActiveCounts, VerdictEarned, NoTaskStranded, ReleasedOnce
<1> QED  BY <1>1, <1>2, <1>3, <1>4, <1>5 DEF IInv

LEMMA ShutdownEndInv ==
    ASSUME IInv, NEW a \in Agents, ShutdownEnd(a)
    PROVE  IInv'
<1>1. TypeOK'
  BY SMTT(30) DEF ShutdownEnd, Return, Goto, IInv, TypeOK, CallStates
<1>2. HeldExactlyOnce'
  BY HoldersKept DEF ShutdownEnd, IInv
<1>3. CallsNameTasks' /\ NoLostWakeup'
  BY DEF ShutdownEnd, Return, Goto, At, IInv, TypeOK, CallsNameTasks, NoLostWakeup
<1>4. SlotLife'
  BY SetsAssumption DEF ShutdownEnd, Return, Goto, At, IInv, TypeOK, SlotLife
<1>5. (ActiveCounts /\ IsFiniteSet(controls) /\ VerdictEarned /\ NoTaskStranded /\ ReleasedOnce)'
  BY DEF ShutdownEnd, IInv, ActiveCounts, VerdictEarned, NoTaskStranded, ReleasedOnce
<1> QED  BY <1>1, <1>2, <1>3, <1>4, <1>5 DEF IInv

LEMMA DeadlinePassesInv ==
    ASSUME IInv, NEW t \in Tasks, DeadlinePasses(t)
    PROVE  IInv'
<1>1. TypeOK'
  BY SMTT(30) DEF DeadlinePasses, IInv, TypeOK
<1>2. HeldExactlyOnce'
  BY Zenon, HoldersKept DEF DeadlinePasses, IInv
<1>3. (ActiveCounts /\ IsFiniteSet(controls) /\ CallsNameTasks /\ SlotLife /\ VerdictEarned
       /\ NoLostWakeup /\ NoTaskStranded /\ ReleasedOnce)'
  BY DEF DeadlinePasses, IInv, ActiveCounts, CallsNameTasks, SlotLife, VerdictEarned,
         NoLostWakeup, NoTaskStranded, ReleasedOnce
<1> QED  BY <1>1, <1>2, <1>3 DEF IInv

(***************************************************************************)
(* Steps that move a frame from one holder to another.                      *)
(***************************************************************************)
\* A worker thread, at its loop or inside a join, takes a ready frame.
LEMMA TakeInv ==
    ASSUME IInv, NEW w \in Workers, w \notin idle, PopReady(w),
           UNCHANGED <<slotVars, poolVars, taskVars, cancelReq, due, verdict, releases,
                       cancelAck, alive, idle, callVars>>
    PROVE  IInv'
<1>1. PICK i \in 1 .. Len(queues[w]) :
         /\ queues' = [queues EXCEPT ![w] = Rotated(@, i)]
         /\ stage' = [stage EXCEPT ![queues[w][i]] = "popped"]
         /\ Push(w, queues[w][i])
  BY Zenon DEF PopReady
<1> DEFINE t == queues[w][i]
<1>2. /\ queues[w] \in Seq(Tasks) /\ Distinct(queues[w])
      /\ stack[w] \in Seq(Tasks) /\ Distinct(stack[w])
  BY SMTT(30) DEF IInv, TypeOK, HeldExactlyOnce, QueuesOwn, StacksOwn
<1>3. t \in Tasks /\ Holds(queues[w], t)
  <2>1. t \in Tasks
    BY Zenon, <1>2, ElementTyped DEF t
  <2>2. Holds(queues[w], t)
    BY Zenon DEF Holds
  <2> QED  BY Zenon, <2>1, <2>2
<1> HIDE DEF t
<1>4. stage[t] = "queued" /\ worker[t] = w /\ status[t] = "Pending"
  <2>1. QueuesOwn /\ StatusMatchesStage
    BY Zenon DEF IInv, HeldExactlyOnce
  <2>2. stage[t] = "queued" /\ worker[t] = w
    BY Zenon, <1>3, <2>1 DEF QueuesOwn
  <2> QED  BY Zenon, <1>3, <2>1, <2>2 DEF StatusMatchesStage
<1>5. stage' = [stage EXCEPT ![t] = "popped"]
  BY <1>1 DEF t
<1>6. /\ queues'[w] \in Seq(Tasks) /\ Distinct(queues'[w])
      /\ \A u : Holds(queues'[w], u) <=> Holds(queues[w], u) /\ u # t
      /\ \A v \in Workers \ {w} : queues'[v] = queues[v]
      /\ queues' \in [Workers -> Seq(Tasks)]
  <2>1. queues' = [queues EXCEPT ![w] = Rotated(queues[w], i)]
    BY <1>1
  <2>2. /\ Rotated(queues[w], i) \in Seq(Tasks) /\ Distinct(Rotated(queues[w], i))
        /\ \A u : Holds(Rotated(queues[w], i), u) <=> Holds(queues[w], u) /\ u # t
    BY <1>2, RotatedHolds DEF t
  <2> QED  BY <2>1, <2>2 DEF IInv, TypeOK
<1>7. ~Holds(stack[w], t)
  BY Zenon, <1>3, <1>4 DEF IInv, HeldExactlyOnce, StacksOwn, InFlight
<1>8. /\ stack'[w] \in Seq(Tasks) /\ Distinct(stack'[w])
      /\ \A u : Holds(stack'[w], u) <=> Holds(stack[w], u) \/ u = t
      /\ \A v \in Workers \ {w} : stack'[v] = stack[v]
      /\ stack' \in [Workers -> Seq(Tasks)]
  <2>1. stack' = [stack EXCEPT ![w] = Append(stack[w], t)]
    BY <1>1 DEF Push, t
  <2>2. /\ Append(stack[w], t) \in Seq(Tasks) /\ Distinct(Append(stack[w], t))
        /\ \A u : Holds(Append(stack[w], t), u) <=> Holds(stack[w], u) \/ u = t
    BY Zenon, <1>2, <1>3, <1>7, AppendHolds
  <2> QED  BY <2>1, <2>2 DEF IInv, TypeOK
<1>9. stage'[t] = "popped" /\ \A u \in Tasks : u # t => stage'[u] = stage[u]
  BY <1>3, <1>5 DEF IInv, TypeOK
<1>10. TypeOK'
  BY Zenon, <1>5, <1>6, <1>8 DEF IInv, TypeOK, Stages, InFlight
<1>11. QueuesOwn'
  <2> DEFINE Q == {u \in Tasks : stage[u] = "queued"}
  <2>1. Leaves(Q, Q', worker, w, t)
    BY <1>4, <1>9 DEF Leaves, InFlight
  <2>2. Owns(queues, Q, worker)
    BY Zenon DEF IInv, HeldExactlyOnce, QueuesOwn, Owns
  <2>3. Loses(queues, queues', w, t) /\ w \in Workers /\ t \in Tasks
    BY Zenon, <1>3, <1>6 DEF Loses
  <2>4. Owns(queues', Q', worker)
    <3> HIDE DEF Q
    <3> QED  BY Zenon, <2>1, <2>2, <2>3, OwnsOneLess
  <2>5. worker' = worker
    OBVIOUS
  <2> QED  BY Zenon, <2>4, <2>5 DEF QueuesOwn, Owns
<1>12. StacksOwn'
  <2> DEFINE F == {u \in Tasks : stage[u] \in InFlight}
  <2>1. Enters(F, worker, F', worker', w, t)
    BY <1>3, <1>4, <1>9 DEF Enters, InFlight
  <2>2. Owns(stack, F, worker)
    BY Zenon DEF IInv, HeldExactlyOnce, StacksOwn, Owns
  <2>3. Gains(stack, stack', w, t) /\ w \in Workers /\ t \in Tasks
    BY Zenon, <1>3, <1>8 DEF Gains
  <2>4. Owns(stack', F', worker')
    <3> HIDE DEF F
    <3> QED  BY Zenon, <2>1, <2>2, <2>3, OwnsOneMore
  <2> QED  BY Zenon, <2>4 DEF StacksOwn, Owns
<1>13. StatusMatchesStage'
  BY Zenon, <1>3, <1>4, <1>9 DEF IInv, HeldExactlyOnce, StatusMatchesStage, InFlight
<1>14. CallsNameTasks'
  BY Zenon, <1>3, <1>4, <1>9 DEF IInv, CallsNameTasks
<1>15. NoLostWakeup'
  BY Zenon, <1>6, <1>8 DEF IInv, TypeOK, NoLostWakeup
<1>16. ReleasedOnce' /\ VerdictEarned'
  <2>1. ReleasedOnce'
    BY <1>3, <1>4, <1>9 DEF IInv, ReleasedOnce
  <2>2. VerdictEarned'
    BY Zenon, <1>3, <1>4, <1>9 DEF IInv, VerdictEarned
  <2> QED  BY <2>1, <2>2
<1>17. (ActiveCounts /\ IsFiniteSet(controls) /\ SlotLife /\ NoTaskStranded)'
  BY DEF IInv, ActiveCounts, SlotLife, NoTaskStranded
<1> QED  BY <1>10, <1>11, <1>12, <1>13, <1>14, <1>15, <1>16, <1>17 DEF IInv, HeldExactlyOnce

LEMMA TakeSteps ==
    ASSUME IInv,
           \/ \E w \in Workers : WorkerTake(w)
           \/ \E a \in Agents : JoinHelp(a)
    PROVE  IInv'
<1>1. ASSUME NEW w \in Workers, WorkerTake(w) PROVE IInv'
  BY SMTT(30), <1>1, TakeInv DEF WorkerTake, Looping
<1>2. ASSUME NEW a \in Agents, JoinHelp(a) PROVE IInv'
  <2>1. a \in Tasks /\ worker[a] \in Workers /\ stack[worker[a]] # <<>>
    BY SMTT(30), <1>2 DEF JoinHelp, Helping, At, OnTop, IInv, TypeOK
  <2>2. worker[a] \notin idle
    BY SMTT(30), <2>1 DEF IInv, NoLostWakeup
  <2> QED  BY SMTT(30), <1>2, <2>1, <2>2, TakeInv DEF JoinHelp
<1> QED  BY <1>1, <1>2

\* What popping the top of a worker's stack leaves.
LEMMA PopsTop ==
    ASSUME IInv, NEW t \in Tasks, OnTop(t), Pop(worker[t])
    PROVE  LET w == worker[t] IN
           /\ w \in Workers /\ stack[w] # <<>> /\ Holds(stack[w], t)
           /\ stack'[w] \in Seq(Tasks) /\ Distinct(stack'[w])
           /\ \A u : Holds(stack'[w], u) <=> Holds(stack[w], u) /\ u # t
           /\ \A v \in Workers \ {w} : stack'[v] = stack[v]
           /\ stack' \in [Workers -> Seq(Tasks)]
<1> DEFINE w == worker[t]
<1>1. /\ w \in Workers /\ stack[w] \in Seq(Tasks) /\ Distinct(stack[w])
      /\ stack[w] # <<>> /\ stack[w][Len(stack[w])] = t
  BY DEF OnTop, IInv, TypeOK, HeldExactlyOnce, StacksOwn
<1>2. Holds(stack[w], t)
  BY <1>1 DEF Holds
<1>3. stack' = [stack EXCEPT ![w] = SubSeq(stack[w], 1, Len(stack[w]) - 1)]
  BY DEF Pop
<1>4. LET p == SubSeq(stack[w], 1, Len(stack[w]) - 1) IN
      /\ p \in Seq(Tasks) /\ Distinct(p)
      /\ \A u : Holds(p, u) <=> Holds(stack[w], u) /\ u # t
  BY <1>1, PopHolds
<1> HIDE DEF w
<1>5. /\ stack'[w] \in Seq(Tasks) /\ Distinct(stack'[w])
      /\ \A u : Holds(stack'[w], u) <=> Holds(stack[w], u) /\ u # t
      /\ \A v \in Workers \ {w} : stack'[v] = stack[v]
      /\ stack' \in [Workers -> Seq(Tasks)]
  BY SMTT(30), <1>1, <1>3, <1>4 DEF IInv, TypeOK
<1> QED  BY <1>1, <1>2, <1>5 DEF w

LEMMA RequeueInv ==
    ASSUME IInv, NEW t \in Tasks, Requeue(t)
    PROVE  IInv'
<1> DEFINE w == worker[t]
<1>1. /\ w \in Workers /\ stack[w] # <<>> /\ Holds(stack[w], t)
      /\ stack'[w] \in Seq(Tasks) /\ Distinct(stack'[w])
      /\ \A u : Holds(stack'[w], u) <=> Holds(stack[w], u) /\ u # t
      /\ \A v \in Workers \ {w} : stack'[v] = stack[v]
      /\ stack' \in [Workers -> Seq(Tasks)]
  BY Zenon, PopsTop DEF Requeue
<1>2. /\ stage[t] = "pended"
      /\ stage' = [stage EXCEPT ![t] = "queued"]
      /\ due' = [due EXCEPT ![t] = FALSE]
      /\ queues' = [queues EXCEPT ![w] = Append(queues[w], t)]
      /\ idle' = idle \ {w}
      /\ UNCHANGED <<slotVars, poolVars, taskVars, cancelReq, verdict, releases,
                     cancelAck, alive, callVars>>
  BY DEF Requeue, RequeueOn, NotifyWorker
<1>3. status[t] = "Pending" /\ worker[t] = w
  BY Zenon, <1>2 DEF IInv, HeldExactlyOnce, StatusMatchesStage, InFlight
<1> HIDE DEF w
<1>4. ~Holds(queues[w], t) /\ queues[w] \in Seq(Tasks) /\ Distinct(queues[w])
  BY SMTT(30), <1>1, <1>2 DEF IInv, TypeOK, HeldExactlyOnce, QueuesOwn
<1>5. /\ queues'[w] \in Seq(Tasks) /\ Distinct(queues'[w])
      /\ \A u : Holds(queues'[w], u) <=> Holds(queues[w], u) \/ u = t
      /\ \A v \in Workers \ {w} : queues'[v] = queues[v]
      /\ queues' \in [Workers -> Seq(Tasks)]
  <2>1. /\ Append(queues[w], t) \in Seq(Tasks) /\ Distinct(Append(queues[w], t))
        /\ \A u : Holds(Append(queues[w], t), u) <=> Holds(queues[w], u) \/ u = t
    BY <1>4, AppendHolds
  <2> QED  BY <1>1, <1>2, <2>1 DEF IInv, TypeOK
<1>6. stage'[t] = "queued" /\ \A u \in Tasks : u # t => stage'[u] = stage[u]
  BY <1>2 DEF IInv, TypeOK
<1>7. TypeOK'
  BY Zenon, <1>1, <1>2, <1>5 DEF IInv, TypeOK, Stages
<1>8. QueuesOwn'
  <2> DEFINE Q == {u \in Tasks : stage[u] = "queued"}
  <2>1. Enters(Q, worker, Q', worker', w, t)
    BY Zenon, <1>2, <1>3, <1>6 DEF Enters, InFlight
  <2>2. Owns(queues, Q, worker)
    BY Zenon DEF IInv, HeldExactlyOnce, QueuesOwn, Owns
  <2>3. Gains(queues, queues', w, t) /\ w \in Workers /\ t \in Tasks
    BY Zenon, <1>1, <1>5 DEF Gains
  <2>4. Owns(queues', Q', worker')
    <3> HIDE DEF Q
    <3> QED  BY Zenon, <2>1, <2>2, <2>3, OwnsOneMore
  <2> QED  BY ZenonT(30), <2>4 DEF QueuesOwn, Owns
<1>9. StacksOwn'
  <2> DEFINE F == {u \in Tasks : stage[u] \in InFlight}
  <2>1. Leaves(F, F', worker, w, t)
    BY <1>3, <1>6 DEF Leaves, InFlight
  <2>2. Owns(stack, F, worker)
    BY Zenon DEF IInv, HeldExactlyOnce, StacksOwn, Owns
  <2>3. Loses(stack, stack', w, t) /\ w \in Workers /\ t \in Tasks
    BY Zenon, <1>1 DEF Loses
  <2>4. Owns(stack', F', worker)
    <3> HIDE DEF F
    <3> QED  BY Zenon, <2>1, <2>2, <2>3, OwnsOneLess
  <2>5. worker' = worker
    BY <1>2
  <2> QED  BY Zenon, <2>4, <2>5 DEF StacksOwn, Owns
<1>10. /\ stage[t] = "pended"
       /\ UNCHANGED <<slotVars, poolVars, taskVars, cancelReq, verdict, releases, cancelAck,
                      alive, callVars>>
  BY Zenon, <1>2
<1>11. StatusMatchesStage'
  <2> SUFFICES ASSUME NEW u \in Tasks
               PROVE  /\ status[u] = "Pending" <=> stage'[u] \in {"queued"} \cup InFlight
                      /\ status[u] \in Terminal <=> stage'[u] = "done"
    BY Zenon, <1>10 DEF StatusMatchesStage
  <2>1. CASE u = t
    BY <1>3, <1>6, <2>1 DEF Terminal
  <2>2. CASE u # t
    BY Zenon, <1>6, <2>2 DEF IInv, HeldExactlyOnce, StatusMatchesStage
  <2> QED  BY Zenon, <2>1, <2>2
<1>12. CallsNameTasks'
  <2>1. ASSUME NEW a \in Agents, apc[a] \in Submitting
        PROVE  arg[a] \in Tasks /\ stage'[arg[a]] = "submitting"
    <3>1. arg[a] \in Tasks /\ stage[arg[a]] = "submitting"
      BY ZenonT(30), <2>1 DEF IInv, CallsNameTasks
    <3>2. arg[a] # t
      BY <1>10, <3>1
    <3> QED  BY Zenon, <1>6, <3>1, <3>2
  <2> QED  BY Zenon, <1>10, <2>1 DEF IInv, CallsNameTasks
<1>13. NoLostWakeup'
  <2>1. \A v \in idle' : v \in idle /\ v \in Workers \ {w}
    BY Zenon, <1>2 DEF IInv, TypeOK
  <2>2. \A v \in idle' : queues'[v] = queues[v] /\ stack'[v] = stack[v]
    BY ZenonT(30), <1>1, <1>5, <2>1
  <2> QED  BY Zenon, <1>10, <2>1, <2>2 DEF IInv, NoLostWakeup
<1>14. ReleasedOnce'
  BY ZenonT(30), <1>6, <1>10 DEF IInv, ReleasedOnce
<1>15. VerdictEarned'
  BY <1>6, <1>10 DEF IInv, VerdictEarned
<1>16. (ActiveCounts /\ IsFiniteSet(controls) /\ SlotLife /\ NoTaskStranded)'
  BY Zenon, <1>10 DEF IInv, ActiveCounts, SlotLife, NoTaskStranded
<1> QED  BY Zenon, <1>7, <1>8, <1>9, <1>11, <1>12, <1>13, <1>14, <1>15, <1>16
         DEF IInv, HeldExactlyOnce

=============================================================================
