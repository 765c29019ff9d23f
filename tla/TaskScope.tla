----------------------------- MODULE TaskScope -----------------------------
(***************************************************************************)
(* Structured task scopes (runtime/src/async_runtime/task_scope.rs) on top  *)
(* of the executor.  A program is a tree: Parent[t] submits frame t, either *)
(* detached (spawn_task) or into its task scope (scope_spawn); leaving the  *)
(* scope joins its children, leaving it early cancels them first.  Each     *)
(* agent opens at most one scope, which is named after it.  The program     *)
(* enables the executor before its first submission and does not shut it    *)
(* down.                                                                    *)
(***************************************************************************)
EXTENDS Executor

CONSTANTS
    Parent,        \* Parent[t]: the agent that submits t
    Detached,      \* the tasks submitted with spawn_task, not into a scope
    Shared,        \* scope ids are used by agents other than the owner
    AwaitInScope,  \* detached tasks may await with their scope open
    MayPanic       \* polls may panic

ASSUME ProgramAssumption ==
    Parent \in [Tasks -> Agents] /\ Detached \subseteq Tasks

VARIABLES
    scopeState,  \* TASK_SCOPES: "unopened", "open", "closing" or "gone"
    children,    \* of a registered scope, then of the call that closes it
    inFlight,
    spc,         \* where an agent is inside the scope API
    target,      \* the scope it is working on
    offer,       \* the frame it is submitting
    early,       \* close_scope's `cancel`
    todo,        \* children the current loop of close_scope has not reached
    summary,     \* close_scope's result so far, "Pending" before it has one
    inScope      \* the scope that took a frame in, a history variable

scopeVars == <<scopeState, children, inFlight, spc, target, offer, early, todo,
               summary, inScope>>
allVars == <<vars, scopeVars>>

ScopeStates == {"unopened", "open", "closing", "gone"}
ScopeCalls == {"none", "spawning", "settling", "woken", "canceling", "joining", "joined"}

ScopeInit ==
    /\ Init
    /\ scopeState = [s \in Agents |-> "unopened"]
    /\ children = [s \in Agents |-> <<>>]
    /\ inFlight = [s \in Agents |-> 0]
    /\ spc = [a \in Agents |-> "none"]
    /\ target = [a \in Agents |-> None]
    /\ offer = [a \in Agents |-> None]
    /\ early = [a \in Agents |-> FALSE]
    /\ todo = [a \in Agents |-> <<>>]
    /\ summary = [s \in Agents |-> "Pending"]
    /\ inScope = [t \in Tasks |-> None]

\* Agent a runs user code, outside of every runtime call.
InUserCode(a) == At(a, "user") /\ spc[a] = "none"

\* The type checker keeps a scope with its owner; the C interface does not.
MayUse(a, s) == Shared \/ a = s

\* A frame is submitted by its parent; with Shared, by whoever holds the scope.
MaySubmit(a, s, t) == MayUse(a, s) /\ Parent[t] \in {a, s} /\ t \notin Detached

-----------------------------------------------------------------------------
ScopeNew(a) ==
    /\ InUserCode(a)
    /\ \E t \in Tasks \ Detached : Parent[t] = a
    /\ scopeState[a] = "unopened"
    /\ scopeState' = [scopeState EXCEPT ![a] = "open"]
    /\ UNCHANGED <<vars, children, inFlight, spc, target, offer, early, todo, summary,
                   inScope>>

\* Faulty variant: a submission in flight is not counted.
BadCounted(s) == UNCHANGED inFlight

Counted(s) == inFlight' = [inFlight EXCEPT ![s] = @ + 1]

\* The in-flight count keeps close_scope from removing the scope while
\* sengoo_async_spawn_task_raw runs outside the registry lock.
ScopeSpawn(a, s, t) ==
    /\ slot
    /\ InUserCode(a) /\ MaySubmit(a, s, t)
    /\ scopeState[s] = "open"
    /\ Counted(s)
    /\ spc' = [spc EXCEPT ![a] = "spawning"]
    /\ target' = [target EXCEPT ![a] = s]
    /\ offer' = [offer EXCEPT ![a] = t]
    /\ inScope' = [inScope EXCEPT ![t] = s]
    /\ CallSpawn(a, t)
    /\ UNCHANGED <<scopeState, children, early, todo, summary>>

\* A missing or closing scope releases the frame and returns 0.
ScopeSpawnRefused(a, s, t) ==
    /\ InUserCode(a) /\ MaySubmit(a, s, t)
    /\ scopeState[s] \in {"closing", "gone"}
    /\ stage[t] = "fresh"
    /\ stage' = [stage EXCEPT ![t] = "rejected"]
    /\ releases' = [releases EXCEPT ![t] = @ + 1]
    /\ UNCHANGED <<executorVars, verdict, callVars, scopeVars>>

\* Faulty variant: nobody is notified.
BadNotified(b) == spc[b]

\* scope_changed.notify_all; closers of every scope wait on the same variable.
Notified(b) == IF spc[b] = "settling" THEN "woken" ELSE spc[b]

\* The last submission in flight notifies.
ScopeSpawned(a) ==
    LET s == target[a] IN
    /\ At(a, "user") /\ spc[a] = "spawning"
    /\ inFlight' = [inFlight EXCEPT ![s] = @ - 1]
    /\ children' = [children EXCEPT ![s] =
                        IF status[offer[a]] # "Unknown" THEN Append(@, offer[a]) ELSE @]
    /\ spc' = [b \in Agents |-> IF b = a THEN "none"
                               ELSE IF inFlight'[s] = 0 THEN Notified(b) ELSE spc[b]]
    /\ target' = [target EXCEPT ![a] = None]
    /\ offer' = [offer EXCEPT ![a] = None]
    /\ UNCHANGED <<vars, scopeState, early, todo, summary, inScope>>

\* Faulty variant: close_scope does not wait for submissions in flight.
BadSpawnsSettled(s) == TRUE

SpawnsSettled(s) == inFlight[s] = 0

\* close_scope under the registry lock: it removes the scope, or releases the
\* lock and waits for scope_changed, without a timeout.
RemoveOrWait(a, s, cancel) ==
    \/ /\ SpawnsSettled(s)
       /\ scopeState' = [scopeState EXCEPT ![s] = "gone"]
       /\ spc' = [spc EXCEPT ![a] = IF cancel THEN "canceling" ELSE "joining"]
       /\ todo' = [todo EXCEPT ![a] = children[s]]
       /\ summary' = [summary EXCEPT ![s] = IF cancel THEN "Canceled" ELSE "Completed"]
    \/ /\ ~SpawnsSettled(s)
       /\ scopeState' = [scopeState EXCEPT ![s] = "closing"]
       /\ spc' = [spc EXCEPT ![a] = "settling"]
       /\ UNCHANGED <<todo, summary>>

\* close_scope on a missing or closing scope has no effect.
ScopeClose(a, s, cancel) ==
    /\ InUserCode(a) /\ MayUse(a, s)
    /\ scopeState[s] = "open"
    /\ target' = [target EXCEPT ![a] = s]
    /\ early' = [early EXCEPT ![a] = cancel]
    /\ RemoveOrWait(a, s, cancel)
    /\ UNCHANGED <<vars, children, inFlight, offer, inScope>>

\* The wait returns and the condition is checked again.
ScopeWoken(a) ==
    /\ At(a, "user") /\ spc[a] = "woken"
    /\ RemoveOrWait(a, target[a], early[a])
    /\ UNCHANGED <<vars, children, inFlight, target, offer, early, inScope>>

ScopeCancelChild(a) ==
    /\ At(a, "user") /\ spc[a] = "canceling"
    /\ \/ /\ todo[a] # <<>>
          /\ CallCancel(a, Head(todo[a]))
          /\ todo' = [todo EXCEPT ![a] = Tail(@)]
          /\ UNCHANGED spc
       \/ /\ todo[a] = <<>>
          /\ todo' = [todo EXCEPT ![a] = children[target[a]]]
          /\ spc' = [spc EXCEPT ![a] = "joining"]
          /\ UNCHANGED vars
    /\ UNCHANGED <<scopeState, children, inFlight, target, offer, early, summary, inScope>>

\* After the last child the call returns, and nothing of the scope is left.
ScopeJoinChild(a) ==
    /\ At(a, "user") /\ spc[a] = "joining"
    /\ \/ /\ todo[a] # <<>>
          /\ CallJoin(a, Head(todo[a]))
          /\ spc' = [spc EXCEPT ![a] = "joined"]
          /\ UNCHANGED <<target, early, children, summary>>
       \/ /\ todo[a] = <<>>
          /\ spc' = [spc EXCEPT ![a] = "none"]
          /\ target' = [target EXCEPT ![a] = None]
          /\ early' = [early EXCEPT ![a] = FALSE]
          /\ children' = [children EXCEPT ![target[a]] = <<>>]
          /\ summary' = [summary EXCEPT ![target[a]] = "Pending"]
          /\ UNCHANGED vars
    /\ UNCHANGED <<scopeState, inFlight, offer, todo, inScope>>

\* Faulty variant: the summary is the status of the last child.
BadFolded(sum, cancel, st) == st

\* One more child's status goes into the summary.
Folded(sum, cancel, st) ==
    CASE st = "Failed" -> "Failed"
      [] ~cancel /\ st = "Canceled" -> "Canceled"
      [] st = "Unknown" -> "Unknown"
      [] OTHER -> sum

ScopeJoined(a) ==
    LET s == target[a] IN
    /\ At(a, "user") /\ spc[a] = "joined"
    /\ summary' = [summary EXCEPT ![s] = Folded(@, early[a], status[Head(todo[a])])]
    /\ todo' = [todo EXCEPT ![a] = Tail(@)]
    /\ spc' = [spc EXCEPT ![a] = "joining"]
    /\ UNCHANGED <<vars, scopeState, children, inFlight, target, offer, early, inScope>>

-----------------------------------------------------------------------------
(***************************************************************************)
(* What user code does apart from the scope calls.  The compiler closes a   *)
(* scope on every way out of its block, and refuses to let a future that    *)
(* may be canceled hold a scope across an await                             *)
(* (compiler/src/mir/async_ownership_helpers.rs).                           *)
(***************************************************************************)
SpawnTask(a, t) ==
    /\ slot
    /\ InUserCode(a) /\ Parent[t] = a /\ t \in Detached
    /\ CallSpawn(a, t)
    /\ UNCHANGED scopeVars

Complete(t) ==
    /\ InUserCode(t) /\ scopeState[t] # "open"
    /\ PollComplete(t)
    /\ UNCHANGED scopeVars

Panic(t) ==
    /\ MayPanic
    /\ InUserCode(t) /\ scopeState[t] # "open"
    /\ PollPanic(t)
    /\ UNCHANGED scopeVars

Await(t) ==
    /\ InUserCode(t)
    /\ scopeState[t] = "open" => AwaitInScope /\ t \in Detached
    /\ PollPending(t)
    /\ UNCHANGED scopeVars

ScopeStep(a) ==
    ScopeSpawned(a) \/ ScopeWoken(a) \/ ScopeCancelChild(a) \/ ScopeJoinChild(a)
    \/ ScopeJoined(a)

ExecutorStep ==
    /\ \/ \E a \in Agents : AgentStep(a)
       \/ \E c \in Clients : Enable(c)
       \/ \E w \in Workers : WorkerStep(w)
       \/ \E t \in Tasks : FrameStep(t) \/ DeadlinePasses(t)
    /\ UNCHANGED scopeVars

ScopeNext ==
    \/ ExecutorStep
    \/ \E a \in Agents : ScopeNew(a) \/ ScopeStep(a)
    \/ \E a, s \in Agents, t \in Tasks : ScopeSpawn(a, s, t) \/ ScopeSpawnRefused(a, s, t)
    \/ \E a, s \in Agents, cancel \in BOOLEAN : ScopeClose(a, s, cancel)
    \/ \E a \in Agents, t \in Tasks : SpawnTask(a, t)
    \/ \E t \in Tasks : Complete(t) \/ Panic(t) \/ Await(t)

ScopeSpec == ScopeInit /\ [][ScopeNext]_allVars

(***************************************************************************)
(* Threads run, deadlines pass, futures complete, and user code that has    *)
(* opened a scope gets to the end of its block.                             *)
(***************************************************************************)
ThreadStep(w) ==
    \/ WorkerStep(w) /\ UNCHANGED scopeVars
    \/ \E t \in Tasks :
          /\ worker[t] = w
          /\ ((FrameStep(t) \/ AgentStep(t)) /\ UNCHANGED scopeVars) \/ ScopeStep(t)

ClientStep(c) == (AgentStep(c) /\ UNCHANGED scopeVars) \/ ScopeStep(c)

LeaveScope(a) == \E cancel \in BOOLEAN : ScopeClose(a, a, cancel)

ScopeFairness ==
    /\ \A w \in Workers : WF_allVars(ThreadStep(w))
    /\ \A c \in Clients : WF_allVars(ClientStep(c))
    /\ \A t \in Tasks : WF_allVars(DeadlinePasses(t) /\ UNCHANGED scopeVars)
    /\ \A t \in Tasks : SF_allVars(Complete(t) \/ LeaveScope(t))

FairScopeSpec == ScopeSpec /\ ScopeFairness

-----------------------------------------------------------------------------
ScopeTypeOK ==
    /\ TypeOK
    /\ scopeState \in [Agents -> ScopeStates]
    /\ children \in [Agents -> Seq(Tasks)] /\ inFlight \in [Agents -> Nat]
    /\ spc \in [Agents -> ScopeCalls]
    /\ target \in [Agents -> Agents \cup {None}]
    /\ offer \in [Agents -> Tasks \cup {None}]
    /\ early \in [Agents -> BOOLEAN] /\ todo \in [Agents -> Seq(Tasks)]
    /\ summary \in [Agents -> TaskStatus]
    /\ inScope \in [Tasks -> Agents \cup {None}]

\* Somebody is still inside close_scope for s.
Closing(s) == \E a \in Agents : target[a] = s /\ spc[a] # "spawning"

\* Once the call that closes a scope has returned, every child the executor
\* accepted for it has finished and been released, even when a scope_spawn
\* races with the close: no child escapes its scope.
NoChildEscapes ==
    \A t \in Tasks :
        LET s == inScope[t] IN
        (s # None /\ scopeState[s] = "gone" /\ ~Closing(s) /\ status[t] # "Unknown")
            => status[t] \in Terminal /\ releases[t] = 1

\* The scope a submission is in flight for is still registered when
\* sengoo_async_spawn_task_raw returns (the debug_assert of
\* sengoo_async_task_scope_spawn_raw), the count is exact, and no closer waits
\* on scope_changed, which only a submission that ends notifies, for a scope
\* with none left in flight.
InFlightScopeStays ==
    /\ \A s \in Agents :
          /\ inFlight[s] = Cardinality({a \in Agents : spc[a] = "spawning" /\ target[a] = s})
          /\ inFlight[s] > 0 => scopeState[s] \in {"open", "closing"}
    /\ \A a \in Agents : spc[a] = "settling" => inFlight[target[a]] > 0

\* What close_scope is about to return does not present a failure as success: a
\* join that reports completed had only completed children, and a cancel_join
\* that reports canceled had no failed and no unknown one.  A join may still
\* report the canceled child that follows a failed one.
SummaryHonest ==
    \A a \in Agents :
        LET s == target[a]
            reported(S) == \A i \in 1 .. Len(children[s]) : status[children[s][i]] \in S
        IN  spc[a] = "joining" /\ todo[a] = <<>> =>
                /\ summary[s] = "Completed" => reported({"Completed"})
                /\ early[a] /\ summary[s] = "Canceled" => reported({"Completed", "Canceled"})

\* a is inside close_scope.
InClose(a) == spc[a] \notin {"none", "spawning"}

\* What the documentation says of nested scopes: closing a scope, which joins
\* its children, returns.
ScopeCloses == \A a \in Agents : InClose(a) ~> spc[a] = "none"

\* Some poll waits for itself, or for a poll below it on its worker's stack.
JoinsBelow ==
    \E w \in Workers : \E i, j \in 1 .. Len(stack[w]) :
        /\ i <= j
        /\ apc[stack[w][j]] \in {"joining", "joinWait"}
        /\ arg[stack[w][j]] = stack[w][i]

\* Some task closes a scope that is not its own.
ClosesForeignScope == \E t \in Tasks : InClose(t) /\ target[t] # t

\* Some task is polled on top of its own child's poll: the child began before,
\* so the task has awaited with its scope open.
ResumedOverChild ==
    \E w \in Workers : \E i, j \in 1 .. Len(stack[w]) :
        i < j /\ inScope[stack[w][i]] = stack[w][j]

\* With one worker, helping joins (help_join_on_worker) and scope_changed make
\* every close_scope return, in programs in which a task closes no scope but
\* its own and awaits nothing while that is open.  In other programs the one
\* thing that can prevent it is a join of a poll further down the same stack.
ScopeClosesOrCircular ==
    \A a \in Agents :
        InClose(a) ~>
            (spc[a] = "none" \/ (JoinsBelow /\ (ClosesForeignScope \/ ResumedOverChild)))

=============================================================================
