----------------------------- MODULE ShardActor -----------------------------
(***************************************************************************)
(* A shard of the engine (src/core/engine/shard_actor.{h,cc}): callers     *)
(* push a task under the mutex, notify the condition variable after having *)
(* released it, and block on a future; one worker thread pops and runs the *)
(* tasks; Stop clears running_, notifies and joins the worker.             *)
(*                                                                         *)
(* A critical section is one step.  A task is named by the client that     *)
(* waits for it: a caller has one call at a time.  A wait of the condition *)
(* variable may end without a notification, as the standard allows.        *)
(***************************************************************************)
EXTENDS Naturals, Sequences

CONSTANTS Clients, MaxCalls   \* MaxCalls: bound on the calls of one client

ASSUME CallsAssumption == MaxCalls \in Nat

VARIABLES
    running,   \* running_
    tasks,     \* tasks_
    worker,    \* "off", "check" (about to lock and test the predicate),
               \* "asleep" (in cv_.wait), "run" (running a task), "exited"
    task,      \* the task popped: at most one, <<>> or <<client>>
    client,    \* "idle", "notify" (pushed, not notified yet), "get" (future.get)
    ready,     \* has the promise of the client's call been set?
    stopper,   \* "idle", "notify", "join", "done": the thread that calls Stop
    calls,     \* calls each client has made
    executed   \* tasks run for each client

vars == <<running, tasks, worker, task, client, ready, stopper, calls, executed>>

Init ==
    /\ running = FALSE /\ tasks = <<>> /\ worker = "off" /\ task = <<>>
    /\ client = [c \in Clients |-> "idle"]
    /\ ready = [c \in Clients |-> FALSE]
    /\ stopper = "idle"
    /\ calls = [c \in Clients |-> 0]
    /\ executed = [c \in Clients |-> 0]

\* Start sets running_ before the thread exists.  QueueEngine::Start makes
\* and starts a shard once, before any call can reach it.
Start ==
    /\ worker = "off" /\ stopper = "idle"
    /\ running' = TRUE
    /\ worker' = "check"
    /\ UNCHANGED <<tasks, task, client, ready, stopper, calls, executed>>

\* Submit and SubmitValue, up to the unlock.
Push(c) ==
    /\ worker # "off" /\ stopper # "done"
    /\ client[c] = "idle" /\ calls[c] < MaxCalls
    /\ tasks' = Append(tasks, c)
    /\ client' = [client EXCEPT ![c] = "notify"]
    /\ ready' = [ready EXCEPT ![c] = FALSE]
    /\ calls' = [calls EXCEPT ![c] = @ + 1]
    /\ UNCHANGED <<running, worker, task, stopper, executed>>

Woken == IF worker = "asleep" THEN "check" ELSE worker

NotifyOne(c) ==
    /\ client[c] = "notify"
    /\ client' = [client EXCEPT ![c] = "get"]
    /\ worker' = Woken
    /\ UNCHANGED <<running, tasks, task, ready, stopper, calls, executed>>

FutureGet(c) ==
    /\ client[c] = "get" /\ ready[c]
    /\ client' = [client EXCEPT ![c] = "idle"]
    /\ UNCHANGED <<running, tasks, worker, task, ready, stopper, calls, executed>>

\* Mutant: the worker leaves when it is told to stop, tasks or not.
LeavesAtOnce == ~running
\* `if (!running_ && tasks_.empty()) return`
Leaves == ~running /\ tasks = <<>>

\* Mutant: back() instead of front().
NextTaskBack == tasks[Len(tasks)]
\* tasks_.front()
NextTask == Head(tasks)

\* the predicate of cv_.wait
Predicate == ~running \/ tasks # <<>>

\* The worker holds the mutex: it leaves, takes the oldest task, or waits.
WorkerCheck ==
    /\ worker = "check"
    /\ \/ /\ Predicate /\ Leaves
          /\ worker' = "exited"
          /\ UNCHANGED <<tasks, task>>
       \/ /\ Predicate /\ ~Leaves
          /\ worker' = "run"
          /\ task' = <<NextTask>>
          /\ tasks' = Tail(tasks)
       \/ /\ ~Predicate
          /\ worker' = "asleep"
          /\ UNCHANGED <<tasks, task>>
    /\ UNCHANGED <<running, client, ready, stopper, calls, executed>>

SpuriousWakeup ==
    /\ worker = "asleep"
    /\ worker' = "check"
    /\ UNCHANGED <<running, tasks, task, client, ready, stopper, calls, executed>>

\* task(): the call runs and its promise is set, outside the mutex.
RunTask ==
    /\ worker = "run"
    /\ executed' = [executed EXCEPT ![task[1]] = @ + 1]
    /\ ready' = [ready EXCEPT ![task[1]] = TRUE]
    /\ task' = <<>>
    /\ worker' = "check"
    /\ UNCHANGED <<running, tasks, client, stopper, calls>>

StopFlag ==
    /\ worker # "off" /\ stopper = "idle"
    /\ running' = FALSE
    /\ stopper' = "notify"
    /\ UNCHANGED <<tasks, worker, task, client, ready, calls, executed>>

\* Mutant: Stop does not notify.
StopNotifySilent ==
    /\ stopper = "notify"
    /\ stopper' = "join"
    /\ UNCHANGED <<running, tasks, worker, task, client, ready, calls, executed>>

StopNotify ==
    /\ stopper = "notify"
    /\ stopper' = "join"
    /\ worker' = Woken
    /\ UNCHANGED <<running, tasks, task, client, ready, calls, executed>>

StopJoin ==
    /\ stopper = "join" /\ worker = "exited"
    /\ stopper' = "done"
    /\ UNCHANGED <<running, tasks, worker, task, client, ready, calls, executed>>

WorkerStep == WorkerCheck \/ RunTask
StopStep == StopNotify \/ StopJoin
ClientStep(c) == NotifyOne(c) \/ FutureGet(c)

Next ==
    \/ Start \/ SpuriousWakeup \/ WorkerStep \/ StopFlag \/ StopStep
    \/ \E c \in Clients : Push(c) \/ ClientStep(c)

\* Threads that can run do: the worker and, once in a call, its callers.
\* Nobody has to call, to stop the shard or to be woken without a cause.
Spec ==
    /\ Init /\ [][Next]_vars
    /\ WF_vars(WorkerStep) /\ WF_vars(StopStep)
    /\ \A c \in Clients : WF_vars(ClientStep(c))

-----------------------------------------------------------------------------
(* Properties.                                                             *)

\* The types; the worker holds a task exactly while it runs one.
TypeOK ==
    /\ running \in BOOLEAN
    /\ tasks \in Seq(Clients)
    /\ worker \in {"off", "check", "asleep", "run", "exited"}
    /\ task \in Seq(Clients)
    /\ worker = "run" => Len(task) = 1
    /\ worker # "run" => task = <<>>
    /\ client \in [Clients -> {"idle", "notify", "get"}]
    /\ ready \in [Clients -> BOOLEAN]
    /\ stopper \in {"idle", "notify", "join", "done"}
    /\ calls \in [Clients -> Nat]
    /\ executed \in [Clients -> Nat]

\* The wait of RunLoop misses no wakeup although Submit and Stop notify
\* after they have unlocked: a worker asleep with something to do is about
\* to be notified by the thread that gave it to do.
NoLostWakeup ==
    worker = "asleep" =>
        /\ tasks # <<>> => \E c \in Clients : client[c] = "notify"
        /\ ~running => stopper = "notify"

\* A caller gets its answer exactly when its own task has been run: once per
\* call, and never before.
AnswersMatch ==
    \A c \in Clients :
        /\ client[c] = "idle" => executed[c] = calls[c]
        /\ client[c] # "idle" =>
              executed[c] = IF ready[c] THEN calls[c] ELSE calls[c] - 1

\* Every queued task belongs to a caller that waits for it, and to it alone.
QueueInv ==
    /\ \A i \in 1 .. Len(tasks) : client[tasks[i]] # "idle" /\ ~ready[tasks[i]]
    /\ \A i, j \in 1 .. Len(tasks) : tasks[i] = tasks[j] => i = j
    /\ worker = "run" =>
          /\ client[task[1]] # "idle" /\ ~ready[task[1]]
          /\ \A i \in 1 .. Len(tasks) : tasks[i] # task[1]

Pending(c) == \E i \in 1 .. Len(tasks) : tasks[i] = c

\* Stop drains the shard: a task queued before the worker has left is run,
\* and its caller gets its answer.
QueuedAnswered ==
    \A c \in Clients : (Pending(c) /\ worker # "exited") ~> (client[c] = "idle")

\* Stop returns: the join does not wait for a worker nobody wakes.
StopReturns == stopper = "notify" ~> stopper = "done"

\* The shard is a serial executor; a task being run is still at the head of
\* the abstract queue.
Serial == INSTANCE SerialExecutor WITH queue <- task \o tasks

SerialSpec == Serial!Spec
=============================================================================
