------------------------- MODULE ShardActor_proofs -------------------------
(***************************************************************************)
(* Proofs about ShardActor, for any set of callers and any number of       *)
(* calls: the condition variable misses no wakeup, answers go to the right *)
(* callers, and the shard implements SerialExecutor.                       *)
(***************************************************************************)
EXTENDS ShardActor, SequenceTheorems, TLAPS

SafetySpec == Init /\ [][Next]_vars

LEMMA FairIsSafe == Spec => SafetySpec
BY PTL DEF Spec, SafetySpec

Inv == TypeOK /\ QueueInv /\ NoLostWakeup /\ AnswersMatch

LEMMA InitInv == Init => Inv
<1> SUFFICES ASSUME Init PROVE Inv
  OBVIOUS
<1>1. TypeOK
  <2>1. tasks \in Seq(Clients) /\ task = <<>> /\ task \in Seq(Clients)
    BY DEF Init
  <2>2. /\ running \in BOOLEAN /\ worker = "off" /\ stopper = "idle"
        /\ client \in [Clients -> {"idle", "notify", "get"}]
        /\ ready \in [Clients -> BOOLEAN]
        /\ calls \in [Clients -> Nat] /\ executed \in [Clients -> Nat]
    BY DEF Init
  <2> QED
    BY <2>1, <2>2 DEF TypeOK
<1>2. QueueInv
  <2>1. Len(tasks) = 0 /\ worker # "run"
    BY DEF Init
  <2>2. \A i \in 1 .. Len(tasks) : FALSE
    BY <2>1
  <2> QED
    BY <2>1, <2>2 DEF QueueInv
<1>3. NoLostWakeup
  BY DEF Init, NoLostWakeup
<1>4. AnswersMatch
  BY DEF Init, AnswersMatch
<1> QED
  BY <1>1, <1>2, <1>3, <1>4 DEF Inv

\* A running worker holds the task of one caller.
LEMMA OneTask ==
  ASSUME TypeOK, worker = "run"
  PROVE  task[1] \in Clients /\ task = <<task[1]>>
<1>1. task \in Seq(Clients) /\ Len(task) = 1
  BY DEF TypeOK
<1>2. 1 \in 1 .. Len(task)
  BY <1>1
<1>3. task[1] \in Clients
  BY <1>1, <1>2, ElementOfSeq
<1>4. task = <<task[1]>>
  <2>1. /\ <<task[1]>> \in Seq(Clients) /\ Len(<<task[1]>>) = Len(task)
        /\ \A i \in 1 .. Len(task) : task[i] = <<task[1]>>[i]
    BY <1>1, <1>3
  <2> QED
    BY <1>1, <2>1, SeqEqual
<1> QED
  BY <1>3, <1>4

LEMMA PushInv == ASSUME Inv, NEW c \in Clients, Push(c) PROVE Inv'
<1> USE DEF Inv
<1>1. /\ tasks \in Seq(Clients) /\ tasks' = Append(tasks, c)
      /\ \A i \in 1 .. Len(tasks) : tasks[i] # c
      /\ worker = "run" => task[1] # c
  BY DEF Push, TypeOK, QueueInv
<1>2. /\ Len(tasks) \in Nat /\ Len(tasks') = Len(tasks) + 1
      /\ \A i \in 1 .. Len(tasks) : tasks'[i] = tasks[i] /\ tasks[i] \in Clients
      /\ tasks'[Len(tasks) + 1] = c
  BY <1>1
<1>3. TypeOK'
  BY <1>1 DEF Push, TypeOK
<1>4. QueueInv'
  <2>1. \A i \in 1 .. Len(tasks') : i \in 1 .. Len(tasks) \/ i = Len(tasks) + 1
    BY <1>2
  <2>2. \A i \in 1 .. Len(tasks') : client'[tasks'[i]] # "idle" /\ ~ready'[tasks'[i]]
    BY <1>1, <1>2, <2>1 DEF Push, TypeOK, QueueInv
  <2>3. \A i, j \in 1 .. Len(tasks') : tasks'[i] = tasks'[j] => i = j
    BY <1>1, <1>2, <2>1 DEF QueueInv
  <2>4. worker' = "run" =>
           /\ client'[task'[1]] # "idle" /\ ~ready'[task'[1]]
           /\ \A i \in 1 .. Len(tasks') : tasks'[i] # task'[1]
    BY <1>1, <1>2, <2>1 DEF Push, TypeOK, QueueInv
  <2> QED
    BY <2>2, <2>3, <2>4 DEF QueueInv
<1>5. NoLostWakeup'
  BY DEF Push, TypeOK, NoLostWakeup
<1>6. AnswersMatch'
  BY DEF Push, TypeOK, AnswersMatch
<1> QED
  BY <1>3, <1>4, <1>5, <1>6

LEMMA WorkerCheckInv == ASSUME Inv, WorkerCheck PROVE Inv'
<1> USE DEF Inv
<1>1. CASE worker' = "exited" /\ UNCHANGED <<tasks, task>>
  BY <1>1 DEF WorkerCheck, TypeOK, QueueInv, NoLostWakeup, AnswersMatch
<1>2. CASE ~Predicate /\ worker' = "asleep" /\ UNCHANGED <<tasks, task>>
  BY <1>2 DEF WorkerCheck, Predicate, TypeOK, QueueInv, NoLostWakeup, AnswersMatch
<1>3. CASE /\ Predicate /\ ~Leaves /\ worker' = "run"
           /\ task' = <<NextTask>> /\ tasks' = Tail(tasks)
  <2>1. tasks \in Seq(Clients) /\ tasks # <<>>
    BY <1>3 DEF Predicate, Leaves, TypeOK
  <2>2. /\ Head(tasks) = tasks[1] /\ 1 \in 1 .. Len(tasks) /\ tasks[1] \in Clients
        /\ tasks' \in Seq(Clients) /\ Len(tasks') = Len(tasks) - 1
        /\ \A i \in 1 .. Len(tasks') : tasks'[i] = tasks[i + 1] /\ i + 1 \in 1 .. Len(tasks)
    BY <1>3, <2>1
  <2>3. task' = <<tasks[1]>> /\ task'[1] = tasks[1] /\ task' \in Seq(Clients) /\ Len(task') = 1
    BY <1>3, <2>2 DEF NextTask
  <2>4. UNCHANGED <<running, client, ready, stopper, calls, executed>>
    BY DEF WorkerCheck
  <2>5. TypeOK'
    BY <1>3, <2>2, <2>3, <2>4 DEF TypeOK
  <2>6. \A i \in 1 .. Len(tasks') : tasks'[i] # tasks[1]
    BY <2>2 DEF QueueInv
  <2>7. \A i, j \in 1 .. Len(tasks') : tasks'[i] = tasks'[j] => i = j
    BY <2>2 DEF QueueInv
  <2>8. QueueInv'
    BY <2>2, <2>3, <2>4, <2>6, <2>7 DEF QueueInv
  <2> QED
    BY <1>3, <2>4, <2>5, <2>8 DEF NoLostWakeup, AnswersMatch
<1> QED
  BY <1>1, <1>2, <1>3 DEF WorkerCheck

LEMMA RunTaskInv == ASSUME Inv, RunTask PROVE Inv'
<1> USE DEF Inv
<1> DEFINE c == task[1]
<1>1. c \in Clients /\ client[c] # "idle" /\ ~ready[c]
      /\ \A i \in 1 .. Len(tasks) : tasks[i] # c /\ tasks[i] \in Clients
  <2>1. \A i \in 1 .. Len(tasks) : tasks[i] \in Clients
    BY ElementOfSeq DEF TypeOK
  <2> QED
    BY <2>1, OneTask DEF RunTask, QueueInv
<1> HIDE DEF c
<1>2. /\ executed' = [executed EXCEPT ![c] = @ + 1]
      /\ ready' = [ready EXCEPT ![c] = TRUE]
      /\ task' = <<>> /\ worker' = "check"
      /\ UNCHANGED <<running, tasks, client, stopper, calls>>
  BY DEF RunTask, c
<1>3. TypeOK'
  BY <1>1, <1>2 DEF TypeOK
<1>4. QueueInv'
  BY <1>1, <1>2 DEF TypeOK, QueueInv
<1>5. AnswersMatch'
  BY <1>1, <1>2 DEF TypeOK, AnswersMatch
<1> QED
  BY <1>2, <1>3, <1>4, <1>5 DEF NoLostWakeup

LEMMA OtherInv ==
  ASSUME Inv,
         \/ Start \/ SpuriousWakeup \/ StopFlag \/ StopNotify \/ StopJoin
         \/ \E c \in Clients : NotifyOne(c) \/ FutureGet(c)
         \/ UNCHANGED vars
  PROVE  Inv'
<1> USE DEF Inv
<1>1. TypeOK'
  BY DEF TypeOK, Start, SpuriousWakeup, StopFlag, StopNotify, StopJoin, NotifyOne,
         FutureGet, Woken, vars
<1>2. QueueInv'
  <2>1. ASSUME NEW c \in Clients, FutureGet(c) PROVE QueueInv'
    <3>1. ready[c] /\ \A i \in 1 .. Len(tasks) : tasks[i] # c /\ tasks[i] \in Clients
      BY <2>1 DEF FutureGet, QueueInv, TypeOK
    <3>2. worker = "run" => task[1] \in Clients /\ task[1] # c
      BY <2>1, OneTask DEF FutureGet, QueueInv
    <3> QED
      BY <2>1, <3>1, <3>2 DEF FutureGet, QueueInv, TypeOK
  <2>2. ASSUME NEW c \in Clients, NotifyOne(c) PROVE QueueInv'
    <3>1. \A d \in Clients : client[d] # "idle" => client'[d] # "idle"
      BY <2>2 DEF NotifyOne, TypeOK
    <3>2. worker' = "run" => worker = "run" /\ task[1] \in Clients
      BY <2>2 DEF NotifyOne, Woken, TypeOK
    <3> QED
      BY <2>2, <3>1, <3>2 DEF NotifyOne, QueueInv, TypeOK
  <2>3. CASE Start \/ SpuriousWakeup \/ StopFlag \/ StopNotify \/ StopJoin \/ UNCHANGED vars
    BY <2>3 DEF QueueInv, Start, SpuriousWakeup, StopFlag, StopNotify, StopJoin, Woken, vars
  <2> QED
    BY <2>1, <2>2, <2>3
<1>3. NoLostWakeup'
  BY DEF TypeOK, NoLostWakeup, Start, SpuriousWakeup, StopFlag, StopNotify, StopJoin,
         NotifyOne, FutureGet, Woken, vars
<1>4. AnswersMatch'
  BY DEF TypeOK, AnswersMatch, Start, SpuriousWakeup, StopFlag, StopNotify, StopJoin,
         NotifyOne, FutureGet, vars
<1> QED
  BY <1>1, <1>2, <1>3, <1>4

LEMMA NextInv == ASSUME Inv, [Next]_vars PROVE Inv'
BY PushInv, WorkerCheckInv, RunTaskInv, OtherInv
   DEF Next, WorkerStep, StopStep, ClientStep

LEMMA InvHolds == SafetySpec => []Inv
<1>1. Inv /\ [Next]_vars => Inv'
  BY NextInv
<1> QED
  BY InitInv, <1>1, PTL DEF SafetySpec

\* The worker never sleeps through a task or a stop: RunLoop's wait misses
\* no wakeup though Submit and Stop notify after unlocking.
THEOREM WakeupsKept == Spec => []NoLostWakeup
<1>1. Inv => NoLostWakeup
  BY DEF Inv
<1> QED
  BY InvHolds, FairIsSafe, <1>1, PTL

\* A call returns only after its own task has run, and it runs once.
THEOREM AnswersCorrect == Spec => []AnswersMatch
<1>1. Inv => AnswersMatch
  BY DEF Inv
<1> QED
  BY InvHolds, FairIsSafe, <1>1, PTL

-----------------------------------------------------------------------------
(* Refinement: the abstract queue is the running task and the queued ones. *)

abstract == task \o tasks

LEMMA SerialInit == Init => Serial!Init
BY DEF Init, Serial!Init

LEMMA PushSerial ==
  ASSUME Inv, NEW c \in Clients, Push(c)
  PROVE  Serial!Call(c)
<1>1. tasks \in Seq(Clients) /\ task \in Seq(Clients)
      /\ tasks' = Append(tasks, c) /\ task' = task /\ executed' = executed
  BY DEF Inv, TypeOK, Push
<1>2. \A i \in 1 .. Len(tasks) : tasks[i] # c
  BY DEF Inv, QueueInv, Push
<1>3. \A i \in 1 .. Len(task) : task[i] # c
  BY <1>1 DEF Inv, TypeOK, QueueInv, Push
<1>4. \A i \in 1 .. Len(abstract) : abstract[i] # c
  <2>1. /\ Len(abstract) = Len(task) + Len(tasks)
        /\ \A i \in 1 .. Len(abstract) :
              abstract[i] = IF i <= Len(task) THEN task[i] ELSE tasks[i - Len(task)]
    BY <1>1, ConcatProperties DEF abstract
  <2> QED
    BY <1>1, <1>2, <1>3, <2>1
<1>5. abstract' = Append(abstract, c)
  BY <1>1 DEF abstract
<1> QED
  BY <1>1, <1>4, <1>5 DEF abstract, Serial!Call

LEMMA RunTaskSerial ==
  ASSUME Inv, RunTask
  PROVE  Serial!Execute
<1> DEFINE c == task[1]
<1>1. /\ tasks \in Seq(Clients) /\ task \in Seq(Clients) /\ Len(task) = 1
      /\ c \in Clients /\ task = <<c>>
  BY OneTask DEF Inv, TypeOK, RunTask
<1>2. task' = <<>> /\ tasks' = tasks /\ executed' = [executed EXCEPT ![c] = @ + 1]
  BY DEF RunTask
<1> HIDE DEF c
<1>3. abstract # <<>> /\ Head(abstract) = c /\ Tail(abstract) = tasks
  BY <1>1 DEF abstract
<1>4. abstract' = tasks
  BY <1>1, <1>2 DEF abstract
<1> QED
  BY <1>2, <1>3, <1>4 DEF abstract, Serial!Execute

LEMMA PopSerial ==
  ASSUME Inv, WorkerCheck
  PROVE  abstract' = abstract /\ executed' = executed
<1>1. tasks \in Seq(Clients) /\ task = <<>>
  BY DEF Inv, TypeOK, WorkerCheck
<1>2. CASE UNCHANGED <<tasks, task>>
  BY <1>2 DEF abstract, WorkerCheck
<1>3. CASE /\ Predicate /\ ~Leaves
           /\ task' = <<NextTask>> /\ tasks' = Tail(tasks)
  <2>1. tasks # <<>>
    BY <1>3 DEF Predicate, Leaves
  <2>2. <<Head(tasks)>> \o Tail(tasks) = tasks
    BY <1>1, <2>1
  <2>3. abstract' = tasks /\ abstract = tasks
    BY <1>1, <1>3, <2>2 DEF abstract, NextTask
  <2> QED
    BY <2>3 DEF WorkerCheck
<1> QED
  BY <1>2, <1>3 DEF WorkerCheck

\* The shard implements the serial executor: one call at a time, in the
\* order of submission, each exactly once, also while it is being stopped.
THEOREM ShardIsSerial == Spec => SerialSpec
<1>1. Inv /\ [Next]_vars => [Serial!Next]_<<task \o tasks, executed>>
  <2> SUFFICES ASSUME Inv, [Next]_vars
               PROVE  Serial!Next \/ UNCHANGED <<task \o tasks, executed>>
    OBVIOUS
  <2>1. ASSUME NEW c \in Clients, Push(c) PROVE Serial!Next
    BY <2>1, PushSerial DEF Serial!Next
  <2>2. CASE RunTask
    BY <2>2, RunTaskSerial DEF Serial!Next
  <2>3. CASE WorkerCheck
    BY <2>3, PopSerial DEF abstract
  <2>4. CASE \/ Start \/ SpuriousWakeup \/ StopFlag \/ StopNotify \/ StopJoin
             \/ \E c \in Clients : NotifyOne(c) \/ FutureGet(c)
             \/ UNCHANGED vars
    BY <2>4 DEF Start, SpuriousWakeup, StopFlag, StopNotify, StopJoin, NotifyOne,
                FutureGet, vars
  <2> QED
    BY <2>1, <2>2, <2>3, <2>4 DEF Next, WorkerStep, StopStep, ClientStep
<1> QED
  BY SerialInit, <1>1, InvHolds, FairIsSafe, PTL DEF SafetySpec, SerialSpec, Serial!Spec
=============================================================================
