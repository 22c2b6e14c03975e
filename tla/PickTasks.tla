----------------------------- MODULE PickTasks -----------------------------
(***************************************************************************)
(* The task queue of one SearchWorker (src/src/mcts/search.cc): the search *)
(* thread that gathers a minibatch publishes gathering and processing      *)
(* tasks, its task threads take them through four atomics, and the search  *)
(* thread waits for all of them before it reads their results.  One step   *)
(* is one access to a shared variable; a section under picking_tasks_mutex_*)
(* is split where another thread can look in without the mutex.            *)
(***************************************************************************)
EXTENDS Integers, Sequences, FiniteSets

CONSTANTS
    TaskWorkers,    \* the task threads of task_threads_
    Main,           \* the search thread that owns the SearchWorker
    NoThread,       \* nobody holds picking_tasks_mutex_
    MAX_TASKS       \* what ResetTasks reserves in picking_tasks_

Threads == TaskWorkers \cup {Main}

ASSUME ThreadsAssumption ==
    /\ IsFiniteSet(TaskWorkers)
    /\ TaskWorkers # {}     \* with no task thread the queue is not used
    /\ Main \notin TaskWorkers
    /\ NoThread \notin Threads

\* No more processing tasks than task threads are published, and they fit in
\* what was reserved.
ASSUME CapacityAssumption ==
    /\ MAX_TASKS \in Nat
    /\ Cardinality(TaskWorkers) <= MAX_TASKS

VARIABLES
    task_count,             \* task_count_: tasks published, -1 to sleep
    tasks_taken,            \* tasks_taken_
    completed_tasks,        \* completed_tasks_
    task_taking_started,    \* task_taking_started_: the spin flag of takers
    picking_tasks,          \* picking_tasks_: type and complete flag of each
    mutex,                  \* the holder of picking_tasks_mutex_
    waiters,                \* threads blocked in task_added_.wait
    exiting,                \* exiting_
    phase,                  \* the task type of the batch being published
    pc,                     \* where each thread is
    nta,                    \* RunTasks' local nta (0 where it is dead)
    id,                     \* RunTasks' local id (0 where it is dead)
    completed               \* WaitForTasks' local completed (0 where dead)

counters == <<task_count, tasks_taken, completed_tasks>>
sync == <<task_taking_started, mutex, waiters, exiting>>
locals == <<nta, id, completed>>
vars == <<counters, sync, picking_tasks, phase, pc, locals>>

TaskTypes == {"gathering", "processing"}

Goto(t, l) == pc' = [pc EXCEPT ![t] = l]

---------------------------------------------------------------------------
(* Where the threads can be.                                               *)

\* Between a successful compare_exchange and the store that ends it.
Taking == {"nta2", "tc2", "take", "bound", "release", "giveUp"}

\* Between the fetch_add that gives a task's id and completed_tasks_'s.
Owning == {"bound", "release", "exec", "spawn", "spawnCount", "complete", "finish"}

WorkerLabels ==
    {"nta1", "tc1", "cas", "lock", "locked", "waiting", "woken", "exited"}
        \cup Taking \cup Owning

\* The search thread knows that no task is left.
Quiet == {"iterate", "reset1", "reset2", "reset3", "reset4", "waited",
          "destroy", "join", "done"}

\* The search thread may still publish.
Publishing == {"notify", "publish", "publishCount", "exec", "spawn", "spawnCount"}

MainLabels == Quiet \cup Publishing \cup {"wait1", "wait2"}

Size == Len(picking_tasks)

NewTask(type) == Append(picking_tasks, [type |-> type, complete |-> FALSE])

\* The task that thread t runs, or the part of the batch that Main does itself.
Gathers(t) ==
    IF t = Main THEN phase = "gathering"
                ELSE picking_tasks[id[t] + 1].type = "gathering"

---------------------------------------------------------------------------
(* The search thread.                                                      *)

Init ==
    /\ task_count = -1
    /\ tasks_taken = 0
    /\ completed_tasks = 0
    /\ task_taking_started = 0
    /\ picking_tasks = <<>>
    /\ mutex = NoThread
    /\ waiters = {}
    /\ exiting = FALSE
    /\ phase = "gathering"
    /\ pc = [t \in Threads |-> IF t = Main THEN "iterate" ELSE "nta1"]
    /\ nta = [w \in TaskWorkers |-> 0]
    /\ id = [w \in TaskWorkers |-> 0]
    /\ completed = 0

\* GatherMinibatch calls PickNodesToExtend, at its start or for another round.
PickNodesToExtend ==
    /\ pc[Main] \in {"iterate", "waited"}
    /\ phase' = "gathering"
    /\ Goto(Main, "reset1")
    /\ UNCHANGED <<counters, sync, picking_tasks, locals>>

\* After a gathering round: enough nodes were picked to share their processing.
StartProcessing ==
    /\ pc[Main] = "waited"
    /\ phase = "gathering"
    /\ phase' = "processing"
    /\ Goto(Main, "reset1")
    /\ UNCHANGED <<counters, sync, picking_tasks, locals>>

\* ResetTasks, one store after the other.
ResetTaskCount ==
    /\ pc[Main] = "reset1"
    /\ task_count' = 0
    /\ Goto(Main, "reset2")
    /\ UNCHANGED <<tasks_taken, completed_tasks, sync, picking_tasks, phase, locals>>

ResetTasksTaken ==
    /\ pc[Main] = "reset2"
    /\ tasks_taken' = 0
    /\ Goto(Main, "reset3")
    /\ UNCHANGED <<task_count, completed_tasks, sync, picking_tasks, phase, locals>>

ResetCompletedTasks ==
    /\ pc[Main] = "reset3"
    /\ completed_tasks' = 0
    /\ Goto(Main, "reset4")
    /\ UNCHANGED <<task_count, tasks_taken, sync, picking_tasks, phase, locals>>

ClearPickingTasks ==
    /\ pc[Main] = "reset4"
    /\ picking_tasks' = <<>>
    /\ Goto(Main, IF phase = "gathering" THEN "notify" ELSE "publish")
    /\ UNCHANGED <<counters, sync, phase, locals>>

\* Mutant: notify_one in place of notify_all.
NotifyOneTaskThread ==
    /\ pc[Main] = "notify"
    /\ mutex = NoThread
    /\ waiters' \in {waiters \ {w} : w \in TaskWorkers}
    /\ Goto(Main, "exec")
    /\ UNCHANGED <<counters, task_taking_started, mutex, exiting, picking_tasks, phase, locals>>

\* PickNodesToExtend wakes the task threads that slept on the condition.
NotifyTaskThreads ==
    /\ pc[Main] = "notify"
    /\ mutex = NoThread
    /\ waiters' = {}
    /\ Goto(Main, "exec")
    /\ UNCHANGED <<counters, task_taking_started, mutex, exiting, picking_tasks, phase, locals>>

\* GatherMinibatch publishes processing tasks; it does not hold the mutex.
PublishProcessing ==
    /\ pc[Main] = "publish"
    /\ Size < Cardinality(TaskWorkers)
    /\ picking_tasks' = NewTask("processing")
    /\ Goto(Main, "publishCount")
    /\ UNCHANGED <<counters, sync, phase, locals>>

CountProcessing ==
    /\ pc[Main] = "publishCount"
    /\ task_count' = task_count + 1
    /\ Goto(Main, "publish")
    /\ UNCHANGED <<tasks_taken, completed_tasks, sync, picking_tasks, phase, locals>>

\* The rest of the minibatch is the search thread's own share.
ProcessOwnShare ==
    /\ pc[Main] = "publish"
    /\ Size > 0
    /\ Goto(Main, "exec")
    /\ UNCHANGED <<counters, sync, picking_tasks, phase, locals>>

\* Mutant: the call of WaitForTasks is forgotten.
FinishWithoutWaiting ==
    /\ pc[Main] = "exec"
    /\ Goto(Main, "waited")
    /\ UNCHANGED <<counters, sync, picking_tasks, phase, locals>>

FinishOwnShare ==
    /\ pc[Main] = "exec"
    /\ Goto(Main, "wait1")
    /\ UNCHANGED <<counters, sync, picking_tasks, phase, locals>>

\* WaitForTasks reads how many are completed before how many there are: a
\* task counts its own children before it counts as completed.
WaitReadCompleted ==
    /\ pc[Main] = "wait1"
    /\ completed' = completed_tasks
    /\ Goto(Main, "wait2")
    /\ UNCHANGED <<counters, sync, picking_tasks, phase, nta, id>>

\* Mutant: waits for the tasks taken, not for those published.
WaitReadTaken ==
    /\ pc[Main] = "wait2"
    /\ completed' = 0
    /\ Goto(Main, IF tasks_taken = completed THEN "waited" ELSE "wait1")
    /\ UNCHANGED <<counters, sync, picking_tasks, phase, nta, id>>

WaitReadTodo ==
    /\ pc[Main] = "wait2"
    /\ completed' = 0
    /\ Goto(Main, IF task_count = completed THEN "waited" ELSE "wait1")
    /\ UNCHANGED <<counters, sync, picking_tasks, phase, nta, id>>

\* GatherMinibatch returned; ExecuteOneIteration sends the threads to sleep.
EndGather ==
    /\ pc[Main] = "waited"
    /\ task_count' = -1
    /\ Goto(Main, "iterate")
    /\ UNCHANGED <<tasks_taken, completed_tasks, sync, picking_tasks, phase, locals>>

\* ~SearchWorker, after RunBlocking has returned.
DestroyBegin ==
    /\ pc[Main] = "iterate"
    /\ task_count' = -1
    /\ Goto(Main, "destroy")
    /\ UNCHANGED <<tasks_taken, completed_tasks, sync, picking_tasks, phase, locals>>

DestroyNotify ==
    /\ pc[Main] = "destroy"
    /\ mutex = NoThread
    /\ exiting' = TRUE
    /\ waiters' = {}
    /\ Goto(Main, "join")
    /\ UNCHANGED <<counters, task_taking_started, mutex, picking_tasks, phase, locals>>

JoinTaskThreads ==
    /\ pc[Main] = "join"
    /\ \A w \in TaskWorkers : pc[w] = "exited"
    /\ Goto(Main, "done")
    /\ UNCHANGED <<counters, sync, picking_tasks, phase, locals>>

Terminated ==
    /\ pc[Main] = "done"
    /\ UNCHANGED vars

---------------------------------------------------------------------------
(* A gathering task, on a task thread or on the search thread, that passes *)
(* a part of its visits on (PickNodesToExtendTask).                        *)

SpawnLock(t) ==
    /\ pc[t] = "exec"
    /\ Gathers(t)
    /\ mutex = NoThread
    /\ mutex' = t
    /\ Goto(t, "spawn")
    /\ UNCHANGED <<counters, task_taking_started, waiters, exiting, picking_tasks, phase, locals>>

\* Mutant: off by one in the test of the room left.
SpawnPublishOneMore(t) ==
    /\ pc[t] = "spawn"
    /\ Size <= MAX_TASKS
    /\ picking_tasks' = NewTask("gathering")
    /\ Goto(t, "spawnCount")
    /\ UNCHANGED <<counters, sync, phase, locals>>

SpawnPublish(t) ==
    /\ pc[t] = "spawn"
    /\ Size < MAX_TASKS
    /\ picking_tasks' = NewTask("gathering")
    /\ Goto(t, "spawnCount")
    /\ UNCHANGED <<counters, sync, phase, locals>>

SpawnFull(t) ==
    /\ pc[t] = "spawn"
    /\ Size >= MAX_TASKS
    /\ mutex' = NoThread
    /\ Goto(t, "exec")
    /\ UNCHANGED <<counters, task_taking_started, waiters, exiting, picking_tasks, phase, locals>>

SpawnCount(t) ==
    /\ pc[t] = "spawnCount"
    /\ task_count' = task_count + 1
    /\ waiters' = {}
    /\ mutex' = NoThread
    /\ Goto(t, "exec")
    /\ UNCHANGED <<tasks_taken, completed_tasks, task_taking_started, exiting, picking_tasks,
                   phase, locals>>

---------------------------------------------------------------------------
(* RunTasks on a task thread.                                              *)

ReadTaken(w) ==
    /\ pc[w] = "nta1"
    /\ nta' = [nta EXCEPT ![w] = tasks_taken]
    /\ Goto(w, "tc1")
    /\ UNCHANGED <<counters, sync, picking_tasks, phase, id, completed>>

\* Try to take, go to sleep, or spin.
ReadCount(w) ==
    /\ pc[w] = "tc1"
    /\ Goto(w, CASE nta[w] < task_count -> "cas"
                 [] nta[w] >= task_count /\ task_count = -1 -> "lock"
                 [] OTHER -> "nta1")
    /\ nta' = [nta EXCEPT ![w] = 0]
    /\ UNCHANGED <<counters, sync, picking_tasks, phase, id, completed>>

\* Mutant: the flag is set without being tested.
StartTakingUntested(w) ==
    /\ pc[w] = "cas"
    /\ task_taking_started' = 1
    /\ Goto(w, "nta2")
    /\ UNCHANGED <<counters, mutex, waiters, exiting, picking_tasks, phase, locals>>

StartTaking(w) ==
    /\ pc[w] = "cas"
    /\ task_taking_started = 0
    /\ task_taking_started' = 1
    /\ Goto(w, "nta2")
    /\ UNCHANGED <<counters, mutex, waiters, exiting, picking_tasks, phase, locals>>

\* The flag is taken, or compare_exchange_weak fails spuriously.
FailToStartTaking(w) ==
    /\ pc[w] = "cas"
    /\ Goto(w, "nta1")
    /\ UNCHANGED <<counters, sync, picking_tasks, phase, locals>>

RereadTaken(w) ==
    /\ pc[w] = "nta2"
    /\ nta' = [nta EXCEPT ![w] = tasks_taken]
    /\ Goto(w, "tc2")
    /\ UNCHANGED <<counters, sync, picking_tasks, phase, id, completed>>

RereadCount(w) ==
    /\ pc[w] = "tc2"
    /\ Goto(w, IF nta[w] < task_count THEN "take" ELSE "giveUp")
    /\ nta' = [nta EXCEPT ![w] = 0]
    /\ UNCHANGED <<counters, sync, picking_tasks, phase, id, completed>>

TakeTask(w) ==
    /\ pc[w] = "take"
    /\ id' = [id EXCEPT ![w] = tasks_taken]
    /\ tasks_taken' = tasks_taken + 1
    /\ Goto(w, "bound")
    /\ UNCHANGED <<task_count, completed_tasks, sync, picking_tasks, phase, nta, completed>>

\* The bounds check; past the end, the taking ends with no task.
CheckBound(w) ==
    /\ pc[w] = "bound"
    /\ Goto(w, IF id[w] < Size THEN "release" ELSE "giveUp")
    /\ UNCHANGED <<counters, sync, picking_tasks, phase, locals>>

\* Mutant: the flag stays set when there was nothing to take.
StopTakingOnlyWithTask(w) ==
    /\ pc[w] \in {"release", "giveUp"}
    /\ task_taking_started' = IF pc[w] = "release" THEN 0 ELSE 1
    /\ Goto(w, IF pc[w] = "release" THEN "exec" ELSE "nta1")
    /\ UNCHANGED <<counters, mutex, waiters, exiting, picking_tasks, phase, locals>>

\* The stores that end a taking: with a task, and with none.
StopTaking(w) ==
    /\ pc[w] \in {"release", "giveUp"}
    /\ task_taking_started' = 0
    /\ Goto(w, IF pc[w] = "release" THEN "exec" ELSE "nta1")
    /\ UNCHANGED <<counters, mutex, waiters, exiting, picking_tasks, phase, locals>>

FinishTask(w) ==
    /\ pc[w] = "exec"
    /\ Goto(w, "complete")
    /\ UNCHANGED <<counters, sync, picking_tasks, phase, locals>>

SetComplete(w) ==
    /\ pc[w] = "complete"
    /\ picking_tasks' = IF id[w] < Size
                        THEN [picking_tasks EXCEPT ![id[w] + 1].complete = TRUE]
                        ELSE picking_tasks
    /\ Goto(w, "finish")
    /\ UNCHANGED <<counters, sync, phase, locals>>

CountCompleted(w) ==
    /\ pc[w] = "finish"
    /\ completed_tasks' = completed_tasks + 1
    /\ id' = [id EXCEPT ![w] = 0]
    /\ Goto(w, "nta1")
    /\ UNCHANGED <<task_count, tasks_taken, sync, picking_tasks, phase, nta, completed>>

SleepLock(w) ==
    /\ pc[w] = "lock"
    /\ mutex = NoThread
    /\ mutex' = w
    /\ Goto(w, "locked")
    /\ UNCHANGED <<counters, task_taking_started, waiters, exiting, picking_tasks, phase, locals>>

\* Mutant: exiting_ is tested only after a wait.
SleepDecideNoExit(w) ==
    /\ pc[w] = "locked"
    /\ mutex' = NoThread
    /\ IF task_count # -1
       THEN Goto(w, "nta1") /\ UNCHANGED waiters
       ELSE Goto(w, "waiting") /\ waiters' = waiters \cup {w}
    /\ UNCHANGED <<counters, task_taking_started, exiting, picking_tasks, phase, locals>>

\* Under the mutex: work appeared, the worker is being destroyed, or wait.
SleepDecide(w) ==
    /\ pc[w] = "locked"
    /\ mutex' = NoThread
    /\ \/ /\ task_count # -1
          /\ Goto(w, "nta1")
          /\ UNCHANGED waiters
       \/ /\ task_count = -1
          /\ IF tasks_taken >= task_count /\ exiting
             THEN Goto(w, "exited") /\ UNCHANGED waiters
             ELSE Goto(w, "waiting") /\ waiters' = waiters \cup {w}
    /\ UNCHANGED <<counters, task_taking_started, exiting, picking_tasks, phase, locals>>

\* A condition variable may wake a thread nobody notified.
SpuriousWakeup(w) ==
    /\ w \in waiters
    /\ waiters' = waiters \ {w}
    /\ UNCHANGED <<counters, task_taking_started, mutex, exiting, picking_tasks, phase, pc, locals>>

Wake(w) ==
    /\ pc[w] = "waiting"
    /\ w \notin waiters
    /\ mutex = NoThread
    /\ mutex' = w
    /\ Goto(w, "woken")
    /\ UNCHANGED <<counters, task_taking_started, waiters, exiting, picking_tasks, phase, locals>>

WakeDecide(w) ==
    /\ pc[w] = "woken"
    /\ mutex' = NoThread
    /\ Goto(w, IF tasks_taken >= task_count /\ exiting THEN "exited" ELSE "nta1")
    /\ UNCHANGED <<counters, task_taking_started, waiters, exiting, picking_tasks, phase, locals>>

---------------------------------------------------------------------------

MainStep ==
    \/ PickNodesToExtend \/ StartProcessing
    \/ ResetTaskCount \/ ResetTasksTaken \/ ResetCompletedTasks \/ ClearPickingTasks
    \/ NotifyTaskThreads
    \/ PublishProcessing \/ CountProcessing \/ ProcessOwnShare \/ FinishOwnShare
    \/ WaitReadCompleted \/ WaitReadTodo
    \/ EndGather
    \/ DestroyBegin \/ DestroyNotify \/ JoinTaskThreads

SpawnStep(t) == SpawnLock(t) \/ SpawnPublish(t) \/ SpawnFull(t) \/ SpawnCount(t)

WorkerStep(w) ==
    \/ ReadTaken(w) \/ ReadCount(w)
    \/ StartTaking(w) \/ FailToStartTaking(w)
    \/ RereadTaken(w) \/ RereadCount(w) \/ TakeTask(w) \/ CheckBound(w) \/ StopTaking(w)
    \/ FinishTask(w) \/ SetComplete(w) \/ CountCompleted(w)
    \/ SleepLock(w) \/ SleepDecide(w) \/ Wake(w) \/ WakeDecide(w)

Next ==
    \/ MainStep
    \/ \E t \in Threads : SpawnStep(t)
    \/ \E w \in TaskWorkers : WorkerStep(w) \/ SpuriousWakeup(w)
    \/ Terminated

Spec == Init /\ [][Next]_vars

\* What a thread does in the end although the way there is open only now and
\* then: a mutex and a spin flag that others keep taking are won, and a task,
\* which visits finitely many nodes and spawns at most MAX_TASKS, ends.
MainProgress == NotifyTaskThreads \/ FinishOwnShare \/ DestroyNotify

WorkerProgress(w) == StartTaking(w) \/ FinishTask(w) \/ SleepLock(w) \/ Wake(w)

\* The scheduler runs every thread. Nothing forces a spurious wakeup.
Fairness ==
    /\ WF_vars(MainStep \/ SpawnStep(Main))
    /\ SF_vars(MainProgress)
    /\ \A w \in TaskWorkers :
        /\ WF_vars(WorkerStep(w) \/ SpawnStep(w))
        /\ SF_vars(WorkerProgress(w))

FairSpec == Spec /\ Fairness

---------------------------------------------------------------------------
(* What makes the queue correct.                                           *)

\* Every variable has its type.
TypeOK ==
    /\ task_count \in Nat \cup {-1}
    /\ tasks_taken \in Nat
    /\ completed_tasks \in Nat
    /\ task_taking_started \in {0, 1}
    /\ picking_tasks \in Seq([type : TaskTypes, complete : BOOLEAN])
    /\ mutex \in Threads \cup {NoThread}
    /\ waiters \subseteq TaskWorkers
    /\ exiting \in BOOLEAN
    /\ phase \in TaskTypes
    /\ pc \in [Threads -> MainLabels \cup WorkerLabels]
    /\ nta \in [TaskWorkers -> Nat]
    /\ id \in [TaskWorkers -> Nat]
    /\ completed \in Nat

\* No two task threads run the task of one id, and none runs a task that was
\* completed: the spin flag and the two re-reads in RunTasks hand out each
\* task once, even when a taker read tasks_taken_ before a ResetTasks.
NoTaskTwice ==
    \A w \in TaskWorkers : pc[w] \in Owning =>
        /\ \A v \in TaskWorkers \ {w} : pc[v] \in Owning => id[v] # id[w]
        /\ id[w] < Size
        /\ pc[w] # "finish" => ~picking_tasks[id[w] + 1].complete

\* When WaitForTasks has returned, and until the next batch is open, no task
\* thread holds a task or is about to take one, and every published task is
\* complete: the results are read, and picking_tasks_ is cleared, alone.
BarrierHolds ==
    pc[Main] \in Quiet =>
        /\ \A w \in TaskWorkers : pc[w] \notin Owning \cup {"take"}
        /\ \A i \in DOMAIN picking_tasks : picking_tasks[i].complete

\* picking_tasks_ never grows past what ResetTasks reserved: the pointer a
\* task thread keeps into it stays valid while others publish.
NoReallocation == Size <= MAX_TASKS

\* Once the sleepers were notified, none sleeps on while tasks are published.
NoSleeperInBatch ==
    (task_count > 0 \/ pc[Main] \in {"exec", "wait1", "wait2"}) => waiters = {}

\* WaitForTasks returns: every published task is taken and completed.
BarrierOpens == pc[Main] = "wait1" ~> pc[Main] = "waited"

\* The destructor's join returns: no task thread misses the last notify.
ThreadsJoin == pc[Main] = "destroy" ~> pc[Main] = "done"

\* The abstract queue that this one implements.
StatusOf(i) ==
    CASE picking_tasks[i].complete -> "done"
      [] ~picking_tasks[i].complete
            /\ \E w \in TaskWorkers : pc[w] \in Owning /\ id[w] = i - 1 -> "running"
      [] OTHER -> "todo"

AbstractStatus == [i \in DOMAIN picking_tasks |-> StatusOf(i)]

AbstractBarrier ==
    IF pc[Main] \in Quiet THEN "passed"
    ELSE IF pc[Main] \in Publishing THEN "open" ELSE "closing"

Barrier == INSTANCE TaskBarrier WITH status <- AbstractStatus, barrier <- AbstractBarrier

\* The atomics implement the abstract queue: a task is taken once, added only
\* by the search thread or a running task, and the barrier opens only when
\* all are done.
ImplementsBarrier == Barrier!Spec

=============================================================================
