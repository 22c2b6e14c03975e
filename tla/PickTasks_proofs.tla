-------------------------- MODULE PickTasks_proofs --------------------------
(***************************************************************************)
(* Proofs about the task queue of a SearchWorker, for every number of task *)
(* threads and every capacity.                                             *)
(***************************************************************************)
EXTENDS PickTasks, TLAPS, FiniteSetTheorems, SequenceTheorems

Busy == {w \in TaskWorkers : pc[w] \in Owning}

InBatch == pc[Main] \in Publishing \cup {"wait1", "wait2"}

\* Some thread has put a task into picking_tasks_ and not counted it yet.
Counting == \E t \in Threads : pc[t] \in {"spawnCount", "publishCount"}

\* The search thread and the task threads are each in their own code.
LabelInv ==
    /\ pc[Main] \in MainLabels
    /\ \A w \in TaskWorkers : pc[w] \in WorkerLabels

\* task_taking_started_ admits one taker at a time.
FlagInv ==
    \A w \in TaskWorkers : pc[w] \in Taking =>
        /\ task_taking_started = 1
        /\ \A v \in TaskWorkers : pc[v] \in Taking => v = w

\* Who is in a section under picking_tasks_mutex_ holds it.
MutexInv ==
    \A t \in Threads : pc[t] \in {"spawn", "spawnCount", "locked", "woken"} => mutex = t

\* Processing tasks spawn nothing, and are published by the search thread alone.
KindInv ==
    /\ InBatch /\ phase = "processing" =>
          \A i \in DOMAIN picking_tasks : picking_tasks[i].type = "processing"
    /\ pc[Main] \in {"publish", "publishCount"} => phase = "processing"
    /\ pc[Main] \in {"notify", "spawn", "spawnCount"} => phase = "gathering"
    /\ \A w \in TaskWorkers : pc[w] \in {"spawn", "spawnCount"} =>
          picking_tasks[id[w] + 1].type = "gathering"

\* During a batch the counters count.
CountInv ==
    InBatch =>
        /\ completed_tasks + Cardinality(Busy) = tasks_taken
        /\ tasks_taken <= task_count
        /\ Size = task_count + (IF Counting THEN 1 ELSE 0)
        /\ pc[Main] = "wait2" => completed <= completed_tasks

\* A taker that will go on to take finds a task.
TakeInv ==
    \A w \in TaskWorkers :
        /\ pc[w] = "tc2" => tasks_taken <= nta[w]
        /\ pc[w] = "take" => InBatch /\ tasks_taken < task_count

\* Each task taken is owned by one thread or complete, the others untouched.
OwnInv ==
    /\ \A w \in Busy :
          /\ id[w] < tasks_taken
          /\ \A v \in Busy : id[v] = id[w] => v = w
          /\ picking_tasks[id[w] + 1].complete <=> pc[w] = "finish"
    /\ InBatch => \A i \in 1..Size :
          IF i <= tasks_taken
          THEN picking_tasks[i].complete \/ \E w \in Busy : id[w] = i - 1
          ELSE ~picking_tasks[i].complete

\* Between batches nothing runs.
QuietInv ==
    pc[Main] \in Quiet =>
        /\ Busy = {}
        /\ \A i \in DOMAIN picking_tasks : picking_tasks[i].complete
        /\ task_count <= tasks_taken
        /\ pc[Main] \in {"reset2", "reset3", "reset4"} => task_count = 0
        /\ pc[Main] \in {"reset3", "reset4"} => tasks_taken = 0
        /\ pc[Main] = "reset4" => completed_tasks = 0

\* Who sleeps was put to sleep between two minibatches.
SleepInv ==
    /\ task_count = -1 =>
          /\ pc[Main] \in {"iterate", "reset1", "destroy", "join", "done"}
          /\ pc[Main] = "reset1" => phase = "gathering"
    /\ pc[Main] \in {"iterate", "destroy", "join", "done"} => task_count = -1
    /\ pc[Main] \in {"join", "done"} => exiting
    /\ waiters # {} =>
          /\ pc[Main] \in {"iterate", "destroy", "reset1", "reset2", "reset3", "reset4", "notify"}
          /\ pc[Main] \in {"reset1", "reset2", "reset3", "reset4"} => phase = "gathering"
          /\ task_count <= 0

\* The inductive invariant.
IInv ==
    /\ TypeOK /\ LabelInv /\ FlagInv /\ MutexInv /\ KindInv /\ CountInv
    /\ TakeInv /\ OwnInv /\ QuietInv /\ SleepInv /\ NoReallocation

\* What the abstract status is, in terms of who owns a task.
StatusShape ==
    /\ Size \in Nat
    /\ DOMAIN picking_tasks = 1..Size
    /\ AbstractStatus = [i \in 1..Size |-> AbstractStatus[i]]
    /\ \A w \in Busy : id[w] \in Nat /\ id[w] + 1 \in 1..Size /\ id[w] < tasks_taken
    /\ \A i \in 1..Size :
          AbstractStatus[i] =
             IF picking_tasks[i].complete THEN "done"
             ELSE IF \E w \in Busy : id[w] = i - 1 THEN "running" ELSE "todo"

\* Every step keeps the types, and every thread in its own code.
LEMMA TypeStep ==
  ASSUME TypeOK, LabelInv, [Next]_vars
  PROVE  TypeOK' /\ LabelInv'
<1> USE ThreadsAssumption DEF TypeOK, LabelInv, Threads, counters, sync, locals, Goto,
   MainLabels, WorkerLabels, Quiet, Publishing, Taking, Owning, TaskTypes, NewTask, Size
<1>1. CASE PickNodesToExtend
  BY <1>1 DEF PickNodesToExtend
<1>2. CASE StartProcessing
  BY <1>2 DEF StartProcessing
<1>3. CASE ResetTaskCount
  BY <1>3 DEF ResetTaskCount
<1>4. CASE ResetTasksTaken
  BY <1>4 DEF ResetTasksTaken
<1>5. CASE ResetCompletedTasks
  BY <1>5 DEF ResetCompletedTasks
<1>6. CASE ClearPickingTasks
  BY <1>6 DEF ClearPickingTasks
<1>7. CASE NotifyTaskThreads
  BY <1>7 DEF NotifyTaskThreads
<1>8. CASE PublishProcessing
  BY <1>8 DEF PublishProcessing
<1>9. CASE CountProcessing
  BY <1>9 DEF CountProcessing
<1>10. CASE ProcessOwnShare
  BY <1>10 DEF ProcessOwnShare
<1>11. CASE FinishOwnShare
  BY <1>11 DEF FinishOwnShare
<1>12. CASE WaitReadCompleted
  BY <1>12 DEF WaitReadCompleted
<1>13. CASE WaitReadTodo
  BY <1>13 DEF WaitReadTodo
<1>14. CASE EndGather
  BY <1>14 DEF EndGather
<1>15. CASE DestroyBegin
  BY <1>15 DEF DestroyBegin
<1>16. CASE DestroyNotify
  BY <1>16 DEF DestroyNotify
<1>17. CASE JoinTaskThreads
  BY <1>17 DEF JoinTaskThreads
<1>18. ASSUME NEW t \in Threads, SpawnLock(t) PROVE TypeOK' /\ LabelInv'
  BY <1>18 DEF SpawnLock
<1>19. ASSUME NEW t \in Threads, SpawnPublish(t) PROVE TypeOK' /\ LabelInv'
  BY <1>19 DEF SpawnPublish
<1>20. ASSUME NEW t \in Threads, SpawnFull(t) PROVE TypeOK' /\ LabelInv'
  BY <1>20 DEF SpawnFull
<1>21. ASSUME NEW t \in Threads, SpawnCount(t) PROVE TypeOK' /\ LabelInv'
  BY <1>21 DEF SpawnCount
<1>22. ASSUME NEW w \in TaskWorkers, ReadTaken(w) PROVE TypeOK' /\ LabelInv'
  BY <1>22 DEF ReadTaken
<1>23. ASSUME NEW w \in TaskWorkers, ReadCount(w) PROVE TypeOK' /\ LabelInv'
  BY <1>23 DEF ReadCount
<1>24. ASSUME NEW w \in TaskWorkers, StartTaking(w) PROVE TypeOK' /\ LabelInv'
  BY <1>24 DEF StartTaking
<1>25. ASSUME NEW w \in TaskWorkers, FailToStartTaking(w) PROVE TypeOK' /\ LabelInv'
  BY <1>25 DEF FailToStartTaking
<1>26. ASSUME NEW w \in TaskWorkers, RereadTaken(w) PROVE TypeOK' /\ LabelInv'
  BY <1>26 DEF RereadTaken
<1>27. ASSUME NEW w \in TaskWorkers, RereadCount(w) PROVE TypeOK' /\ LabelInv'
  BY <1>27 DEF RereadCount
<1>28. ASSUME NEW w \in TaskWorkers, TakeTask(w) PROVE TypeOK' /\ LabelInv'
  BY <1>28 DEF TakeTask
<1>29. ASSUME NEW w \in TaskWorkers, CheckBound(w) PROVE TypeOK' /\ LabelInv'
  BY <1>29 DEF CheckBound
<1>30. ASSUME NEW w \in TaskWorkers, StopTaking(w) PROVE TypeOK' /\ LabelInv'
  BY <1>30 DEF StopTaking
<1>31. ASSUME NEW w \in TaskWorkers, FinishTask(w) PROVE TypeOK' /\ LabelInv'
  BY <1>31 DEF FinishTask
<1>32. ASSUME NEW w \in TaskWorkers, SetComplete(w) PROVE TypeOK' /\ LabelInv'
  <2>1. CASE id[w] < Size
    <3> DEFINE task == [picking_tasks[id[w] + 1] EXCEPT !.complete = TRUE]
    <3>1. id[w] + 1 \in 1..Len(picking_tasks)
      BY <2>1
    <3>2. picking_tasks[id[w] + 1] \in [type : TaskTypes, complete : BOOLEAN]
      BY <3>1, ElementOfSeq
    <3>3. task \in [type : TaskTypes, complete : BOOLEAN]
      BY <3>2
    <3>4. picking_tasks' = [picking_tasks EXCEPT ![id[w] + 1] = task]
      BY <2>1, <1>32 DEF SetComplete
    <3>5. picking_tasks' \in Seq([type : TaskTypes, complete : BOOLEAN])
      BY <3>1, <3>3, <3>4, ExceptSeq
    <3> QED
      BY <3>5, <1>32 DEF SetComplete
  <2>2. CASE ~(id[w] < Size)
    BY <2>2, <1>32 DEF SetComplete
  <2> QED
    BY <2>1, <2>2
<1>33. ASSUME NEW w \in TaskWorkers, CountCompleted(w) PROVE TypeOK' /\ LabelInv'
  BY <1>33 DEF CountCompleted
<1>34. ASSUME NEW w \in TaskWorkers, SleepLock(w) PROVE TypeOK' /\ LabelInv'
  BY <1>34 DEF SleepLock
<1>35. ASSUME NEW w \in TaskWorkers, SleepDecide(w) PROVE TypeOK' /\ LabelInv'
  <2>1. CASE task_count # -1
    BY <2>1, <1>35 DEF SleepDecide
  <2>2. CASE task_count = -1 /\ tasks_taken >= task_count /\ exiting
    <3>1. mutex' = NoThread /\ Goto(w, "exited") /\ UNCHANGED waiters
      BY <2>2, <1>35 DEF SleepDecide
    <3> QED
      BY <3>1, <2>2, <1>35 DEF SleepDecide
  <2>3. CASE task_count = -1 /\ ~(tasks_taken >= task_count /\ exiting)
    <3>1. mutex' = NoThread /\ Goto(w, "waiting") /\ waiters' = waiters \cup {w}
      BY <2>3, <1>35 DEF SleepDecide
    <3> QED
      BY <3>1, <2>3, <1>35 DEF SleepDecide
  <2> QED
    BY <2>1, <2>2, <2>3
<1>36. ASSUME NEW w \in TaskWorkers, SpuriousWakeup(w) PROVE TypeOK' /\ LabelInv'
  BY <1>36 DEF SpuriousWakeup
<1>37. ASSUME NEW w \in TaskWorkers, Wake(w) PROVE TypeOK' /\ LabelInv'
  BY <1>37 DEF Wake
<1>38. ASSUME NEW w \in TaskWorkers, WakeDecide(w) PROVE TypeOK' /\ LabelInv'
  BY <1>38 DEF WakeDecide
<1>39. CASE UNCHANGED vars
  BY <1>39 DEF vars
<1> QED
  BY <1>1, <1>2, <1>3, <1>4, <1>5, <1>6, <1>7, <1>8, <1>9, <1>10, <1>11, <1>12, <1>13,
     <1>14, <1>15, <1>16, <1>17, <1>18, <1>19, <1>20, <1>21, <1>22, <1>23, <1>24, <1>25,
     <1>26, <1>27, <1>28, <1>29, <1>30, <1>31, <1>32, <1>33, <1>34, <1>35, <1>36, <1>37,
     <1>38, <1>39 DEF Next, MainStep, SpawnStep, WorkerStep, Terminated, vars

\* A step enters a section under the mutex or the spin flag only when it is free.
LEMMA ControlStep ==
  ASSUME TypeOK, LabelInv, FlagInv, MutexInv, [Next]_vars
  PROVE  FlagInv' /\ MutexInv'
<1> USE ThreadsAssumption DEF TypeOK, LabelInv, Threads, counters, sync, locals, Goto,
   MainLabels, WorkerLabels, Quiet, Publishing, Taking, Owning, FlagInv, MutexInv
<1>1. CASE PickNodesToExtend
  BY <1>1 DEF PickNodesToExtend
<1>2. CASE StartProcessing
  BY <1>2 DEF StartProcessing
<1>3. CASE ResetTaskCount
  BY <1>3 DEF ResetTaskCount
<1>4. CASE ResetTasksTaken
  BY <1>4 DEF ResetTasksTaken
<1>5. CASE ResetCompletedTasks
  BY <1>5 DEF ResetCompletedTasks
<1>6. CASE ClearPickingTasks
  BY <1>6 DEF ClearPickingTasks
<1>7. CASE NotifyTaskThreads
  BY <1>7 DEF NotifyTaskThreads
<1>8. CASE PublishProcessing
  BY <1>8 DEF PublishProcessing
<1>9. CASE CountProcessing
  BY <1>9 DEF CountProcessing
<1>10. CASE ProcessOwnShare
  BY <1>10 DEF ProcessOwnShare
<1>11. CASE FinishOwnShare
  BY <1>11 DEF FinishOwnShare
<1>12. CASE WaitReadCompleted
  BY <1>12 DEF WaitReadCompleted
<1>13. CASE WaitReadTodo
  BY <1>13 DEF WaitReadTodo
<1>14. CASE EndGather
  BY <1>14 DEF EndGather
<1>15. CASE DestroyBegin
  BY <1>15 DEF DestroyBegin
<1>16. CASE DestroyNotify
  BY <1>16 DEF DestroyNotify
<1>17. CASE JoinTaskThreads
  BY <1>17 DEF JoinTaskThreads
<1>18. ASSUME NEW t \in Threads, SpawnLock(t) PROVE FlagInv' /\ MutexInv'
  BY <1>18 DEF SpawnLock
<1>19. ASSUME NEW t \in Threads, SpawnPublish(t) PROVE FlagInv' /\ MutexInv'
  BY <1>19 DEF SpawnPublish
<1>20. ASSUME NEW t \in Threads, SpawnFull(t) PROVE FlagInv' /\ MutexInv'
  BY <1>20 DEF SpawnFull
<1>21. ASSUME NEW t \in Threads, SpawnCount(t) PROVE FlagInv' /\ MutexInv'
  BY <1>21 DEF SpawnCount
<1>22. ASSUME NEW w \in TaskWorkers, ReadTaken(w) PROVE FlagInv' /\ MutexInv'
  BY <1>22 DEF ReadTaken
<1>23. ASSUME NEW w \in TaskWorkers, ReadCount(w) PROVE FlagInv' /\ MutexInv'
  BY <1>23 DEF ReadCount
<1>24. ASSUME NEW w \in TaskWorkers, StartTaking(w) PROVE FlagInv' /\ MutexInv'
  BY <1>24 DEF StartTaking
<1>25. ASSUME NEW w \in TaskWorkers, FailToStartTaking(w) PROVE FlagInv' /\ MutexInv'
  BY <1>25 DEF FailToStartTaking
<1>26. ASSUME NEW w \in TaskWorkers, RereadTaken(w) PROVE FlagInv' /\ MutexInv'
  BY <1>26 DEF RereadTaken
<1>27. ASSUME NEW w \in TaskWorkers, RereadCount(w) PROVE FlagInv' /\ MutexInv'
  BY <1>27 DEF RereadCount
<1>28. ASSUME NEW w \in TaskWorkers, TakeTask(w) PROVE FlagInv' /\ MutexInv'
  BY <1>28 DEF TakeTask
<1>29. ASSUME NEW w \in TaskWorkers, CheckBound(w) PROVE FlagInv' /\ MutexInv'
  BY <1>29 DEF CheckBound
<1>30. ASSUME NEW w \in TaskWorkers, StopTaking(w) PROVE FlagInv' /\ MutexInv'
  BY <1>30 DEF StopTaking
<1>31. ASSUME NEW w \in TaskWorkers, FinishTask(w) PROVE FlagInv' /\ MutexInv'
  BY <1>31 DEF FinishTask
<1>32. ASSUME NEW w \in TaskWorkers, SetComplete(w) PROVE FlagInv' /\ MutexInv'
  BY <1>32 DEF SetComplete
<1>33. ASSUME NEW w \in TaskWorkers, CountCompleted(w) PROVE FlagInv' /\ MutexInv'
  BY <1>33 DEF CountCompleted
<1>34. ASSUME NEW w \in TaskWorkers, SleepLock(w) PROVE FlagInv' /\ MutexInv'
  BY <1>34 DEF SleepLock
<1>35. ASSUME NEW w \in TaskWorkers, SleepDecide(w) PROVE FlagInv' /\ MutexInv'
  <2>1. CASE task_count # -1
    BY <2>1, <1>35 DEF SleepDecide
  <2>2. CASE task_count = -1 /\ tasks_taken >= task_count /\ exiting
    <3>1. mutex' = NoThread /\ Goto(w, "exited") /\ UNCHANGED waiters
      BY <2>2, <1>35 DEF SleepDecide
    <3> QED
      BY <3>1, <2>2, <1>35 DEF SleepDecide
  <2>3. CASE task_count = -1 /\ ~(tasks_taken >= task_count /\ exiting)
    <3>1. mutex' = NoThread /\ Goto(w, "waiting") /\ waiters' = waiters \cup {w}
      BY <2>3, <1>35 DEF SleepDecide
    <3> QED
      BY <3>1, <2>3, <1>35 DEF SleepDecide
  <2> QED
    BY <2>1, <2>2, <2>3
<1>36. ASSUME NEW w \in TaskWorkers, SpuriousWakeup(w) PROVE FlagInv' /\ MutexInv'
  BY <1>36 DEF SpuriousWakeup
<1>37. ASSUME NEW w \in TaskWorkers, Wake(w) PROVE FlagInv' /\ MutexInv'
  BY <1>37 DEF Wake
<1>38. ASSUME NEW w \in TaskWorkers, WakeDecide(w) PROVE FlagInv' /\ MutexInv'
  BY <1>38 DEF WakeDecide
<1>39. CASE UNCHANGED vars
  BY <1>39 DEF vars
<1> QED
  BY <1>1, <1>2, <1>3, <1>4, <1>5, <1>6, <1>7, <1>8, <1>9, <1>10, <1>11, <1>12, <1>13,
     <1>14, <1>15, <1>16, <1>17, <1>18, <1>19, <1>20, <1>21, <1>22, <1>23, <1>24, <1>25,
     <1>26, <1>27, <1>28, <1>29, <1>30, <1>31, <1>32, <1>33, <1>34, <1>35, <1>36, <1>37,
     <1>38, <1>39 DEF Next, MainStep, SpawnStep, WorkerStep, Terminated, vars

\* A thread goes to sleep only while task_count_ is -1, between two minibatches.
LEMMA SleepStep ==
  ASSUME TypeOK, LabelInv, QuietInv, SleepInv, [Next]_vars
  PROVE  SleepInv'
<1> USE ThreadsAssumption DEF TypeOK, LabelInv, Threads, counters, sync, locals, Goto,
   MainLabels, WorkerLabels, Quiet, Publishing, Taking, Owning, QuietInv, SleepInv, Busy
<1>1. CASE PickNodesToExtend
  BY <1>1 DEF PickNodesToExtend
<1>2. CASE StartProcessing
  BY <1>2 DEF StartProcessing
<1>3. CASE ResetTaskCount
  BY <1>3 DEF ResetTaskCount
<1>4. CASE ResetTasksTaken
  BY <1>4 DEF ResetTasksTaken
<1>5. CASE ResetCompletedTasks
  BY <1>5 DEF ResetCompletedTasks
<1>6. CASE ClearPickingTasks
  BY <1>6 DEF ClearPickingTasks
<1>7. CASE NotifyTaskThreads
  BY <1>7 DEF NotifyTaskThreads
<1>8. CASE PublishProcessing
  BY <1>8 DEF PublishProcessing
<1>9. CASE CountProcessing
  BY <1>9 DEF CountProcessing
<1>10. CASE ProcessOwnShare
  BY <1>10 DEF ProcessOwnShare
<1>11. CASE FinishOwnShare
  BY <1>11 DEF FinishOwnShare
<1>12. CASE WaitReadCompleted
  BY <1>12 DEF WaitReadCompleted
<1>13. CASE WaitReadTodo
  BY <1>13 DEF WaitReadTodo
<1>14. CASE EndGather
  BY <1>14 DEF EndGather
<1>15. CASE DestroyBegin
  BY <1>15 DEF DestroyBegin
<1>16. CASE DestroyNotify
  BY <1>16 DEF DestroyNotify
<1>17. CASE JoinTaskThreads
  BY <1>17 DEF JoinTaskThreads
<1>18. ASSUME NEW t \in Threads, SpawnLock(t) PROVE SleepInv'
  BY <1>18 DEF SpawnLock
<1>19. ASSUME NEW t \in Threads, SpawnPublish(t) PROVE SleepInv'
  BY <1>19 DEF SpawnPublish
<1>20. ASSUME NEW t \in Threads, SpawnFull(t) PROVE SleepInv'
  BY <1>20 DEF SpawnFull
<1>21. ASSUME NEW t \in Threads, SpawnCount(t) PROVE SleepInv'
  BY <1>21 DEF SpawnCount
<1>22. ASSUME NEW w \in TaskWorkers, ReadTaken(w) PROVE SleepInv'
  BY <1>22 DEF ReadTaken
<1>23. ASSUME NEW w \in TaskWorkers, ReadCount(w) PROVE SleepInv'
  BY <1>23 DEF ReadCount
<1>24. ASSUME NEW w \in TaskWorkers, StartTaking(w) PROVE SleepInv'
  BY <1>24 DEF StartTaking
<1>25. ASSUME NEW w \in TaskWorkers, FailToStartTaking(w) PROVE SleepInv'
  BY <1>25 DEF FailToStartTaking
<1>26. ASSUME NEW w \in TaskWorkers, RereadTaken(w) PROVE SleepInv'
  BY <1>26 DEF RereadTaken
<1>27. ASSUME NEW w \in TaskWorkers, RereadCount(w) PROVE SleepInv'
  BY <1>27 DEF RereadCount
<1>28. ASSUME NEW w \in TaskWorkers, TakeTask(w) PROVE SleepInv'
  BY <1>28 DEF TakeTask
<1>29. ASSUME NEW w \in TaskWorkers, CheckBound(w) PROVE SleepInv'
  BY <1>29 DEF CheckBound
<1>30. ASSUME NEW w \in TaskWorkers, StopTaking(w) PROVE SleepInv'
  BY <1>30 DEF StopTaking
<1>31. ASSUME NEW w \in TaskWorkers, FinishTask(w) PROVE SleepInv'
  BY <1>31 DEF FinishTask
<1>32. ASSUME NEW w \in TaskWorkers, SetComplete(w) PROVE SleepInv'
  BY <1>32 DEF SetComplete
<1>33. ASSUME NEW w \in TaskWorkers, CountCompleted(w) PROVE SleepInv'
  BY <1>33 DEF CountCompleted
<1>34. ASSUME NEW w \in TaskWorkers, SleepLock(w) PROVE SleepInv'
  BY <1>34 DEF SleepLock
<1>35. ASSUME NEW w \in TaskWorkers, SleepDecide(w) PROVE SleepInv'
  <2>1. CASE task_count # -1
    BY <2>1, <1>35 DEF SleepDecide
  <2>2. CASE task_count = -1 /\ tasks_taken >= task_count /\ exiting
    <3>1. mutex' = NoThread /\ Goto(w, "exited") /\ UNCHANGED waiters
      BY <2>2, <1>35 DEF SleepDecide
    <3> QED
      BY <3>1, <2>2, <1>35 DEF SleepDecide
  <2>3. CASE task_count = -1 /\ ~(tasks_taken >= task_count /\ exiting)
    <3>1. mutex' = NoThread /\ Goto(w, "waiting") /\ waiters' = waiters \cup {w}
      BY <2>3, <1>35 DEF SleepDecide
    <3> QED
      BY <3>1, <2>3, <1>35 DEF SleepDecide
  <2> QED
    BY <2>1, <2>2, <2>3
<1>36. ASSUME NEW w \in TaskWorkers, SpuriousWakeup(w) PROVE SleepInv'
  BY <1>36 DEF SpuriousWakeup
<1>37. ASSUME NEW w \in TaskWorkers, Wake(w) PROVE SleepInv'
  BY <1>37 DEF Wake
<1>38. ASSUME NEW w \in TaskWorkers, WakeDecide(w) PROVE SleepInv'
  BY <1>38 DEF WakeDecide
<1>39. CASE UNCHANGED vars
  BY <1>39 DEF vars
<1> QED
  BY <1>1, <1>2, <1>3, <1>4, <1>5, <1>6, <1>7, <1>8, <1>9, <1>10, <1>11, <1>12, <1>13,
     <1>14, <1>15, <1>16, <1>17, <1>18, <1>19, <1>20, <1>21, <1>22, <1>23, <1>24, <1>25,
     <1>26, <1>27, <1>28, <1>29, <1>30, <1>31, <1>32, <1>33, <1>34, <1>35, <1>36, <1>37,
     <1>38, <1>39 DEF Next, MainStep, SpawnStep, WorkerStep, Terminated, vars

\* The task threads that own a task can be counted.
LEMMA BusyFinite == ASSUME TypeOK PROVE IsFiniteSet(Busy) /\ Cardinality(Busy) \in Nat
<1>1. Busy \in SUBSET TaskWorkers
  BY DEF Busy
<1> QED
  BY <1>1, ThreadsAssumption, FS_Subset, FS_CardinalityType

\* WaitForTasks returns only when no task is left, and nothing starts one until
\* the next batch.
LEMMA QuietStep ==
  ASSUME TypeOK, LabelInv, CountInv, TakeInv, OwnInv, QuietInv, [Next]_vars
  PROVE  QuietInv'
<1> USE ThreadsAssumption DEF TypeOK, LabelInv, Threads, counters, sync, locals, Goto,
   MainLabels, WorkerLabels, Quiet, Publishing, Taking, Owning, QuietInv, Busy, TakeInv,
   InBatch
<1>1. CASE PickNodesToExtend
  BY <1>1 DEF PickNodesToExtend
<1>2. CASE StartProcessing
  BY <1>2 DEF StartProcessing
<1>3. CASE ResetTaskCount
  BY <1>3 DEF ResetTaskCount
<1>4. CASE ResetTasksTaken
  BY <1>4 DEF ResetTasksTaken
<1>5. CASE ResetCompletedTasks
  BY <1>5 DEF ResetCompletedTasks
<1>6. CASE ClearPickingTasks
  BY <1>6 DEF ClearPickingTasks
<1>7. CASE NotifyTaskThreads
  BY <1>7 DEF NotifyTaskThreads
<1>8. CASE PublishProcessing
  BY <1>8 DEF PublishProcessing
<1>9. CASE CountProcessing
  BY <1>9 DEF CountProcessing
<1>10. CASE ProcessOwnShare
  BY <1>10 DEF ProcessOwnShare
<1>11. CASE FinishOwnShare
  BY <1>11 DEF FinishOwnShare
<1>12. CASE WaitReadCompleted
  BY <1>12 DEF WaitReadCompleted
<1>13. CASE WaitReadTodo
  <2>1. CASE task_count # completed
    BY <2>1, <1>13 DEF WaitReadTodo
  <2>2. CASE task_count = completed
    <3>1. Cardinality(Busy) = 0 /\ tasks_taken = task_count
      BY <2>2, <1>13, BusyFinite DEF WaitReadTodo, CountInv
    <3>2. Busy = {}
      BY <3>1, BusyFinite, FS_EmptySet
    <3>3. ~Counting
      BY <3>2, <1>13 DEF WaitReadTodo, Counting
    <3>4. \A i \in 1..Size : picking_tasks[i].complete
      BY <3>1, <3>2, <3>3, <1>13 DEF WaitReadTodo, CountInv, OwnInv, Size
    <3> QED
      BY <3>1, <3>2, <3>4, <1>13 DEF WaitReadTodo, Size
  <2> QED
    BY <2>1, <2>2
<1>14. CASE EndGather
  BY <1>14 DEF EndGather
<1>15. CASE DestroyBegin
  BY <1>15 DEF DestroyBegin
<1>16. CASE DestroyNotify
  BY <1>16 DEF DestroyNotify
<1>17. CASE JoinTaskThreads
  BY <1>17 DEF JoinTaskThreads
<1>18. ASSUME NEW t \in Threads, SpawnLock(t) PROVE QuietInv'
  BY <1>18 DEF SpawnLock
<1>19. ASSUME NEW t \in Threads, SpawnPublish(t) PROVE QuietInv'
  BY <1>19 DEF SpawnPublish
<1>20. ASSUME NEW t \in Threads, SpawnFull(t) PROVE QuietInv'
  BY <1>20 DEF SpawnFull
<1>21. ASSUME NEW t \in Threads, SpawnCount(t) PROVE QuietInv'
  BY <1>21 DEF SpawnCount
<1>22. ASSUME NEW w \in TaskWorkers, ReadTaken(w) PROVE QuietInv'
  BY <1>22 DEF ReadTaken
<1>23. ASSUME NEW w \in TaskWorkers, ReadCount(w) PROVE QuietInv'
  BY <1>23 DEF ReadCount
<1>24. ASSUME NEW w \in TaskWorkers, StartTaking(w) PROVE QuietInv'
  BY <1>24 DEF StartTaking
<1>25. ASSUME NEW w \in TaskWorkers, FailToStartTaking(w) PROVE QuietInv'
  BY <1>25 DEF FailToStartTaking
<1>26. ASSUME NEW w \in TaskWorkers, RereadTaken(w) PROVE QuietInv'
  BY <1>26 DEF RereadTaken
<1>27. ASSUME NEW w \in TaskWorkers, RereadCount(w) PROVE QuietInv'
  BY <1>27 DEF RereadCount
<1>28. ASSUME NEW w \in TaskWorkers, TakeTask(w) PROVE QuietInv'
  BY <1>28 DEF TakeTask
<1>29. ASSUME NEW w \in TaskWorkers, CheckBound(w) PROVE QuietInv'
  BY <1>29 DEF CheckBound
<1>30. ASSUME NEW w \in TaskWorkers, StopTaking(w) PROVE QuietInv'
  BY <1>30 DEF StopTaking
<1>31. ASSUME NEW w \in TaskWorkers, FinishTask(w) PROVE QuietInv'
  BY <1>31 DEF FinishTask
<1>32. ASSUME NEW w \in TaskWorkers, SetComplete(w) PROVE QuietInv'
  BY <1>32 DEF SetComplete
<1>33. ASSUME NEW w \in TaskWorkers, CountCompleted(w) PROVE QuietInv'
  BY <1>33 DEF CountCompleted
<1>34. ASSUME NEW w \in TaskWorkers, SleepLock(w) PROVE QuietInv'
  BY <1>34 DEF SleepLock
<1>35. ASSUME NEW w \in TaskWorkers, SleepDecide(w) PROVE QuietInv'
  BY <1>35 DEF SleepDecide
<1>36. ASSUME NEW w \in TaskWorkers, SpuriousWakeup(w) PROVE QuietInv'
  BY <1>36 DEF SpuriousWakeup
<1>37. ASSUME NEW w \in TaskWorkers, Wake(w) PROVE QuietInv'
  BY <1>37 DEF Wake
<1>38. ASSUME NEW w \in TaskWorkers, WakeDecide(w) PROVE QuietInv'
  BY <1>38 DEF WakeDecide
<1>39. CASE UNCHANGED vars
  BY <1>39 DEF vars
<1> QED
  BY <1>1, <1>2, <1>3, <1>4, <1>5, <1>6, <1>7, <1>8, <1>9, <1>10, <1>11, <1>12, <1>13,
     <1>14, <1>15, <1>16, <1>17, <1>18, <1>19, <1>20, <1>21, <1>22, <1>23, <1>24, <1>25,
     <1>26, <1>27, <1>28, <1>29, <1>30, <1>31, <1>32, <1>33, <1>34, <1>35, <1>36, <1>37,
     <1>38, <1>39 DEF Next, MainStep, SpawnStep, WorkerStep, Terminated, vars

\* Who holds the spin flag and has read both counters again takes a task that is
\* there: nobody else takes, and published tasks are never withdrawn.
LEMMA TakeStep ==
  ASSUME TypeOK, LabelInv, FlagInv, CountInv, TakeInv, QuietInv, [Next]_vars
  PROVE  TakeInv'
<1> USE ThreadsAssumption DEF TypeOK, LabelInv, Threads, counters, sync, locals, Goto,
   MainLabels, WorkerLabels, Quiet, Publishing, Taking, Owning, QuietInv, TakeInv,
   InBatch, FlagInv
<1>1. CASE PickNodesToExtend
  BY <1>1 DEF PickNodesToExtend
<1>2. CASE StartProcessing
  BY <1>2 DEF StartProcessing
<1>3. CASE ResetTaskCount
  BY <1>3 DEF ResetTaskCount
<1>4. CASE ResetTasksTaken
  BY <1>4 DEF ResetTasksTaken
<1>5. CASE ResetCompletedTasks
  BY <1>5 DEF ResetCompletedTasks
<1>6. CASE ClearPickingTasks
  BY <1>6 DEF ClearPickingTasks
<1>7. CASE NotifyTaskThreads
  BY <1>7 DEF NotifyTaskThreads
<1>8. CASE PublishProcessing
  BY <1>8 DEF PublishProcessing
<1>9. CASE CountProcessing
  BY <1>9 DEF CountProcessing
<1>10. CASE ProcessOwnShare
  BY <1>10 DEF ProcessOwnShare
<1>11. CASE FinishOwnShare
  BY <1>11 DEF FinishOwnShare
<1>12. CASE WaitReadCompleted
  BY <1>12 DEF WaitReadCompleted
<1>13. CASE WaitReadTodo
  <2>1. tasks_taken < task_count => completed # task_count
    BY <1>13, BusyFinite DEF WaitReadTodo, CountInv
  <2> QED
    BY <2>1, <1>13 DEF WaitReadTodo
<1>14. CASE EndGather
  BY <1>14 DEF EndGather
<1>15. CASE DestroyBegin
  BY <1>15 DEF DestroyBegin
<1>16. CASE DestroyNotify
  BY <1>16 DEF DestroyNotify
<1>17. CASE JoinTaskThreads
  BY <1>17 DEF JoinTaskThreads
<1>18. ASSUME NEW t \in Threads, SpawnLock(t) PROVE TakeInv'
  BY <1>18 DEF SpawnLock
<1>19. ASSUME NEW t \in Threads, SpawnPublish(t) PROVE TakeInv'
  BY <1>19 DEF SpawnPublish
<1>20. ASSUME NEW t \in Threads, SpawnFull(t) PROVE TakeInv'
  BY <1>20 DEF SpawnFull
<1>21. ASSUME NEW t \in Threads, SpawnCount(t) PROVE TakeInv'
  BY <1>21 DEF SpawnCount
<1>22. ASSUME NEW w \in TaskWorkers, ReadTaken(w) PROVE TakeInv'
  BY <1>22 DEF ReadTaken
<1>23. ASSUME NEW w \in TaskWorkers, ReadCount(w) PROVE TakeInv'
  BY <1>23 DEF ReadCount
<1>24. ASSUME NEW w \in TaskWorkers, StartTaking(w) PROVE TakeInv'
  BY <1>24 DEF StartTaking
<1>25. ASSUME NEW w \in TaskWorkers, FailToStartTaking(w) PROVE TakeInv'
  BY <1>25 DEF FailToStartTaking
<1>26. ASSUME NEW w \in TaskWorkers, RereadTaken(w) PROVE TakeInv'
  BY <1>26 DEF RereadTaken
<1>27. ASSUME NEW w \in TaskWorkers, RereadCount(w) PROVE TakeInv'
  BY <1>27 DEF RereadCount
<1>28. ASSUME NEW w \in TaskWorkers, TakeTask(w) PROVE TakeInv'
  BY <1>28 DEF TakeTask
<1>29. ASSUME NEW w \in TaskWorkers, CheckBound(w) PROVE TakeInv'
  BY <1>29 DEF CheckBound
<1>30. ASSUME NEW w \in TaskWorkers, StopTaking(w) PROVE TakeInv'
  BY <1>30 DEF StopTaking
<1>31. ASSUME NEW w \in TaskWorkers, FinishTask(w) PROVE TakeInv'
  BY <1>31 DEF FinishTask
<1>32. ASSUME NEW w \in TaskWorkers, SetComplete(w) PROVE TakeInv'
  BY <1>32 DEF SetComplete
<1>33. ASSUME NEW w \in TaskWorkers, CountCompleted(w) PROVE TakeInv'
  BY <1>33 DEF CountCompleted
<1>34. ASSUME NEW w \in TaskWorkers, SleepLock(w) PROVE TakeInv'
  BY <1>34 DEF SleepLock
<1>35. ASSUME NEW w \in TaskWorkers, SleepDecide(w) PROVE TakeInv'
  BY <1>35 DEF SleepDecide
<1>36. ASSUME NEW w \in TaskWorkers, SpuriousWakeup(w) PROVE TakeInv'
  BY <1>36 DEF SpuriousWakeup
<1>37. ASSUME NEW w \in TaskWorkers, Wake(w) PROVE TakeInv'
  BY <1>37 DEF Wake
<1>38. ASSUME NEW w \in TaskWorkers, WakeDecide(w) PROVE TakeInv'
  BY <1>38 DEF WakeDecide
<1>39. CASE UNCHANGED vars
  BY <1>39 DEF vars
<1> QED
  BY <1>1, <1>2, <1>3, <1>4, <1>5, <1>6, <1>7, <1>8, <1>9, <1>10, <1>11, <1>12, <1>13,
     <1>14, <1>15, <1>16, <1>17, <1>18, <1>19, <1>20, <1>21, <1>22, <1>23, <1>24, <1>25,
     <1>26, <1>27, <1>28, <1>29, <1>30, <1>31, <1>32, <1>33, <1>34, <1>35, <1>36, <1>37,
     <1>38, <1>39 DEF Next, MainStep, SpawnStep, WorkerStep, Terminated, vars

\* What appending to picking_tasks_ changes.
LEMMA PublishedTask ==
  ASSUME TypeOK, NEW type \in TaskTypes, picking_tasks' = NewTask(type)
  PROVE  /\ Size \in Nat /\ Size' = Size + 1
         /\ DOMAIN picking_tasks = 1..Size /\ DOMAIN picking_tasks' = 1..(Size + 1)
         /\ \A i \in 1..Size : picking_tasks'[i] = picking_tasks[i]
         /\ picking_tasks'[Size + 1] = [type |-> type, complete |-> FALSE]
BY DEF TypeOK, NewTask, Size

\* While the search thread publishes processing tasks, without the mutex, no task
\* thread publishes: only gathering tasks spawn.
LEMMA OnePublisher ==
  ASSUME TypeOK, LabelInv, KindInv, CountInv, OwnInv, QuietInv,
         pc[Main] \in {"publish", "publishCount"}
  PROVE  \A w \in TaskWorkers : pc[w] \notin {"spawn", "spawnCount"}
<1> SUFFICES ASSUME NEW w \in TaskWorkers, pc[w] \in {"spawn", "spawnCount"} PROVE FALSE
  OBVIOUS
<1>1. InBatch /\ phase = "processing"
  BY DEF KindInv, InBatch, Publishing
<1>2. id[w] + 1 \in DOMAIN picking_tasks
  BY <1>1 DEF TypeOK, OwnInv, CountInv, Busy, Owning, Size
<1> QED
  BY <1>1, <1>2 DEF KindInv

\* Publishing a processing task in a batch of processing tasks leaves it one.
LEMMA AllProcessing ==
  ASSUME TypeOK, picking_tasks' = NewTask("processing"),
         \A i \in 1..Size : picking_tasks[i].type = "processing"
  PROVE  \A i \in DOMAIN picking_tasks' : picking_tasks'[i].type = "processing"
<1>1. /\ Size \in Nat /\ DOMAIN picking_tasks' = 1..(Size + 1)
      /\ \A i \in 1..Size : picking_tasks'[i] = picking_tasks[i]
      /\ picking_tasks'[Size + 1].type = "processing"
  BY PublishedTask DEF TaskTypes
<1> QED
  BY <1>1

\* A batch of processing tasks stays one.
LEMMA KindStep ==
  ASSUME TypeOK, LabelInv, CountInv, OwnInv, QuietInv, KindInv, [Next]_vars
  PROVE  KindInv'
<1> USE ThreadsAssumption DEF TypeOK, LabelInv, Threads, counters, sync, locals, Goto,
   MainLabels, WorkerLabels, Quiet, Publishing, Taking, Owning, KindInv, InBatch,
   TaskTypes, Gathers
<1>1. CASE PickNodesToExtend
  BY <1>1 DEF PickNodesToExtend
<1>2. CASE StartProcessing
  BY <1>2 DEF StartProcessing
<1>3. CASE ResetTaskCount
  BY <1>3 DEF ResetTaskCount
<1>4. CASE ResetTasksTaken
  BY <1>4 DEF ResetTasksTaken
<1>5. CASE ResetCompletedTasks
  BY <1>5 DEF ResetCompletedTasks
<1>6. CASE ClearPickingTasks
  BY <1>6 DEF ClearPickingTasks, QuietInv, Busy
<1>7. CASE NotifyTaskThreads
  BY <1>7 DEF NotifyTaskThreads
<1>8. CASE PublishProcessing
  <2>1. picking_tasks' = NewTask("processing") /\ phase = "processing"
    BY <1>8 DEF PublishProcessing
  <2>2. \A w \in TaskWorkers : pc[w] \notin {"spawn", "spawnCount"}
    BY <1>8, OnePublisher DEF PublishProcessing
  <2>4. \A i \in 1..Size : picking_tasks[i].type = "processing"
    BY <2>1, <1>8, PublishedTask DEF PublishProcessing
  <2>3. \A i \in DOMAIN picking_tasks' : picking_tasks'[i].type = "processing"
    BY <2>1, <2>4, AllProcessing
  <2> QED
    BY <2>1, <2>2, <2>3, <1>8 DEF PublishProcessing
<1>9. CASE CountProcessing
  BY <1>9 DEF CountProcessing
<1>10. CASE ProcessOwnShare
  BY <1>10 DEF ProcessOwnShare
<1>11. CASE FinishOwnShare
  BY <1>11 DEF FinishOwnShare
<1>12. CASE WaitReadCompleted
  BY <1>12 DEF WaitReadCompleted
<1>13. CASE WaitReadTodo
  BY <1>13 DEF WaitReadTodo
<1>14. CASE EndGather
  BY <1>14 DEF EndGather
<1>15. CASE DestroyBegin
  BY <1>15 DEF DestroyBegin
<1>16. CASE DestroyNotify
  BY <1>16 DEF DestroyNotify
<1>17. CASE JoinTaskThreads
  BY <1>17 DEF JoinTaskThreads
<1>18. ASSUME NEW t \in Threads, SpawnLock(t) PROVE KindInv'
  BY <1>18 DEF SpawnLock
<1>19. ASSUME NEW t \in Threads, SpawnPublish(t) PROVE KindInv'
  <2>1. picking_tasks' = NewTask("gathering")
    BY <1>19 DEF SpawnPublish
  <2>2. \A w \in Busy : InBatch /\ id[w] + 1 \in 1..Size
    BY DEF OwnInv, CountInv, QuietInv, Busy, Size, Counting
  <2>3. InBatch => phase = "gathering"
    BY <2>2, <1>19 DEF SpawnPublish, Busy, Size
  <2>4. InBatch' = InBatch
    BY <1>19 DEF SpawnPublish
  <2>5. \A w \in TaskWorkers : pc'[w] \in {"spawn", "spawnCount"} => 
           w \in Busy /\ pc[w] \in {"spawn", "spawnCount"}
    BY <1>19 DEF SpawnPublish, Busy
  <2>6. ~(InBatch' /\ phase' = "processing")
    BY <2>3, <2>4, <1>19 DEF SpawnPublish
  <2>7. /\ pc'[Main] \in {"publish", "publishCount"} => phase' = "processing"
        /\ pc'[Main] \in {"notify", "spawn", "spawnCount"} => phase' = "gathering"
    BY <1>19 DEF SpawnPublish
  <2>8. ASSUME NEW w \in TaskWorkers, pc'[w] \in {"spawn", "spawnCount"}
        PROVE  picking_tasks'[id'[w] + 1].type = "gathering"
    <3>1. picking_tasks[id[w] + 1].type = "gathering" /\ id[w] + 1 \in 1..Size
      BY <2>2, <2>5, <2>8
    <3>2. picking_tasks'[id[w] + 1] = picking_tasks[id[w] + 1] /\ id' = id
      BY <2>1, <3>1, <1>19, PublishedTask DEF SpawnPublish
    <3> QED
      BY <3>1, <3>2
  <2> QED
    BY <2>6, <2>7, <2>8
<1>20. ASSUME NEW t \in Threads, SpawnFull(t) PROVE KindInv'
  BY <1>20 DEF SpawnFull
<1>21. ASSUME NEW t \in Threads, SpawnCount(t) PROVE KindInv'
  BY <1>21 DEF SpawnCount
<1>22. ASSUME NEW w \in TaskWorkers, ReadTaken(w) PROVE KindInv'
  BY <1>22 DEF ReadTaken
<1>23. ASSUME NEW w \in TaskWorkers, ReadCount(w) PROVE KindInv'
  BY <1>23 DEF ReadCount
<1>24. ASSUME NEW w \in TaskWorkers, StartTaking(w) PROVE KindInv'
  BY <1>24 DEF StartTaking
<1>25. ASSUME NEW w \in TaskWorkers, FailToStartTaking(w) PROVE KindInv'
  BY <1>25 DEF FailToStartTaking
<1>26. ASSUME NEW w \in TaskWorkers, RereadTaken(w) PROVE KindInv'
  BY <1>26 DEF RereadTaken
<1>27. ASSUME NEW w \in TaskWorkers, RereadCount(w) PROVE KindInv'
  BY <1>27 DEF RereadCount
<1>28. ASSUME NEW w \in TaskWorkers, TakeTask(w) PROVE KindInv'
  BY <1>28 DEF TakeTask
<1>29. ASSUME NEW w \in TaskWorkers, CheckBound(w) PROVE KindInv'
  BY <1>29 DEF CheckBound
<1>30. ASSUME NEW w \in TaskWorkers, StopTaking(w) PROVE KindInv'
  BY <1>30 DEF StopTaking
<1>31. ASSUME NEW w \in TaskWorkers, FinishTask(w) PROVE KindInv'
  BY <1>31 DEF FinishTask
<1>32. ASSUME NEW w \in TaskWorkers, SetComplete(w) PROVE KindInv'
  BY <1>32 DEF SetComplete
<1>33. ASSUME NEW w \in TaskWorkers, CountCompleted(w) PROVE KindInv'
  BY <1>33 DEF CountCompleted
<1>34. ASSUME NEW w \in TaskWorkers, SleepLock(w) PROVE KindInv'
  BY <1>34 DEF SleepLock
<1>35. ASSUME NEW w \in TaskWorkers, SleepDecide(w) PROVE KindInv'
  BY <1>35 DEF SleepDecide
<1>36. ASSUME NEW w \in TaskWorkers, SpuriousWakeup(w) PROVE KindInv'
  BY <1>36 DEF SpuriousWakeup
<1>37. ASSUME NEW w \in TaskWorkers, Wake(w) PROVE KindInv'
  BY <1>37 DEF Wake
<1>38. ASSUME NEW w \in TaskWorkers, WakeDecide(w) PROVE KindInv'
  BY <1>38 DEF WakeDecide
<1>39. CASE UNCHANGED vars
  BY <1>39 DEF vars
<1> QED
  BY <1>1, <1>2, <1>3, <1>4, <1>5, <1>6, <1>7, <1>8, <1>9, <1>10, <1>11, <1>12, <1>13,
     <1>14, <1>15, <1>16, <1>17, <1>18, <1>19, <1>20, <1>21, <1>22, <1>23, <1>24, <1>25,
     <1>26, <1>27, <1>28, <1>29, <1>30, <1>31, <1>32, <1>33, <1>34, <1>35, <1>36, <1>37,
     <1>38, <1>39 DEF Next, MainStep, SpawnStep, WorkerStep, Terminated, vars

\* The counters count: taken = completed + owned, published = counted.
LEMMA CountStep ==
  ASSUME TypeOK, LabelInv, MutexInv, CountInv, TakeInv, OwnInv, QuietInv, KindInv, [Next]_vars
  PROVE  CountInv'
<1> USE ThreadsAssumption DEF TypeOK, LabelInv, Threads, counters, sync, locals, Goto,
   MainLabels, WorkerLabels, Quiet, Publishing, Taking, Owning, CountInv, InBatch
<1>1. CASE PickNodesToExtend
  <2>1. Busy' = Busy /\ Counting' = Counting /\ Size' = Size
    BY <1>1 DEF PickNodesToExtend, Busy, Counting, Size
  <2> QED
    BY <2>1, <1>1 DEF PickNodesToExtend
<1>2. CASE StartProcessing
  <2>1. Busy' = Busy /\ Counting' = Counting /\ Size' = Size
    BY <1>2 DEF StartProcessing, Busy, Counting, Size
  <2> QED
    BY <2>1, <1>2 DEF StartProcessing
<1>3. CASE ResetTaskCount
  <2>1. Busy' = Busy /\ Counting' = Counting /\ Size' = Size
    BY <1>3 DEF ResetTaskCount, Busy, Counting, Size
  <2> QED
    BY <2>1, <1>3 DEF ResetTaskCount
<1>4. CASE ResetTasksTaken
  <2>1. Busy' = Busy /\ Counting' = Counting /\ Size' = Size
    BY <1>4 DEF ResetTasksTaken, Busy, Counting, Size
  <2> QED
    BY <2>1, <1>4 DEF ResetTasksTaken
<1>5. CASE ResetCompletedTasks
  <2>1. Busy' = Busy /\ Counting' = Counting /\ Size' = Size
    BY <1>5 DEF ResetCompletedTasks, Busy, Counting, Size
  <2> QED
    BY <2>1, <1>5 DEF ResetCompletedTasks
<1>6. CASE ClearPickingTasks
  <2>1. Busy' = {} /\ Cardinality(Busy') = 0
    BY <1>6, FS_EmptySet DEF ClearPickingTasks, QuietInv, Busy
  <2>2. Size' = 0 /\ ~Counting'
    BY <1>6 DEF ClearPickingTasks, QuietInv, Busy, Size, Counting
  <2> QED
    BY <2>1, <2>2, <1>6 DEF ClearPickingTasks, QuietInv
<1>7. CASE NotifyTaskThreads
  <2>1. Busy' = Busy /\ Counting' = Counting /\ Size' = Size
    BY <1>7 DEF NotifyTaskThreads, Busy, Counting, Size
  <2> QED
    BY <2>1, <1>7 DEF NotifyTaskThreads
<1>8. CASE PublishProcessing
  <2>1. Busy' = Busy /\ Counting'
    BY <1>8 DEF PublishProcessing, Busy, Counting
  <2>2. \A w \in TaskWorkers : pc[w] # "spawnCount"
    BY <1>8, OnePublisher DEF PublishProcessing
  <2>3. ~Counting
    BY <2>2, <1>8 DEF PublishProcessing, Counting
  <2>4. Size' = Size + 1
    BY <1>8, PublishedTask DEF PublishProcessing, TaskTypes
  <2> QED
    BY <2>1, <2>3, <2>4, <1>8 DEF PublishProcessing
<1>9. CASE CountProcessing
  <2>1. Busy' = Busy /\ Counting
    BY <1>9 DEF CountProcessing, Busy, Counting
  <2>2. \A w \in TaskWorkers : pc[w] # "spawnCount"
    BY <1>9, OnePublisher DEF CountProcessing
  <2>3. ~Counting' /\ Size' = Size
    BY <2>2, <1>9 DEF CountProcessing, Counting, Size
  <2> QED
    BY <2>1, <2>3, <1>9, BusyFinite DEF CountProcessing
<1>10. CASE ProcessOwnShare
  <2>1. Busy' = Busy /\ Counting' = Counting /\ Size' = Size
    BY <1>10 DEF ProcessOwnShare, Busy, Counting, Size
  <2> QED
    BY <2>1, <1>10 DEF ProcessOwnShare
<1>11. CASE FinishOwnShare
  <2>1. Busy' = Busy /\ Counting' = Counting /\ Size' = Size
    BY <1>11 DEF FinishOwnShare, Busy, Counting, Size
  <2> QED
    BY <2>1, <1>11 DEF FinishOwnShare
<1>12. CASE WaitReadCompleted
  <2>1. Busy' = Busy /\ Counting' = Counting /\ Size' = Size
    BY <1>12 DEF WaitReadCompleted, Busy, Counting, Size
  <2> QED
    BY <2>1, <1>12, BusyFinite DEF WaitReadCompleted
<1>13. CASE WaitReadTodo
  <2>1. Busy' = Busy /\ Counting' = Counting /\ Size' = Size
    BY <1>13 DEF WaitReadTodo, Busy, Counting, Size
  <2> QED
    BY <2>1, <1>13 DEF WaitReadTodo
<1>14. CASE EndGather
  <2>1. Busy' = Busy /\ Counting' = Counting /\ Size' = Size
    BY <1>14 DEF EndGather, Busy, Counting, Size
  <2> QED
    BY <2>1, <1>14 DEF EndGather
<1>15. CASE DestroyBegin
  <2>1. Busy' = Busy /\ Counting' = Counting /\ Size' = Size
    BY <1>15 DEF DestroyBegin, Busy, Counting, Size
  <2> QED
    BY <2>1, <1>15 DEF DestroyBegin
<1>16. CASE DestroyNotify
  <2>1. Busy' = Busy /\ Counting' = Counting /\ Size' = Size
    BY <1>16 DEF DestroyNotify, Busy, Counting, Size
  <2> QED
    BY <2>1, <1>16 DEF DestroyNotify
<1>17. CASE JoinTaskThreads
  <2>1. Busy' = Busy /\ Counting' = Counting /\ Size' = Size
    BY <1>17 DEF JoinTaskThreads, Busy, Counting, Size
  <2> QED
    BY <2>1, <1>17 DEF JoinTaskThreads
<1>18. ASSUME NEW t \in Threads, SpawnLock(t) PROVE CountInv'
  <2>1. Busy' = Busy /\ Counting' = Counting /\ Size' = Size
    BY <1>18 DEF SpawnLock, Busy, Counting, Size
  <2> QED
    BY <2>1, <1>18 DEF SpawnLock
<1>19. ASSUME NEW t \in Threads, SpawnPublish(t) PROVE CountInv'
  <2>1. Busy' = Busy /\ Counting'
    BY <1>19 DEF SpawnPublish, Busy, Counting
  <2>2. InBatch' = InBatch
    BY <1>19 DEF SpawnPublish
  <2>4. pc[Main] # "publishCount"
    BY <1>19, OnePublisher DEF SpawnPublish
  <2>5. \A s \in Threads \ {t} : pc[s] # "spawnCount" /\ pc'[s] = pc[s]
    BY <1>19 DEF SpawnPublish, MutexInv
  <2>6. ~Counting
    BY <2>4, <2>5, <1>19 DEF SpawnPublish, Counting
  <2>3. Size' = Size + 1
    BY <1>19, PublishedTask DEF SpawnPublish, TaskTypes
  <2> QED
    BY <2>1, <2>2, <2>3, <2>6, <1>19 DEF SpawnPublish
<1>20. ASSUME NEW t \in Threads, SpawnFull(t) PROVE CountInv'
  <2>1. Busy' = Busy /\ Counting' = Counting /\ Size' = Size
    BY <1>20 DEF SpawnFull, Busy, Counting, Size
  <2> QED
    BY <2>1, <1>20 DEF SpawnFull
<1>21. ASSUME NEW t \in Threads, SpawnCount(t) PROVE CountInv'
  <2>1. Busy' = Busy /\ Counting
    BY <1>21 DEF SpawnCount, Busy, Counting
  <2>2. InBatch' = InBatch
    BY <1>21 DEF SpawnCount
  <2>4. pc[Main] # "publishCount"
    BY <1>21, OnePublisher DEF SpawnCount
  <2>5. \A s \in Threads \ {t} : pc[s] # "spawnCount" /\ pc'[s] = pc[s]
    BY <1>21 DEF SpawnCount, MutexInv
  <2>6. ~Counting'
    BY <2>4, <2>5, <1>21 DEF SpawnCount, Counting
  <2>3. Size' = Size
    BY <1>21 DEF SpawnCount, Size
  <2> QED
    BY <2>1, <2>2, <2>3, <2>6, <1>21, BusyFinite DEF SpawnCount
<1>22. ASSUME NEW w \in TaskWorkers, ReadTaken(w) PROVE CountInv'
  <2>1. Busy' = Busy /\ Counting' = Counting /\ Size' = Size
    BY <1>22 DEF ReadTaken, Busy, Counting, Size
  <2> QED
    BY <2>1, <1>22 DEF ReadTaken
<1>23. ASSUME NEW w \in TaskWorkers, ReadCount(w) PROVE CountInv'
  <2>1. Busy' = Busy /\ Counting' = Counting /\ Size' = Size
    BY <1>23 DEF ReadCount, Busy, Counting, Size
  <2> QED
    BY <2>1, <1>23 DEF ReadCount
<1>24. ASSUME NEW w \in TaskWorkers, StartTaking(w) PROVE CountInv'
  <2>1. Busy' = Busy /\ Counting' = Counting /\ Size' = Size
    BY <1>24 DEF StartTaking, Busy, Counting, Size
  <2> QED
    BY <2>1, <1>24 DEF StartTaking
<1>25. ASSUME NEW w \in TaskWorkers, FailToStartTaking(w) PROVE CountInv'
  <2>1. Busy' = Busy /\ Counting' = Counting /\ Size' = Size
    BY <1>25 DEF FailToStartTaking, Busy, Counting, Size
  <2> QED
    BY <2>1, <1>25 DEF FailToStartTaking
<1>26. ASSUME NEW w \in TaskWorkers, RereadTaken(w) PROVE CountInv'
  <2>1. Busy' = Busy /\ Counting' = Counting /\ Size' = Size
    BY <1>26 DEF RereadTaken, Busy, Counting, Size
  <2> QED
    BY <2>1, <1>26 DEF RereadTaken
<1>27. ASSUME NEW w \in TaskWorkers, RereadCount(w) PROVE CountInv'
  <2>1. Busy' = Busy /\ Counting' = Counting /\ Size' = Size
    BY <1>27 DEF RereadCount, Busy, Counting, Size
  <2> QED
    BY <2>1, <1>27 DEF RereadCount
<1>28. ASSUME NEW w \in TaskWorkers, TakeTask(w) PROVE CountInv'
  <2>1. Busy' = Busy \cup {w} /\ w \notin Busy
    BY <1>28 DEF TakeTask, Busy
  <2>2. Cardinality(Busy') = Cardinality(Busy) + 1
    BY <2>1, BusyFinite, FS_AddElement
  <2>3. Counting' = Counting /\ Size' = Size
    BY <1>28 DEF TakeTask, Counting, Size
  <2>4. /\ InBatch /\ tasks_taken < task_count /\ tasks_taken' = tasks_taken + 1
        /\ pc'[Main] = pc[Main] /\ UNCHANGED <<task_count, completed_tasks, completed>>
    BY <1>28 DEF TakeTask, TakeInv
  <2> QED
    BY <2>2, <2>3, <2>4, BusyFinite
<1>29. ASSUME NEW w \in TaskWorkers, CheckBound(w) PROVE CountInv'
  <2>1. id[w] < Size
    BY <1>29 DEF CheckBound, OwnInv, QuietInv, Busy
  <2>2. Busy' = Busy /\ Counting' = Counting /\ Size' = Size
    BY <2>1, <1>29 DEF CheckBound, Busy, Counting, Size
  <2> QED
    BY <2>2, <1>29 DEF CheckBound
<1>30. ASSUME NEW w \in TaskWorkers, StopTaking(w) PROVE CountInv'
  <2>1. Busy' = Busy /\ Counting' = Counting /\ Size' = Size
    BY <1>30 DEF StopTaking, Busy, Counting, Size
  <2> QED
    BY <2>1, <1>30 DEF StopTaking
<1>31. ASSUME NEW w \in TaskWorkers, FinishTask(w) PROVE CountInv'
  <2>1. Busy' = Busy /\ Counting' = Counting /\ Size' = Size
    BY <1>31 DEF FinishTask, Busy, Counting, Size
  <2> QED
    BY <2>1, <1>31 DEF FinishTask
<1>32. ASSUME NEW w \in TaskWorkers, SetComplete(w) PROVE CountInv'
  <2>1. Busy' = Busy /\ Counting' = Counting
    BY <1>32 DEF SetComplete, Busy, Counting
  <2>2. Size' = Size
    BY <1>32 DEF SetComplete, Size
  <2> QED
    BY <2>1, <2>2, <1>32, BusyFinite DEF SetComplete
<1>33. ASSUME NEW w \in TaskWorkers, CountCompleted(w) PROVE CountInv'
  <2>1. Busy' = Busy \ {w} /\ w \in Busy
    BY <1>33 DEF CountCompleted, Busy
  <2>2. Cardinality(Busy') = Cardinality(Busy) - 1
    BY <2>1, BusyFinite, FS_RemoveElement
  <2>3. Counting' = Counting /\ Size' = Size
    BY <1>33 DEF CountCompleted, Counting, Size
  <2> QED
    BY <2>2, <2>3, <1>33, BusyFinite DEF CountCompleted
<1>34. ASSUME NEW w \in TaskWorkers, SleepLock(w) PROVE CountInv'
  <2>1. Busy' = Busy /\ Counting' = Counting /\ Size' = Size
    BY <1>34 DEF SleepLock, Busy, Counting, Size
  <2> QED
    BY <2>1, <1>34 DEF SleepLock
<1>35. ASSUME NEW w \in TaskWorkers, SleepDecide(w) PROVE CountInv'
  <2>1. Busy' = Busy /\ Counting' = Counting /\ Size' = Size
    BY <1>35 DEF SleepDecide, Busy, Counting, Size
  <2> QED
    BY <2>1, <1>35 DEF SleepDecide
<1>36. ASSUME NEW w \in TaskWorkers, SpuriousWakeup(w) PROVE CountInv'
  <2>1. Busy' = Busy /\ Counting' = Counting /\ Size' = Size
    BY <1>36 DEF SpuriousWakeup, Busy, Counting, Size
  <2> QED
    BY <2>1, <1>36 DEF SpuriousWakeup
<1>37. ASSUME NEW w \in TaskWorkers, Wake(w) PROVE CountInv'
  <2>1. Busy' = Busy /\ Counting' = Counting /\ Size' = Size
    BY <1>37 DEF Wake, Busy, Counting, Size
  <2> QED
    BY <2>1, <1>37 DEF Wake
<1>38. ASSUME NEW w \in TaskWorkers, WakeDecide(w) PROVE CountInv'
  <2>1. Busy' = Busy /\ Counting' = Counting /\ Size' = Size
    BY <1>38 DEF WakeDecide, Busy, Counting, Size
  <2> QED
    BY <2>1, <1>38 DEF WakeDecide
<1>39. CASE UNCHANGED vars
  <2>1. Busy' = Busy /\ Counting' = Counting /\ Size' = Size
    BY <1>39 DEF vars, Busy, Counting, Size
  <2> QED
    BY <2>1, <1>39 DEF vars
<1> QED
  BY <1>1, <1>2, <1>3, <1>4, <1>5, <1>6, <1>7, <1>8, <1>9, <1>10, <1>11, <1>12, <1>13,
     <1>14, <1>15, <1>16, <1>17, <1>18, <1>19, <1>20, <1>21, <1>22, <1>23, <1>24, <1>25,
     <1>26, <1>27, <1>28, <1>29, <1>30, <1>31, <1>32, <1>33, <1>34, <1>35, <1>36, <1>37,
     <1>38, <1>39 DEF Next, MainStep, SpawnStep, WorkerStep, Terminated, vars

\* A task is owned by the one thread that took it until it is complete.
LEMMA OwnStep ==
  ASSUME TypeOK, LabelInv, CountInv, TakeInv, OwnInv, QuietInv, [Next]_vars
  PROVE  OwnInv'
<1> USE ThreadsAssumption DEF TypeOK, LabelInv, Threads, counters, sync, locals, Goto,
   MainLabels, WorkerLabels, Quiet, Publishing, Taking, Owning, OwnInv
<1>1. CASE PickNodesToExtend
  <2>1. Busy' = Busy /\ (InBatch' => InBatch) /\ Size' = Size
    BY <1>1 DEF PickNodesToExtend, Busy, InBatch, Size
  <2>2. \A v \in Busy : pc'[v] = "finish" <=> pc[v] = "finish"
    BY <1>1 DEF PickNodesToExtend, Busy
  <2> QED
    BY <2>1, <2>2, <1>1 DEF PickNodesToExtend
<1>2. CASE StartProcessing
  <2>1. Busy' = Busy /\ (InBatch' => InBatch) /\ Size' = Size
    BY <1>2 DEF StartProcessing, Busy, InBatch, Size
  <2>2. \A v \in Busy : pc'[v] = "finish" <=> pc[v] = "finish"
    BY <1>2 DEF StartProcessing, Busy
  <2> QED
    BY <2>1, <2>2, <1>2 DEF StartProcessing
<1>3. CASE ResetTaskCount
  <2>1. Busy' = Busy /\ (InBatch' => InBatch) /\ Size' = Size
    BY <1>3 DEF ResetTaskCount, Busy, InBatch, Size
  <2>2. \A v \in Busy : pc'[v] = "finish" <=> pc[v] = "finish"
    BY <1>3 DEF ResetTaskCount, Busy
  <2> QED
    BY <2>1, <2>2, <1>3 DEF ResetTaskCount
<1>4. CASE ResetTasksTaken
  <2>1. Busy' = {} /\ ~InBatch'
    BY <1>4 DEF ResetTasksTaken, QuietInv, Busy, InBatch
  <2> QED
    BY <2>1
<1>5. CASE ResetCompletedTasks
  <2>1. Busy' = Busy /\ (InBatch' => InBatch) /\ Size' = Size
    BY <1>5 DEF ResetCompletedTasks, Busy, InBatch, Size
  <2>2. \A v \in Busy : pc'[v] = "finish" <=> pc[v] = "finish"
    BY <1>5 DEF ResetCompletedTasks, Busy
  <2> QED
    BY <2>1, <2>2, <1>5 DEF ResetCompletedTasks
<1>6. CASE ClearPickingTasks
  <2>1. Busy' = {} /\ Size' = 0
    BY <1>6 DEF ClearPickingTasks, QuietInv, Busy, Size
  <2> QED
    BY <2>1
<1>7. CASE NotifyTaskThreads
  <2>1. Busy' = Busy /\ (InBatch' => InBatch) /\ Size' = Size
    BY <1>7 DEF NotifyTaskThreads, Busy, InBatch, Size
  <2>2. \A v \in Busy : pc'[v] = "finish" <=> pc[v] = "finish"
    BY <1>7 DEF NotifyTaskThreads, Busy
  <2> QED
    BY <2>1, <2>2, <1>7 DEF NotifyTaskThreads
<1>8. CASE PublishProcessing
  <2>1. Busy' = Busy /\ InBatch /\ UNCHANGED <<tasks_taken, id>>
    BY <1>8 DEF PublishProcessing, Busy, InBatch, QuietInv
  <2>2. /\ Size \in Nat /\ Size' = Size + 1 /\ tasks_taken <= Size
        /\ \A i \in 1..Size : picking_tasks'[i] = picking_tasks[i]
        /\ picking_tasks'[Size + 1].complete = FALSE
    BY <2>1, <1>8, PublishedTask DEF PublishProcessing, TaskTypes, CountInv
  <2>3. \A v \in Busy : id[v] + 1 \in 1..Size /\ (pc'[v] = "finish" <=> pc[v] = "finish")
    BY <2>1, <2>2, <1>8 DEF PublishProcessing, Busy
  <2>4. \A v \in Busy' :
           /\ id'[v] < tasks_taken'
           /\ \A u \in Busy' : id'[u] = id'[v] => u = v
           /\ picking_tasks'[id'[v] + 1].complete <=> pc'[v] = "finish"
    BY <2>1, <2>2, <2>3
  <2>5. \A i \in 1..(Size + 1) :
           IF i <= tasks_taken'
           THEN picking_tasks'[i].complete \/ \E v \in Busy' : id'[v] = i - 1
           ELSE ~picking_tasks'[i].complete
    <3> SUFFICES ASSUME NEW i \in 1..(Size + 1)
        PROVE IF i <= tasks_taken'
              THEN picking_tasks'[i].complete \/ \E v \in Busy' : id'[v] = i - 1
              ELSE ~picking_tasks'[i].complete
      OBVIOUS
    <3>1. CASE i = Size + 1
      BY <3>1, <2>1, <2>2
    <3>2. CASE i \in 1..Size
      BY <3>2, <2>1, <2>2
    <3> QED
      BY <3>1, <3>2, <2>2
  <2> QED
    BY <2>2, <2>4, <2>5
<1>9. CASE CountProcessing
  <2>1. Busy' = Busy /\ (InBatch' => InBatch) /\ Size' = Size
    BY <1>9 DEF CountProcessing, Busy, InBatch, Size
  <2>2. \A v \in Busy : pc'[v] = "finish" <=> pc[v] = "finish"
    BY <1>9 DEF CountProcessing, Busy
  <2> QED
    BY <2>1, <2>2, <1>9 DEF CountProcessing
<1>10. CASE ProcessOwnShare
  <2>1. Busy' = Busy /\ (InBatch' => InBatch) /\ Size' = Size
    BY <1>10 DEF ProcessOwnShare, Busy, InBatch, Size
  <2>2. \A v \in Busy : pc'[v] = "finish" <=> pc[v] = "finish"
    BY <1>10 DEF ProcessOwnShare, Busy
  <2> QED
    BY <2>1, <2>2, <1>10 DEF ProcessOwnShare
<1>11. CASE FinishOwnShare
  <2>1. Busy' = Busy /\ (InBatch' => InBatch) /\ Size' = Size
    BY <1>11 DEF FinishOwnShare, Busy, InBatch, Size
  <2>2. \A v \in Busy : pc'[v] = "finish" <=> pc[v] = "finish"
    BY <1>11 DEF FinishOwnShare, Busy
  <2> QED
    BY <2>1, <2>2, <1>11 DEF FinishOwnShare
<1>12. CASE WaitReadCompleted
  <2>1. Busy' = Busy /\ (InBatch' => InBatch) /\ Size' = Size
    BY <1>12 DEF WaitReadCompleted, Busy, InBatch, Size
  <2>2. \A v \in Busy : pc'[v] = "finish" <=> pc[v] = "finish"
    BY <1>12 DEF WaitReadCompleted, Busy
  <2> QED
    BY <2>1, <2>2, <1>12 DEF WaitReadCompleted
<1>13. CASE WaitReadTodo
  <2>1. Busy' = Busy /\ (InBatch' => InBatch) /\ Size' = Size
    BY <1>13 DEF WaitReadTodo, Busy, InBatch, Size
  <2>2. \A v \in Busy : pc'[v] = "finish" <=> pc[v] = "finish"
    BY <1>13 DEF WaitReadTodo, Busy
  <2> QED
    BY <2>1, <2>2, <1>13 DEF WaitReadTodo
<1>14. CASE EndGather
  <2>1. Busy' = Busy /\ (InBatch' => InBatch) /\ Size' = Size
    BY <1>14 DEF EndGather, Busy, InBatch, Size
  <2>2. \A v \in Busy : pc'[v] = "finish" <=> pc[v] = "finish"
    BY <1>14 DEF EndGather, Busy
  <2> QED
    BY <2>1, <2>2, <1>14 DEF EndGather
<1>15. CASE DestroyBegin
  <2>1. Busy' = Busy /\ (InBatch' => InBatch) /\ Size' = Size
    BY <1>15 DEF DestroyBegin, Busy, InBatch, Size
  <2>2. \A v \in Busy : pc'[v] = "finish" <=> pc[v] = "finish"
    BY <1>15 DEF DestroyBegin, Busy
  <2> QED
    BY <2>1, <2>2, <1>15 DEF DestroyBegin
<1>16. CASE DestroyNotify
  <2>1. Busy' = Busy /\ (InBatch' => InBatch) /\ Size' = Size
    BY <1>16 DEF DestroyNotify, Busy, InBatch, Size
  <2>2. \A v \in Busy : pc'[v] = "finish" <=> pc[v] = "finish"
    BY <1>16 DEF DestroyNotify, Busy
  <2> QED
    BY <2>1, <2>2, <1>16 DEF DestroyNotify
<1>17. CASE JoinTaskThreads
  <2>1. Busy' = Busy /\ (InBatch' => InBatch) /\ Size' = Size
    BY <1>17 DEF JoinTaskThreads, Busy, InBatch, Size
  <2>2. \A v \in Busy : pc'[v] = "finish" <=> pc[v] = "finish"
    BY <1>17 DEF JoinTaskThreads, Busy
  <2> QED
    BY <2>1, <2>2, <1>17 DEF JoinTaskThreads
<1>18. ASSUME NEW t \in Threads, SpawnLock(t) PROVE OwnInv'
  <2>1. Busy' = Busy /\ (InBatch' => InBatch) /\ Size' = Size
    BY <1>18 DEF SpawnLock, Busy, InBatch, Size
  <2>2. \A v \in Busy : pc'[v] = "finish" <=> pc[v] = "finish"
    BY <1>18 DEF SpawnLock, Busy
  <2> QED
    BY <2>1, <2>2, <1>18 DEF SpawnLock
<1>19. ASSUME NEW t \in Threads, SpawnPublish(t) PROVE OwnInv'
  <2>1. Busy' = Busy /\ InBatch /\ UNCHANGED <<tasks_taken, id>>
    BY <1>19 DEF SpawnPublish, Busy, InBatch, QuietInv
  <2>2. /\ Size \in Nat /\ Size' = Size + 1 /\ tasks_taken <= Size
        /\ \A i \in 1..Size : picking_tasks'[i] = picking_tasks[i]
        /\ picking_tasks'[Size + 1].complete = FALSE
    BY <2>1, <1>19, PublishedTask DEF SpawnPublish, TaskTypes, CountInv
  <2>3. \A v \in Busy : id[v] + 1 \in 1..Size /\ (pc'[v] = "finish" <=> pc[v] = "finish")
    BY <2>1, <2>2, <1>19 DEF SpawnPublish, Busy
  <2>4. \A v \in Busy' :
           /\ id'[v] < tasks_taken'
           /\ \A u \in Busy' : id'[u] = id'[v] => u = v
           /\ picking_tasks'[id'[v] + 1].complete <=> pc'[v] = "finish"
    BY <2>1, <2>2, <2>3
  <2>5. \A i \in 1..(Size + 1) :
           IF i <= tasks_taken'
           THEN picking_tasks'[i].complete \/ \E v \in Busy' : id'[v] = i - 1
           ELSE ~picking_tasks'[i].complete
    <3> SUFFICES ASSUME NEW i \in 1..(Size + 1)
        PROVE IF i <= tasks_taken'
              THEN picking_tasks'[i].complete \/ \E v \in Busy' : id'[v] = i - 1
              ELSE ~picking_tasks'[i].complete
      OBVIOUS
    <3>1. CASE i = Size + 1
      BY <3>1, <2>1, <2>2
    <3>2. CASE i \in 1..Size
      BY <3>2, <2>1, <2>2
    <3> QED
      BY <3>1, <3>2, <2>2
  <2> QED
    BY <2>2, <2>4, <2>5
<1>20. ASSUME NEW t \in Threads, SpawnFull(t) PROVE OwnInv'
  <2>1. Busy' = Busy /\ (InBatch' => InBatch) /\ Size' = Size
    BY <1>20 DEF SpawnFull, Busy, InBatch, Size
  <2>2. \A v \in Busy : pc'[v] = "finish" <=> pc[v] = "finish"
    BY <1>20 DEF SpawnFull, Busy
  <2> QED
    BY <2>1, <2>2, <1>20 DEF SpawnFull
<1>21. ASSUME NEW t \in Threads, SpawnCount(t) PROVE OwnInv'
  <2>1. Busy' = Busy /\ (InBatch' => InBatch) /\ Size' = Size
    BY <1>21 DEF SpawnCount, Busy, InBatch, Size
  <2>2. \A v \in Busy : pc'[v] = "finish" <=> pc[v] = "finish"
    BY <1>21 DEF SpawnCount, Busy
  <2> QED
    BY <2>1, <2>2, <1>21 DEF SpawnCount
<1>22. ASSUME NEW w \in TaskWorkers, ReadTaken(w) PROVE OwnInv'
  <2>1. Busy' = Busy /\ (InBatch' => InBatch) /\ Size' = Size
    BY <1>22 DEF ReadTaken, Busy, InBatch, Size
  <2>2. \A v \in Busy : pc'[v] = "finish" <=> pc[v] = "finish"
    BY <1>22 DEF ReadTaken, Busy
  <2> QED
    BY <2>1, <2>2, <1>22 DEF ReadTaken
<1>23. ASSUME NEW w \in TaskWorkers, ReadCount(w) PROVE OwnInv'
  <2>1. Busy' = Busy /\ (InBatch' => InBatch) /\ Size' = Size
    BY <1>23 DEF ReadCount, Busy, InBatch, Size
  <2>2. \A v \in Busy : pc'[v] = "finish" <=> pc[v] = "finish"
    BY <1>23 DEF ReadCount, Busy
  <2> QED
    BY <2>1, <2>2, <1>23 DEF ReadCount
<1>24. ASSUME NEW w \in TaskWorkers, StartTaking(w) PROVE OwnInv'
  <2>1. Busy' = Busy /\ (InBatch' => InBatch) /\ Size' = Size
    BY <1>24 DEF StartTaking, Busy, InBatch, Size
  <2>2. \A v \in Busy : pc'[v] = "finish" <=> pc[v] = "finish"
    BY <1>24 DEF StartTaking, Busy
  <2> QED
    BY <2>1, <2>2, <1>24 DEF StartTaking
<1>25. ASSUME NEW w \in TaskWorkers, FailToStartTaking(w) PROVE OwnInv'
  <2>1. Busy' = Busy /\ (InBatch' => InBatch) /\ Size' = Size
    BY <1>25 DEF FailToStartTaking, Busy, InBatch, Size
  <2>2. \A v \in Busy : pc'[v] = "finish" <=> pc[v] = "finish"
    BY <1>25 DEF FailToStartTaking, Busy
  <2> QED
    BY <2>1, <2>2, <1>25 DEF FailToStartTaking
<1>26. ASSUME NEW w \in TaskWorkers, RereadTaken(w) PROVE OwnInv'
  <2>1. Busy' = Busy /\ (InBatch' => InBatch) /\ Size' = Size
    BY <1>26 DEF RereadTaken, Busy, InBatch, Size
  <2>2. \A v \in Busy : pc'[v] = "finish" <=> pc[v] = "finish"
    BY <1>26 DEF RereadTaken, Busy
  <2> QED
    BY <2>1, <2>2, <1>26 DEF RereadTaken
<1>27. ASSUME NEW w \in TaskWorkers, RereadCount(w) PROVE OwnInv'
  <2>1. Busy' = Busy /\ (InBatch' => InBatch) /\ Size' = Size
    BY <1>27 DEF RereadCount, Busy, InBatch, Size
  <2>2. \A v \in Busy : pc'[v] = "finish" <=> pc[v] = "finish"
    BY <1>27 DEF RereadCount, Busy
  <2> QED
    BY <2>1, <2>2, <1>27 DEF RereadCount
<1>28. ASSUME NEW w \in TaskWorkers, TakeTask(w) PROVE OwnInv'
  <2>1. Busy' = Busy \cup {w} /\ w \notin Busy
    BY <1>28 DEF TakeTask, Busy
  <2>2. /\ InBatch /\ tasks_taken < Size /\ Size' = Size /\ Size \in Nat
        /\ tasks_taken' = tasks_taken + 1 /\ UNCHANGED picking_tasks
        /\ id' = [id EXCEPT ![w] = tasks_taken]
    BY <1>28 DEF TakeTask, TakeInv, CountInv, Size
  <2>3. pc'[w] = "bound" /\ \A v \in Busy : pc'[v] = pc[v] /\ id'[v] = id[v]
    BY <2>1, <1>28 DEF TakeTask, Busy
  <2>4. ~picking_tasks[tasks_taken + 1].complete
    BY <2>2
  <2>5. \A v \in Busy' :
           /\ id'[v] < tasks_taken'
           /\ \A u \in Busy' : id'[u] = id'[v] => u = v
           /\ picking_tasks'[id'[v] + 1].complete <=> pc'[v] = "finish"
    BY <2>1, <2>2, <2>3, <2>4 DEF Busy
  <2>6. \A i \in 1..Size :
           IF i <= tasks_taken'
           THEN picking_tasks'[i].complete \/ \E v \in Busy' : id'[v] = i - 1
           ELSE ~picking_tasks'[i].complete
    <3> SUFFICES ASSUME NEW i \in 1..Size
        PROVE IF i <= tasks_taken'
              THEN picking_tasks'[i].complete \/ \E v \in Busy' : id'[v] = i - 1
              ELSE ~picking_tasks'[i].complete
      OBVIOUS
    <3>1. CASE i = tasks_taken + 1
      BY <3>1, <2>1, <2>2
    <3>2. CASE i # tasks_taken + 1
      <4>1. i <= tasks_taken' <=> i <= tasks_taken
        BY <3>2, <2>2
      <4>2. \A v \in Busy : v \in Busy' /\ id'[v] = id[v]
        BY <2>1, <2>3
      <4> QED
        BY <4>1, <4>2, <2>2
    <3> QED
      BY <3>1, <3>2
  <2> QED
    BY <2>2, <2>5, <2>6
<1>29. ASSUME NEW w \in TaskWorkers, CheckBound(w) PROVE OwnInv'
  <2>1. id[w] < Size
    BY <1>29 DEF CheckBound, CountInv, QuietInv, Busy, InBatch
  <2>2. Busy' = Busy /\ InBatch' = InBatch /\ Size' = Size
    BY <2>1, <1>29 DEF CheckBound, Busy, InBatch, Size
  <2>3. \A v \in Busy : pc'[v] = "finish" <=> pc[v] = "finish"
    BY <2>1, <1>29 DEF CheckBound, Busy
  <2> QED
    BY <2>2, <2>3, <1>29 DEF CheckBound
<1>30. ASSUME NEW w \in TaskWorkers, StopTaking(w) PROVE OwnInv'
  <2>1. Busy' = Busy /\ (InBatch' => InBatch) /\ Size' = Size
    BY <1>30 DEF StopTaking, Busy, InBatch, Size
  <2>2. \A v \in Busy : pc'[v] = "finish" <=> pc[v] = "finish"
    BY <1>30 DEF StopTaking, Busy
  <2> QED
    BY <2>1, <2>2, <1>30 DEF StopTaking
<1>31. ASSUME NEW w \in TaskWorkers, FinishTask(w) PROVE OwnInv'
  <2>1. Busy' = Busy /\ (InBatch' => InBatch) /\ Size' = Size
    BY <1>31 DEF FinishTask, Busy, InBatch, Size
  <2>2. \A v \in Busy : pc'[v] = "finish" <=> pc[v] = "finish"
    BY <1>31 DEF FinishTask, Busy
  <2> QED
    BY <2>1, <2>2, <1>31 DEF FinishTask
<1>32. ASSUME NEW w \in TaskWorkers, SetComplete(w) PROVE OwnInv'
  <2>1. w \in Busy /\ InBatch /\ Busy' = Busy /\ InBatch' = InBatch
    BY <1>32 DEF SetComplete, Busy, QuietInv, InBatch
  <2>2. id[w] < Size /\ Size \in Nat
    BY <2>1 DEF CountInv, Size
  <2>3. Size' = Size
    BY <1>32 DEF SetComplete, Size
  <2>4. \A i \in 1..Size : picking_tasks'[i].complete <=> (picking_tasks[i].complete \/ i = id[w] + 1)
    BY <2>2, <1>32 DEF SetComplete, Size
  <2>5. \A v \in Busy : id[v] + 1 \in 1..Size
    BY <2>1, <2>2 DEF CountInv, Busy
  <2>6. \A v \in Busy : pc'[v] = "finish" <=> (pc[v] = "finish" \/ v = w)
    BY <1>32 DEF SetComplete, Busy
  <2>7. UNCHANGED <<tasks_taken, id>>
    BY <1>32 DEF SetComplete
  <2>8. \A v \in Busy' :
           /\ id'[v] < tasks_taken'
           /\ \A u \in Busy' : id'[u] = id'[v] => u = v
    BY <2>1, <2>7
  <2>9. \A v \in Busy' : picking_tasks'[id'[v] + 1].complete <=> pc'[v] = "finish"
    <3> SUFFICES ASSUME NEW v \in Busy
        PROVE  picking_tasks'[id[v] + 1].complete <=> pc'[v] = "finish"
      BY <2>1, <2>7
    <3>1. id[v] \in Nat /\ id[w] \in Nat /\ id[v] + 1 \in 1..Size
      BY <2>1, <2>5 DEF Busy
    <3>2. id[v] + 1 = id[w] + 1 <=> v = w
      BY <3>1, <2>1
    <3>3. picking_tasks[id[v] + 1].complete <=> pc[v] = "finish"
      OBVIOUS
    <3> QED
      BY <3>1, <3>2, <3>3, <2>4, <2>6
  <2>10. \A i \in 1..Size :
           IF i <= tasks_taken'
           THEN picking_tasks'[i].complete \/ \E v \in Busy' : id'[v] = i - 1
           ELSE ~picking_tasks'[i].complete
    <3> SUFFICES ASSUME NEW i \in 1..Size
        PROVE IF i <= tasks_taken
              THEN picking_tasks'[i].complete \/ \E v \in Busy : id[v] = i - 1
              ELSE ~picking_tasks'[i].complete
      BY <2>1, <2>7
    <3>1. IF i <= tasks_taken
          THEN picking_tasks[i].complete \/ \E v \in Busy : id[v] = i - 1
          ELSE ~picking_tasks[i].complete
      BY <2>1
    <3>2. id[w] \in Nat /\ id[w] + 1 <= tasks_taken
      BY <2>1 DEF Busy
    <3> QED
      BY <3>1, <3>2, <2>2, <2>4
  <2> QED
    BY <2>3, <2>8, <2>9, <2>10
<1>33. ASSUME NEW w \in TaskWorkers, CountCompleted(w) PROVE OwnInv'
  <2>1. Busy' = Busy \ {w} /\ w \in Busy
    BY <1>33 DEF CountCompleted, Busy
  <2>2. /\ InBatch' = InBatch /\ Size' = Size /\ UNCHANGED <<picking_tasks, tasks_taken>>
        /\ id' = [id EXCEPT ![w] = 0]
    BY <1>33 DEF CountCompleted, InBatch, Size
  <2>3. \A v \in Busy' : pc'[v] = pc[v] /\ id'[v] = id[v]
    BY <2>1, <1>33 DEF CountCompleted, Busy
  <2>4. picking_tasks[id[w] + 1].complete
    BY <2>1, <1>33 DEF CountCompleted
  <2>5. \A v \in Busy' :
           /\ id'[v] < tasks_taken'
           /\ \A u \in Busy' : id'[u] = id'[v] => u = v
           /\ picking_tasks'[id'[v] + 1].complete <=> pc'[v] = "finish"
    BY <2>1, <2>2, <2>3
  <2>6. InBatch' => \A i \in 1..Size :
           IF i <= tasks_taken'
           THEN picking_tasks'[i].complete \/ \E v \in Busy' : id'[v] = i - 1
           ELSE ~picking_tasks'[i].complete
    <3> SUFFICES ASSUME InBatch, NEW i \in 1..Size
        PROVE IF i <= tasks_taken
              THEN picking_tasks[i].complete \/ \E v \in Busy' : id'[v] = i - 1
              ELSE ~picking_tasks[i].complete
      BY <2>2
    <3>1. IF i <= tasks_taken
          THEN picking_tasks[i].complete \/ \E v \in Busy : id[v] = i - 1
          ELSE ~picking_tasks[i].complete
      OBVIOUS
    <3>2. CASE i = id[w] + 1
      <4>1. id[w] \in Nat /\ id[w] + 1 <= tasks_taken
        BY <2>1 DEF Busy
      <4> QED
        BY <4>1, <3>2, <2>4
    <3>3. CASE i # id[w] + 1
      <4>1. \A v \in Busy : id[v] = i - 1 => v \in Busy' /\ id'[v] = id[v]
        <5> SUFFICES ASSUME NEW v \in Busy, id[v] = i - 1 PROVE v # w
          BY <2>1, <2>3
        <5> QED
          BY <3>3, <2>1 DEF Busy
      <4> QED
        BY <4>1, <3>1
    <3> QED
      BY <3>2, <3>3
  <2> QED
    BY <2>2, <2>5, <2>6
<1>34. ASSUME NEW w \in TaskWorkers, SleepLock(w) PROVE OwnInv'
  <2>1. Busy' = Busy /\ (InBatch' => InBatch) /\ Size' = Size
    BY <1>34 DEF SleepLock, Busy, InBatch, Size
  <2>2. \A v \in Busy : pc'[v] = "finish" <=> pc[v] = "finish"
    BY <1>34 DEF SleepLock, Busy
  <2> QED
    BY <2>1, <2>2, <1>34 DEF SleepLock
<1>35. ASSUME NEW w \in TaskWorkers, SleepDecide(w) PROVE OwnInv'
  <2>1. Busy' = Busy /\ (InBatch' => InBatch) /\ Size' = Size
    BY <1>35 DEF SleepDecide, Busy, InBatch, Size
  <2>2. \A v \in Busy : pc'[v] = "finish" <=> pc[v] = "finish"
    BY <1>35 DEF SleepDecide, Busy
  <2> QED
    BY <2>1, <2>2, <1>35 DEF SleepDecide
<1>36. ASSUME NEW w \in TaskWorkers, SpuriousWakeup(w) PROVE OwnInv'
  <2>1. Busy' = Busy /\ (InBatch' => InBatch) /\ Size' = Size
    BY <1>36 DEF SpuriousWakeup, Busy, InBatch, Size
  <2>2. \A v \in Busy : pc'[v] = "finish" <=> pc[v] = "finish"
    BY <1>36 DEF SpuriousWakeup, Busy
  <2> QED
    BY <2>1, <2>2, <1>36 DEF SpuriousWakeup
<1>37. ASSUME NEW w \in TaskWorkers, Wake(w) PROVE OwnInv'
  <2>1. Busy' = Busy /\ (InBatch' => InBatch) /\ Size' = Size
    BY <1>37 DEF Wake, Busy, InBatch, Size
  <2>2. \A v \in Busy : pc'[v] = "finish" <=> pc[v] = "finish"
    BY <1>37 DEF Wake, Busy
  <2> QED
    BY <2>1, <2>2, <1>37 DEF Wake
<1>38. ASSUME NEW w \in TaskWorkers, WakeDecide(w) PROVE OwnInv'
  <2>1. Busy' = Busy /\ (InBatch' => InBatch) /\ Size' = Size
    BY <1>38 DEF WakeDecide, Busy, InBatch, Size
  <2>2. \A v \in Busy : pc'[v] = "finish" <=> pc[v] = "finish"
    BY <1>38 DEF WakeDecide, Busy
  <2> QED
    BY <2>1, <2>2, <1>38 DEF WakeDecide
<1>39. CASE UNCHANGED vars
  <2>1. Busy' = Busy /\ InBatch' = InBatch /\ Size' = Size
    BY <1>39 DEF vars, Busy, InBatch, Size
  <2> QED
    BY <2>1, <1>39 DEF vars
<1> QED
  BY <1>1, <1>2, <1>3, <1>4, <1>5, <1>6, <1>7, <1>8, <1>9, <1>10, <1>11, <1>12, <1>13,
     <1>14, <1>15, <1>16, <1>17, <1>18, <1>19, <1>20, <1>21, <1>22, <1>23, <1>24, <1>25,
     <1>26, <1>27, <1>28, <1>29, <1>30, <1>31, <1>32, <1>33, <1>34, <1>35, <1>36, <1>37,
     <1>38, <1>39 DEF Next, MainStep, SpawnStep, WorkerStep, Terminated, vars

\* Both places that publish stay within what was reserved.
LEMMA CapacityStep ==
  ASSUME TypeOK, NoReallocation, [Next]_vars
  PROVE  NoReallocation'
<1> USE DEF NoReallocation, Size
<1>1. CASE PublishProcessing
  <2>1. Size' = Size + 1 /\ Size \in Nat
    BY <1>1, PublishedTask DEF PublishProcessing, TaskTypes
  <2>2. Size < Cardinality(TaskWorkers) /\ Cardinality(TaskWorkers) \in Nat
    BY <1>1, ThreadsAssumption, FS_CardinalityType DEF PublishProcessing
  <2> QED
    BY <2>1, <2>2, CapacityAssumption
<1>2. ASSUME NEW t \in Threads, SpawnPublish(t) PROVE NoReallocation'
  <2>1. Size' = Size + 1 /\ Size \in Nat
    BY <1>2, PublishedTask DEF SpawnPublish, TaskTypes
  <2>2. Size < MAX_TASKS
    BY <1>2 DEF SpawnPublish
  <2> QED
    BY <2>1, <2>2, CapacityAssumption
<1>3. ASSUME NEW w \in TaskWorkers, SetComplete(w) PROVE NoReallocation'
  BY <1>3 DEF SetComplete, TypeOK
<1>4. CASE ClearPickingTasks
  BY <1>4, CapacityAssumption DEF ClearPickingTasks
<1>5. CASE UNCHANGED picking_tasks
  BY <1>5
<1> QED
  BY <1>1, <1>2, <1>3, <1>4, <1>5 DEF Next, MainStep, SpawnStep, WorkerStep, Terminated,
     vars, counters, sync, locals, PickNodesToExtend, StartProcessing, ResetTaskCount,
     ResetTasksTaken, ResetCompletedTasks, NotifyTaskThreads, CountProcessing,
     ProcessOwnShare, FinishOwnShare, WaitReadCompleted, WaitReadTodo, EndGather,
     DestroyBegin, DestroyNotify, JoinTaskThreads, SpawnLock, SpawnFull, SpawnCount,
     ReadTaken, ReadCount, StartTaking, FailToStartTaking, RereadTaken, RereadCount,
     TakeTask, CheckBound, StopTaking, FinishTask, CountCompleted, SleepLock,
     SleepDecide, SpuriousWakeup, Wake, WakeDecide

\* The queue starts with the invariant.
LEMMA InitIInv == Init => IInv
<1> SUFFICES ASSUME Init PROVE IInv
  OBVIOUS
<1> USE ThreadsAssumption DEF Init
<1>1. \A w \in TaskWorkers : w \in Threads /\ pc[w] = "nta1"
  BY DEF Threads
<1>2. Main \in Threads /\ pc[Main] = "iterate" /\ Size = 0
  BY DEF Threads, Size
<1>3. Busy = {} /\ ~InBatch /\ \A t \in Threads : pc[t] \in {"iterate", "nta1"}
  BY <1>1, <1>2 DEF Busy, Owning, InBatch, Publishing, Threads
<1>4. TypeOK
  <2>1. pc \in [Threads -> MainLabels \cup WorkerLabels]
    BY DEF MainLabels, Quiet, WorkerLabels
  <2>2. picking_tasks \in Seq([type : TaskTypes, complete : BOOLEAN])
    BY EmptySeq
  <2>3. nta \in [TaskWorkers -> Nat] /\ id \in [TaskWorkers -> Nat]
    OBVIOUS
  <2> QED
    BY <2>1, <2>2, <2>3 DEF TypeOK, TaskTypes
<1>5. LabelInv /\ FlagInv /\ MutexInv
  BY <1>1, <1>2, <1>3 DEF LabelInv, FlagInv, MutexInv, MainLabels, Quiet, WorkerLabels, Taking
<1>6. KindInv /\ CountInv /\ TakeInv /\ OwnInv
  BY <1>1, <1>2, <1>3 DEF KindInv, CountInv, TakeInv, OwnInv
<1>7. QuietInv /\ SleepInv
  BY <1>2, <1>3 DEF QuietInv, SleepInv
<1>8. NoReallocation
  BY <1>2, CapacityAssumption DEF NoReallocation
<1> QED
  BY <1>4, <1>5, <1>6, <1>7, <1>8 DEF IInv

\* Every step keeps the invariant.
LEMMA NextIInv == IInv /\ [Next]_vars => IInv'
BY TypeStep, ControlStep, SleepStep, QuietStep, TakeStep, KindStep, CountStep, OwnStep,
   CapacityStep DEF IInv

\* The inductive invariant holds in every reachable state, for every number of
\* task threads and every capacity.
THEOREM Invariance == Spec => []IInv
BY InitIInv, NextIInv, PTL DEF Spec

\* Every variable has its type, always.
THEOREM TypeCorrect == Spec => []TypeOK
<1>1. IInv => TypeOK
  BY DEF IInv
<1> QED
  BY <1>1, Invariance, PTL

\* No task is run by two task threads of a SearchWorker, nor run again, for every
\* number of them (RunTasks).
THEOREM TaskTakenOnce == Spec => []NoTaskTwice
<1>1. IInv => NoTaskTwice
  <2> SUFFICES ASSUME IInv, NEW w \in TaskWorkers, pc[w] \in Owning
      PROVE  /\ \A v \in TaskWorkers \ {w} : pc[v] \in Owning => id[v] # id[w]
             /\ id[w] < Size
             /\ pc[w] # "finish" => ~picking_tasks[id[w] + 1].complete
    BY DEF NoTaskTwice
  <2>1. w \in Busy /\ InBatch
    BY DEF Busy, IInv, QuietInv, LabelInv, InBatch, MainLabels
  <2>2. id[w] < Size
    BY <2>1 DEF IInv, OwnInv, CountInv, TypeOK, Size, Busy
  <2> QED
    BY <2>1, <2>2 DEF IInv, OwnInv, Busy
<1> QED
  BY <1>1, Invariance, PTL

\* Once WaitForTasks has returned the search thread is alone with the results,
\* for every number of task threads.
THEOREM BarrierIsSafe == Spec => []BarrierHolds
<1>1. IInv => BarrierHolds
  BY DEF IInv, BarrierHolds, QuietInv, Busy, TakeInv, InBatch, Quiet, Publishing
<1> QED
  BY <1>1, Invariance, PTL

\* picking_tasks_ never outgrows what ResetTasks reserved, as long as no more task
\* threads are configured than were reserved for.
THEOREM CapacityIsEnough == Spec => []NoReallocation
<1>1. IInv => NoReallocation
  BY DEF IInv
<1> QED
  BY <1>1, Invariance, PTL

\* No task thread sleeps through a batch (PickNodesToExtend's notify_all).
THEOREM SleepersAreWoken == Spec => []NoSleeperInBatch
<1>1. IInv => NoSleeperInBatch
  BY DEF IInv, NoSleeperInBatch, SleepInv, TypeOK
<1> QED
  BY <1>1, Invariance, PTL

\* A step that keeps the tasks and their owners is a stutter of the abstract queue.
LEMMA SameStatus ==
  ASSUME UNCHANGED picking_tasks,
         \A v \in TaskWorkers : /\ pc'[v] \in Owning <=> pc[v] \in Owning
                                /\ pc[v] \in Owning => id'[v] = id[v]
  PROVE  AbstractStatus' = AbstractStatus
<1>1. \A i \in DOMAIN picking_tasks : StatusOf(i)' = StatusOf(i)
  BY DEF StatusOf
<1> QED
  BY <1>1 DEF AbstractStatus

\* The abstract status in terms of the owners.
LEMMA StatusIsShaped == IInv => StatusShape
<1> SUFFICES ASSUME IInv PROVE StatusShape
  OBVIOUS
<1>1. DOMAIN picking_tasks = 1..Size /\ Size \in Nat
  BY DEF IInv, TypeOK, Size
<1>2. \A w \in Busy : id[w] \in Nat /\ id[w] + 1 \in 1..Size /\ id[w] < tasks_taken
  BY <1>1 DEF IInv, TypeOK, Busy, OwnInv, CountInv, QuietInv, InBatch, LabelInv, MainLabels
<1>3. ASSUME NEW i \in 1..Size
      PROVE  AbstractStatus[i] = IF picking_tasks[i].complete THEN "done"
                                 ELSE IF \E w \in Busy : id[w] = i - 1 THEN "running" ELSE "todo"
  <2>1. AbstractStatus[i] = StatusOf(i)
    BY <1>1 DEF AbstractStatus
  <2>2. picking_tasks[i].complete \in BOOLEAN
    <3>1. picking_tasks[i] \in [type : TaskTypes, complete : BOOLEAN]
      BY <1>1, ElementOfSeq DEF IInv, TypeOK, Size
    <3> QED
      BY <3>1
  <2>3. (\E w \in Busy : id[w] = i - 1) <=> (\E w \in TaskWorkers : pc[w] \in Owning /\ id[w] = i - 1)
    BY DEF Busy
  <2> QED
    BY <2>1, <2>2, <2>3 DEF StatusOf
<1>4. AbstractStatus = [i \in 1..Size |-> AbstractStatus[i]]
  BY <1>1 DEF AbstractStatus
<1> QED
  BY <1>1, <1>2, <1>3, <1>4 DEF StatusShape

\* Publishing appends a task that is still to do.
LEMMA StatusPublish ==
  ASSUME IInv, IInv', NEW type \in TaskTypes, picking_tasks' = NewTask(type),
         InBatch, Busy' = Busy, id' = id
  PROVE  AbstractStatus' = Append(AbstractStatus, "todo")
<1>1. /\ Size' = Size + 1
      /\ \A i \in 1..Size : picking_tasks'[i] = picking_tasks[i]
      /\ picking_tasks'[Size + 1].complete = FALSE
  <2>1. TypeOK
    BY DEF IInv
  <2> QED
    BY <2>1, PublishedTask DEF NewTask
<1>2. StatusShape /\ StatusShape'
  BY StatusIsShaped, PTL
<1>3. \A i \in 1..Size : AbstractStatus[i] \in {"done", "running", "todo"}
  BY <1>2 DEF StatusShape
<1>4. AbstractStatus \in Seq({"done", "running", "todo"}) /\ Len(AbstractStatus) = Size
  BY <1>2, <1>3 DEF StatusShape
<1>5. \A i \in 1..Size : AbstractStatus'[i] = AbstractStatus[i]
  BY <1>1, <1>2 DEF StatusShape
<1>6. AbstractStatus'[Size + 1] = "todo"
  <2>1. \A w \in Busy : id[w] # Size + 1 - 1
    BY <1>2 DEF StatusShape
  <2>2. Size + 1 \in 1..(Size + 1)
    BY <1>2 DEF StatusShape
  <2> QED
    BY <1>1, <1>2, <2>1, <2>2 DEF StatusShape
<1>7. AbstractStatus' = [i \in 1..(Size + 1) |-> IF i = Size + 1 THEN "todo" ELSE AbstractStatus[i]]
  <2>1. AbstractStatus' = [i \in 1..(Size + 1) |-> AbstractStatus'[i]]
    BY <1>1, <1>2 DEF StatusShape
  <2>2. \A i \in 1..(Size + 1) : i \in 1..Size \/ i = Size + 1
    BY <1>2 DEF StatusShape
  <2> QED
    BY <2>1, <2>2, <1>5, <1>6
<1> QED
  BY <1>2, <1>4, <1>7 DEF StatusShape

\* Every step of the atomics is a step of the abstract queue or a stutter.
LEMMA RefineStep ==
  ASSUME IInv, IInv', [Next]_vars
  PROVE  [Barrier!Next]_(Barrier!vars)
<1> USE ThreadsAssumption DEF TypeOK, LabelInv, Threads, counters, sync, locals, Goto,
   MainLabels, WorkerLabels, Quiet, Publishing, Taking, Owning
<1>0. /\ StatusShape /\ StatusShape'
      /\ TypeOK /\ LabelInv
  BY StatusIsShaped, PTL DEF IInv
<1> USE <1>0
<1>1. CASE PickNodesToExtend
  <2>1. UNCHANGED AbstractStatus
    BY <1>1, SameStatus DEF PickNodesToExtend
  <2>2. UNCHANGED AbstractBarrier
    BY <1>1 DEF PickNodesToExtend, AbstractBarrier
  <2> QED
    BY <2>1, <2>2 DEF Barrier!vars
<1>2. CASE StartProcessing
  <2>1. UNCHANGED AbstractStatus
    BY <1>2, SameStatus DEF StartProcessing
  <2>2. UNCHANGED AbstractBarrier
    BY <1>2 DEF StartProcessing, AbstractBarrier
  <2> QED
    BY <2>1, <2>2 DEF Barrier!vars
<1>3. CASE ResetTaskCount
  <2>1. UNCHANGED AbstractStatus
    BY <1>3, SameStatus DEF ResetTaskCount
  <2>2. UNCHANGED AbstractBarrier
    BY <1>3 DEF ResetTaskCount, AbstractBarrier
  <2> QED
    BY <2>1, <2>2 DEF Barrier!vars
<1>4. CASE ResetTasksTaken
  <2>1. UNCHANGED AbstractStatus
    BY <1>4, SameStatus DEF ResetTasksTaken
  <2>2. UNCHANGED AbstractBarrier
    BY <1>4 DEF ResetTasksTaken, AbstractBarrier
  <2> QED
    BY <2>1, <2>2 DEF Barrier!vars
<1>5. CASE ResetCompletedTasks
  <2>1. UNCHANGED AbstractStatus
    BY <1>5, SameStatus DEF ResetCompletedTasks
  <2>2. UNCHANGED AbstractBarrier
    BY <1>5 DEF ResetCompletedTasks, AbstractBarrier
  <2> QED
    BY <2>1, <2>2 DEF Barrier!vars
<1>6. CASE ClearPickingTasks
  <2>1. AbstractBarrier = "passed" /\ AbstractBarrier' = "open"
    BY <1>6 DEF ClearPickingTasks, AbstractBarrier
  <2>2. AbstractStatus' = <<>>
    BY <1>6 DEF ClearPickingTasks, AbstractStatus
  <2> QED
    BY <2>1, <2>2 DEF Barrier!NewBatch, Barrier!Next
<1>7. CASE NotifyTaskThreads
  <2>1. UNCHANGED AbstractStatus
    BY <1>7, SameStatus DEF NotifyTaskThreads
  <2>2. UNCHANGED AbstractBarrier
    BY <1>7 DEF NotifyTaskThreads, AbstractBarrier
  <2> QED
    BY <2>1, <2>2 DEF Barrier!vars
<1>8. CASE PublishProcessing
  <2>1. InBatch /\ Busy' = Busy /\ UNCHANGED id
    BY <1>8 DEF PublishProcessing, InBatch, Busy
  <2>2. AbstractStatus' = Append(AbstractStatus, "todo")
    BY <1>8, <2>1, StatusPublish DEF PublishProcessing, TaskTypes
  <2>3. AbstractBarrier = "open" /\ AbstractBarrier' = "open"
    BY <1>8 DEF PublishProcessing, AbstractBarrier
  <2> QED
    BY <2>2, <2>3 DEF Barrier!Publish, Barrier!Next
<1>9. CASE CountProcessing
  <2>1. UNCHANGED AbstractStatus
    BY <1>9, SameStatus DEF CountProcessing
  <2>2. UNCHANGED AbstractBarrier
    BY <1>9 DEF CountProcessing, AbstractBarrier
  <2> QED
    BY <2>1, <2>2 DEF Barrier!vars
<1>10. CASE ProcessOwnShare
  <2>1. UNCHANGED AbstractStatus
    BY <1>10, SameStatus DEF ProcessOwnShare
  <2>2. UNCHANGED AbstractBarrier
    BY <1>10 DEF ProcessOwnShare, AbstractBarrier
  <2> QED
    BY <2>1, <2>2 DEF Barrier!vars
<1>11. CASE FinishOwnShare
  <2>1. AbstractBarrier = "open" /\ AbstractBarrier' = "closing"
    BY <1>11 DEF FinishOwnShare, AbstractBarrier
  <2>2. UNCHANGED AbstractStatus
    BY <1>11, SameStatus DEF FinishOwnShare
  <2> QED
    BY <2>1, <2>2 DEF Barrier!Close, Barrier!Next
<1>12. CASE WaitReadCompleted
  <2>1. UNCHANGED AbstractStatus
    BY <1>12, SameStatus DEF WaitReadCompleted
  <2>2. UNCHANGED AbstractBarrier
    BY <1>12 DEF WaitReadCompleted, AbstractBarrier
  <2> QED
    BY <2>1, <2>2 DEF Barrier!vars
<1>13. CASE WaitReadTodo
  <2>2. UNCHANGED AbstractStatus
    BY <1>13, SameStatus DEF WaitReadTodo
  <2>3. CASE pc'[Main] = "wait1"
    <3>1. UNCHANGED AbstractBarrier
      BY <2>3, <1>13 DEF WaitReadTodo, AbstractBarrier
    <3> QED
      BY <2>2, <3>1 DEF Barrier!vars
  <2>4. CASE pc'[Main] = "waited"
    <3>1. AbstractBarrier = "closing" /\ AbstractBarrier' = "passed"
      BY <2>4, <1>13 DEF WaitReadTodo, AbstractBarrier
    <3>2. \A i \in 1..Size : picking_tasks[i].complete
      BY <2>4, <1>13, <1>0 DEF WaitReadTodo, IInv, QuietInv, StatusShape
    <3>3. \A i \in DOMAIN AbstractStatus : AbstractStatus[i] = "done"
      BY <3>2, <1>0 DEF StatusShape
    <3> QED
      BY <2>2, <3>1, <3>3 DEF Barrier!Pass, Barrier!AllDone, Barrier!Next
  <2> QED
    BY <2>3, <2>4, <1>13 DEF WaitReadTodo
<1>14. CASE EndGather
  <2>1. UNCHANGED AbstractStatus
    BY <1>14, SameStatus DEF EndGather
  <2>2. UNCHANGED AbstractBarrier
    BY <1>14 DEF EndGather, AbstractBarrier
  <2> QED
    BY <2>1, <2>2 DEF Barrier!vars
<1>15. CASE DestroyBegin
  <2>1. UNCHANGED AbstractStatus
    BY <1>15, SameStatus DEF DestroyBegin
  <2>2. UNCHANGED AbstractBarrier
    BY <1>15 DEF DestroyBegin, AbstractBarrier
  <2> QED
    BY <2>1, <2>2 DEF Barrier!vars
<1>16. CASE DestroyNotify
  <2>1. UNCHANGED AbstractStatus
    BY <1>16, SameStatus DEF DestroyNotify
  <2>2. UNCHANGED AbstractBarrier
    BY <1>16 DEF DestroyNotify, AbstractBarrier
  <2> QED
    BY <2>1, <2>2 DEF Barrier!vars
<1>17. CASE JoinTaskThreads
  <2>1. UNCHANGED AbstractStatus
    BY <1>17, SameStatus DEF JoinTaskThreads
  <2>2. UNCHANGED AbstractBarrier
    BY <1>17 DEF JoinTaskThreads, AbstractBarrier
  <2> QED
    BY <2>1, <2>2 DEF Barrier!vars
<1>18. ASSUME NEW t \in Threads, SpawnLock(t) PROVE [Barrier!Next]_(Barrier!vars)
  <2>1. UNCHANGED AbstractStatus
    BY <1>18, SameStatus DEF SpawnLock
  <2>2. UNCHANGED AbstractBarrier
    BY <1>18 DEF SpawnLock, AbstractBarrier
  <2> QED
    BY <2>1, <2>2 DEF Barrier!vars
<1>19. ASSUME NEW t \in Threads, SpawnPublish(t) PROVE [Barrier!Next]_(Barrier!vars)
  <2>1. InBatch /\ Busy' = Busy /\ UNCHANGED id
    BY <1>19 DEF SpawnPublish, InBatch, Busy, IInv, QuietInv
  <2>2. AbstractStatus' = Append(AbstractStatus, "todo")
    BY <1>19, <2>1, StatusPublish DEF SpawnPublish, TaskTypes
  <2>3. UNCHANGED AbstractBarrier
    BY <1>19 DEF SpawnPublish, AbstractBarrier
  <2>4. AbstractBarrier = "open" \/ \E i \in DOMAIN AbstractStatus : AbstractStatus[i] = "running"
    <3>1. CASE t = Main
      BY <3>1, <1>19 DEF SpawnPublish, AbstractBarrier
    <3>2. CASE t \in TaskWorkers
      <4>1. t \in Busy /\ ~picking_tasks[id[t] + 1].complete
        BY <3>2, <1>19 DEF SpawnPublish, Busy, IInv, OwnInv
      <4>2. id[t] + 1 \in 1..Size /\ id[t] = (id[t] + 1) - 1
        BY <4>1, <1>0 DEF StatusShape
      <4>3. AbstractStatus[id[t] + 1] = "running" /\ DOMAIN AbstractStatus = 1..Size
        BY <4>1, <4>2, <1>0 DEF StatusShape
      <4> QED
        BY <4>2, <4>3
    <3> QED
      BY <3>1, <3>2
  <2> QED
    BY <2>2, <2>3, <2>4 DEF Barrier!Publish, Barrier!Next
<1>20. ASSUME NEW t \in Threads, SpawnFull(t) PROVE [Barrier!Next]_(Barrier!vars)
  <2>1. UNCHANGED AbstractStatus
    BY <1>20, SameStatus DEF SpawnFull
  <2>2. UNCHANGED AbstractBarrier
    BY <1>20 DEF SpawnFull, AbstractBarrier
  <2> QED
    BY <2>1, <2>2 DEF Barrier!vars
<1>21. ASSUME NEW t \in Threads, SpawnCount(t) PROVE [Barrier!Next]_(Barrier!vars)
  <2>1. UNCHANGED AbstractStatus
    BY <1>21, SameStatus DEF SpawnCount
  <2>2. UNCHANGED AbstractBarrier
    BY <1>21 DEF SpawnCount, AbstractBarrier
  <2> QED
    BY <2>1, <2>2 DEF Barrier!vars
<1>22. ASSUME NEW w \in TaskWorkers, ReadTaken(w) PROVE [Barrier!Next]_(Barrier!vars)
  <2>1. UNCHANGED AbstractStatus
    BY <1>22, SameStatus DEF ReadTaken
  <2>2. UNCHANGED AbstractBarrier
    BY <1>22 DEF ReadTaken, AbstractBarrier
  <2> QED
    BY <2>1, <2>2 DEF Barrier!vars
<1>23. ASSUME NEW w \in TaskWorkers, ReadCount(w) PROVE [Barrier!Next]_(Barrier!vars)
  <2>1. UNCHANGED AbstractStatus
    BY <1>23, SameStatus DEF ReadCount
  <2>2. UNCHANGED AbstractBarrier
    BY <1>23 DEF ReadCount, AbstractBarrier
  <2> QED
    BY <2>1, <2>2 DEF Barrier!vars
<1>24. ASSUME NEW w \in TaskWorkers, StartTaking(w) PROVE [Barrier!Next]_(Barrier!vars)
  <2>1. UNCHANGED AbstractStatus
    BY <1>24, SameStatus DEF StartTaking
  <2>2. UNCHANGED AbstractBarrier
    BY <1>24 DEF StartTaking, AbstractBarrier
  <2> QED
    BY <2>1, <2>2 DEF Barrier!vars
<1>25. ASSUME NEW w \in TaskWorkers, FailToStartTaking(w) PROVE [Barrier!Next]_(Barrier!vars)
  <2>1. UNCHANGED AbstractStatus
    BY <1>25, SameStatus DEF FailToStartTaking
  <2>2. UNCHANGED AbstractBarrier
    BY <1>25 DEF FailToStartTaking, AbstractBarrier
  <2> QED
    BY <2>1, <2>2 DEF Barrier!vars
<1>26. ASSUME NEW w \in TaskWorkers, RereadTaken(w) PROVE [Barrier!Next]_(Barrier!vars)
  <2>1. UNCHANGED AbstractStatus
    BY <1>26, SameStatus DEF RereadTaken
  <2>2. UNCHANGED AbstractBarrier
    BY <1>26 DEF RereadTaken, AbstractBarrier
  <2> QED
    BY <2>1, <2>2 DEF Barrier!vars
<1>27. ASSUME NEW w \in TaskWorkers, RereadCount(w) PROVE [Barrier!Next]_(Barrier!vars)
  <2>1. UNCHANGED AbstractStatus
    BY <1>27, SameStatus DEF RereadCount
  <2>2. UNCHANGED AbstractBarrier
    BY <1>27 DEF RereadCount, AbstractBarrier
  <2> QED
    BY <2>1, <2>2 DEF Barrier!vars
<1>28. ASSUME NEW w \in TaskWorkers, TakeTask(w) PROVE [Barrier!Next]_(Barrier!vars)
  <2> DEFINE k == tasks_taken + 1
  <2>1. Busy' = Busy \cup {w} /\ w \notin Busy /\ Size' = Size /\ UNCHANGED picking_tasks
    BY <1>28 DEF TakeTask, Busy, Size
  <2>2. /\ id' = [id EXCEPT ![w] = tasks_taken] /\ InBatch /\ tasks_taken < Size
        /\ ~picking_tasks[k].complete
    BY <1>28, <1>0 DEF TakeTask, IInv, TakeInv, CountInv, OwnInv, StatusShape
  <2>3. k \in 1..Size /\ id'[w] = k - 1
    <3>1. tasks_taken \in Nat /\ Size \in Nat /\ id'[w] = tasks_taken
      BY <2>2 DEF StatusShape
    <3> QED
      BY <3>1, <2>2
  <2>4. \A v \in Busy : id'[v] = id[v] /\ id[v] # k - 1
    BY <2>1, <2>2, <1>0 DEF StatusShape
  <2>5. AbstractStatus[k] = "todo" /\ AbstractStatus'[k] = "running"
    BY <2>1, <2>2, <2>3, <2>4, <1>0 DEF StatusShape
  <2>6. \A i \in 1..Size : i # k => AbstractStatus'[i] = AbstractStatus[i]
    <3> SUFFICES ASSUME NEW i \in 1..Size, i # k PROVE AbstractStatus'[i] = AbstractStatus[i]
      OBVIOUS
    <3>1. i - 1 # tasks_taken
      BY <1>0 DEF StatusShape
    <3>2. (\E v \in Busy' : id'[v] = i - 1) <=> (\E v \in Busy : id[v] = i - 1)
      BY <3>1, <2>1, <2>3, <2>4
    <3> QED
      BY <3>2, <2>1, <1>0 DEF StatusShape
  <2>7. AbstractStatus' = [AbstractStatus EXCEPT ![k] = "running"]
    BY <2>1, <2>3, <2>5, <2>6, <1>0 DEF StatusShape
  <2>8. UNCHANGED AbstractBarrier
    BY <1>28 DEF TakeTask, AbstractBarrier
  <2>9. k \in DOMAIN AbstractStatus
    BY <2>3, <1>0 DEF StatusShape
  <2> QED
    BY <2>5, <2>7, <2>8, <2>9 DEF Barrier!Take, Barrier!Next
<1>29. ASSUME NEW w \in TaskWorkers, CheckBound(w) PROVE [Barrier!Next]_(Barrier!vars)
  <2>1. id[w] < Size
    BY <1>29 DEF CheckBound, IInv, CountInv, OwnInv, QuietInv, Busy, InBatch
  <2>2. UNCHANGED AbstractStatus
    BY <2>1, <1>29, SameStatus DEF CheckBound
  <2>3. UNCHANGED AbstractBarrier
    BY <1>29 DEF CheckBound, AbstractBarrier
  <2> QED
    BY <2>2, <2>3 DEF Barrier!vars
<1>30. ASSUME NEW w \in TaskWorkers, StopTaking(w) PROVE [Barrier!Next]_(Barrier!vars)
  <2>1. UNCHANGED AbstractStatus
    BY <1>30, SameStatus DEF StopTaking
  <2>2. UNCHANGED AbstractBarrier
    BY <1>30 DEF StopTaking, AbstractBarrier
  <2> QED
    BY <2>1, <2>2 DEF Barrier!vars
<1>31. ASSUME NEW w \in TaskWorkers, FinishTask(w) PROVE [Barrier!Next]_(Barrier!vars)
  <2>1. UNCHANGED AbstractStatus
    BY <1>31, SameStatus DEF FinishTask
  <2>2. UNCHANGED AbstractBarrier
    BY <1>31 DEF FinishTask, AbstractBarrier
  <2> QED
    BY <2>1, <2>2 DEF Barrier!vars
<1>32. ASSUME NEW w \in TaskWorkers, SetComplete(w) PROVE [Barrier!Next]_(Barrier!vars)
  <2> DEFINE k == id[w] + 1
  <2>1. w \in Busy /\ Busy' = Busy /\ UNCHANGED id
    BY <1>32 DEF SetComplete, Busy
  <2>2. k \in 1..Size /\ id[w] = k - 1 /\ id[w] < Size /\ ~picking_tasks[k].complete
    <3>1. k \in 1..Size /\ id[w] \in Nat /\ Size \in Nat
      BY <2>1 DEF StatusShape
    <3>2. ~picking_tasks[k].complete
      BY <1>32, <2>1 DEF SetComplete, IInv, OwnInv
    <3>3. id[w] = k - 1 /\ id[w] < Size
      BY <3>1
    <3> QED
      BY <3>1, <3>2, <3>3
  <2>3. /\ Size' = Size
        /\ picking_tasks' = [picking_tasks EXCEPT ![k].complete = TRUE]
    BY <1>32, <2>2 DEF SetComplete, Size
  <2>4. /\ picking_tasks'[k].complete
        /\ \A i \in 1..Size : i # k => picking_tasks'[i] = picking_tasks[i]
    BY <2>2, <2>3, <1>0 DEF StatusShape
  <2>5. AbstractStatus[k] = "running" /\ AbstractStatus'[k] = "done"
    BY <2>1, <2>2, <2>3, <2>4, <1>0 DEF StatusShape
  <2>6. \A i \in 1..Size : i # k => AbstractStatus'[i] = AbstractStatus[i]
    <3> SUFFICES ASSUME NEW i \in 1..Size, i # k PROVE AbstractStatus'[i] = AbstractStatus[i]
      OBVIOUS
    <3>1. picking_tasks'[i] = picking_tasks[i] /\ Size' = Size
      BY <2>3, <2>4
    <3>2. (\E v \in Busy' : id'[v] = i - 1) <=> (\E v \in Busy : id[v] = i - 1)
      BY <2>1
    <3> HIDE DEF k, TypeOK, Threads, WorkerLabels
    <3> QED
      BY <3>1, <3>2, <1>0 DEF StatusShape
  <2>7. AbstractStatus' = [AbstractStatus EXCEPT ![k] = "done"]
    BY <2>2, <2>3, <2>5, <2>6, <1>0 DEF StatusShape
  <2>8. UNCHANGED AbstractBarrier
    BY <1>32 DEF SetComplete, AbstractBarrier
  <2>9. k \in DOMAIN AbstractStatus
    BY <2>2, <1>0 DEF StatusShape
  <2> QED
    BY <2>5, <2>7, <2>8, <2>9 DEF Barrier!Finish, Barrier!Next
<1>33. ASSUME NEW w \in TaskWorkers, CountCompleted(w) PROVE [Barrier!Next]_(Barrier!vars)
  <2>1. Busy' = Busy \ {w} /\ w \in Busy /\ Size' = Size /\ UNCHANGED picking_tasks
    BY <1>33 DEF CountCompleted, Busy, Size
  <2>2. \A v \in Busy' : id'[v] = id[v]
    BY <1>33, <2>1 DEF CountCompleted, Busy
  <2>3. picking_tasks[id[w] + 1].complete
    BY <1>33, <2>1 DEF CountCompleted, IInv, OwnInv
  <2>4. \A i \in 1..Size : AbstractStatus'[i] = AbstractStatus[i]
    <3> SUFFICES ASSUME NEW i \in 1..Size, ~picking_tasks[i].complete
        PROVE  AbstractStatus'[i] = AbstractStatus[i]
      BY <2>1, <1>0 DEF StatusShape
    <3>1. id[w] # i - 1
      <4> SUFFICES ASSUME id[w] = i - 1 PROVE id[w] + 1 = i
        BY <2>3
      <4> QED
        BY <1>0 DEF StatusShape
    <3>2. (\E v \in Busy' : id'[v] = i - 1) <=> (\E v \in Busy : id[v] = i - 1)
      BY <3>1, <2>1, <2>2
    <3> QED
      BY <3>2, <2>1, <1>0 DEF StatusShape
  <2>5. UNCHANGED AbstractStatus
    BY <2>1, <2>4, <1>0 DEF StatusShape
  <2>6. UNCHANGED AbstractBarrier
    BY <1>33 DEF CountCompleted, AbstractBarrier
  <2> QED
    BY <2>5, <2>6 DEF Barrier!vars
<1>34. ASSUME NEW w \in TaskWorkers, SleepLock(w) PROVE [Barrier!Next]_(Barrier!vars)
  <2>1. UNCHANGED AbstractStatus
    BY <1>34, SameStatus DEF SleepLock
  <2>2. UNCHANGED AbstractBarrier
    BY <1>34 DEF SleepLock, AbstractBarrier
  <2> QED
    BY <2>1, <2>2 DEF Barrier!vars
<1>35. ASSUME NEW w \in TaskWorkers, SleepDecide(w) PROVE [Barrier!Next]_(Barrier!vars)
  <2>1. /\ UNCHANGED <<picking_tasks, id>>
        /\ \E l \in {"nta1", "exited", "waiting"} : Goto(w, l)
    BY <1>35 DEF SleepDecide
  <2>2. UNCHANGED AbstractStatus
    BY <2>1, <1>35, SameStatus DEF SleepDecide
  <2>3. UNCHANGED AbstractBarrier
    BY <2>1, <1>35 DEF SleepDecide, AbstractBarrier
  <2> QED
    BY <2>2, <2>3 DEF Barrier!vars
<1>36. ASSUME NEW w \in TaskWorkers, SpuriousWakeup(w) PROVE [Barrier!Next]_(Barrier!vars)
  <2>1. UNCHANGED AbstractStatus
    BY <1>36, SameStatus DEF SpuriousWakeup
  <2>2. UNCHANGED AbstractBarrier
    BY <1>36 DEF SpuriousWakeup, AbstractBarrier
  <2> QED
    BY <2>1, <2>2 DEF Barrier!vars
<1>37. ASSUME NEW w \in TaskWorkers, Wake(w) PROVE [Barrier!Next]_(Barrier!vars)
  <2>1. UNCHANGED AbstractStatus
    BY <1>37, SameStatus DEF Wake
  <2>2. UNCHANGED AbstractBarrier
    BY <1>37 DEF Wake, AbstractBarrier
  <2> QED
    BY <2>1, <2>2 DEF Barrier!vars
<1>38. ASSUME NEW w \in TaskWorkers, WakeDecide(w) PROVE [Barrier!Next]_(Barrier!vars)
  <2>1. UNCHANGED AbstractStatus
    BY <1>38, SameStatus DEF WakeDecide
  <2>2. UNCHANGED AbstractBarrier
    BY <1>38 DEF WakeDecide, AbstractBarrier
  <2> QED
    BY <2>1, <2>2 DEF Barrier!vars
<1>39. CASE UNCHANGED vars
  <2>1. UNCHANGED AbstractStatus
    BY <1>39, SameStatus DEF vars
  <2>2. UNCHANGED AbstractBarrier
    BY <1>39 DEF vars, AbstractBarrier
  <2> QED
    BY <2>1, <2>2 DEF Barrier!vars
<1> QED
  BY <1>1, <1>2, <1>3, <1>4, <1>5, <1>6, <1>7, <1>8, <1>9, <1>10, <1>11, <1>12, <1>13,
     <1>14, <1>15, <1>16, <1>17, <1>18, <1>19, <1>20, <1>21, <1>22, <1>23, <1>24, <1>25,
     <1>26, <1>27, <1>28, <1>29, <1>30, <1>31, <1>32, <1>33, <1>34, <1>35, <1>36, <1>37,
     <1>38, <1>39 DEF Next, MainStep, SpawnStep, WorkerStep, Terminated, vars

\* The four atomics and the mutex implement the abstract TaskBarrier.
THEOREM Refinement == Spec => ImplementsBarrier
<1>1. Init => Barrier!Init
  BY ThreadsAssumption DEF Init, Barrier!Init, AbstractStatus, AbstractBarrier, Quiet, Threads
<1> QED
  BY <1>1, RefineStep, Invariance, PTL DEF Spec, ImplementsBarrier, Barrier!Spec

=============================================================================
