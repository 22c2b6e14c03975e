---------------------------- MODULE TaskBarrier ----------------------------
(***************************************************************************)
(* What the task queue of one search worker promises, with no word of the  *)
(* atomics that carry it: a batch of tasks to which the search thread and  *)
(* the running tasks may add, each task taken once and finished once, and  *)
(* a barrier that the search thread passes only when nothing is left.      *)
(***************************************************************************)
EXTENDS Naturals, Sequences

VARIABLES
    status,     \* status[i]: "todo", "running" or "done", in publishing order
    barrier     \* "open" while the search thread works, "closing" while it
                \* waits, "passed" once WaitForTasks has returned

vars == <<status, barrier>>

Statuses == {"todo", "running", "done"}

AllDone == \A i \in DOMAIN status : status[i] = "done"

Init ==
    /\ status = <<>>
    /\ barrier = "passed"

\* ResetTasks: the finished batch is dropped and a new one is open.
NewBatch ==
    /\ barrier = "passed"
    /\ status' = <<>>
    /\ barrier' = "open"

\* Only the search thread before it waits, or a running task, adds a task.
Publish ==
    /\ barrier = "open" \/ \E i \in DOMAIN status : status[i] = "running"
    /\ status' = Append(status, "todo")
    /\ UNCHANGED barrier

Take(i) ==
    /\ status[i] = "todo"
    /\ status' = [status EXCEPT ![i] = "running"]
    /\ UNCHANGED barrier

Finish(i) ==
    /\ status[i] = "running"
    /\ status' = [status EXCEPT ![i] = "done"]
    /\ UNCHANGED barrier

Close ==
    /\ barrier = "open"
    /\ barrier' = "closing"
    /\ UNCHANGED status

Pass ==
    /\ barrier = "closing"
    /\ AllDone
    /\ barrier' = "passed"
    /\ UNCHANGED status

Next ==
    \/ NewBatch
    \/ Publish
    \/ \E i \in DOMAIN status : Take(i) \/ Finish(i)
    \/ Close
    \/ Pass

Spec == Init /\ [][Next]_vars

=============================================================================
